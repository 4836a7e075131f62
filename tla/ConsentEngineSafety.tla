------------------------ MODULE ConsentEngineSafety -------------------------
(***************************************************************************)
(* The safety of ConsentEngine: its inductive invariant, and the theorems  *)
(* that follow from it.                                                    *)
(***************************************************************************)
EXTENDS ConsentEngineProofs

(***************************************************************************)
(* The strengthening behind the safety theorems.  A statement writes back  *)
(* a copy read earlier or inserts a record built earlier, so the invariant *)
(* says what the copies and drafts of the requests in flight still have in *)
(* common with the table.                                                  *)
(***************************************************************************)

\* A record built and not inserted yet is pending, and nobody else has its id.
DraftsOK ==
    /\ \A i \in ConsentIDs : consents[i] # Nil => i <= built
    /\ \A r \in Requests : draft[r] # Nil =>
         /\ pc[r] \in {"insert", "commit"}
         /\ draft[r].id <= built
         /\ consents[draft[r].id] = Nil
         /\ draft[r].status = "pending"
         /\ draft[r].pendingExpiresAt # Nil
    /\ \A r, q \in Requests :
         draft[r] # Nil /\ draft[q] # Nil /\ draft[r].id = draft[q].id => r = q

\* However old a copy is, it is a copy of the same request, and a create works
\* on rows of the pair it was called for.
CopiesOK ==
    \A r \in Requests :
        /\ copy[r] # Nil => Request(copy[r]) = Request(consents[copy[r].id])
        /\ pc[r] \in {"loaded", "replace", "revoke"} =>
             SamePair(copy[r], call[r].owner, call[r].app)
        /\ pc[r] = "commit" => SamePair(copy[r], draft[r].owner, draft[r].app)

\* A consent that does not exist has been decided by nobody.
NoEarlyWins ==
    \A i \in ConsentIDs : consents[i] = Nil => \A a \in Actions : wins[i][a] = 0

Inv == /\ BaseInv /\ DraftsOK /\ CopiesOK /\ NoEarlyWins
       /\ OneActiveConsent /\ ExactlyOneWins /\ DecisionClearsDeadline

(***************************************************************************)
(* What a step may do to the table: the statements of the engine, seen     *)
(* from the table.                                                         *)
(***************************************************************************)
SavesExpired(i, row) ==
    /\ consents[i] # Nil /\ Request(row) = Request(consents[i])
    /\ consents' = [consents EXCEPT ![i] = WithStatus(row, "expired")]
    /\ wins' = wins

ExpiresAll(S) ==
    /\ S # {}
    /\ \A i \in S : consents[i] # Nil /\ consents[i].status \in ActiveStatus
    /\ consents' = [i \in ConsentIDs |->
                      IF i \in S THEN WithStatus(consents[i], "expired") ELSE consents[i]]
    /\ wins' = wins

MayInsert(row) ==
    /\ consents[row.id] = Nil
    /\ row.status = "pending" /\ row.pendingExpiresAt # Nil

Inserts(row) ==
    /\ MayInsert(row)
    /\ UniqueActive(consents, row)
    /\ consents' = [consents EXCEPT ![row.id] = row]
    /\ wins' = wins

Revoked(old) == [consents EXCEPT ![old.id] = WithStatus(old, "revoked")]

Replaces(old, row) ==
    /\ consents[old.id] # Nil /\ Request(old) = Request(consents[old.id])
    /\ MayInsert(row)
    /\ SamePair(old, row.owner, row.app)
    /\ UniqueActive(Revoked(old), row)
    /\ consents' = [Revoked(old) EXCEPT ![row.id] = row]
    /\ wins' = wins

Decides(i, a, t) ==
    /\ consents[i] # Nil /\ consents[i].status = FromStatus(a)
    /\ consents' = [consents EXCEPT ![i] = Decided(consents[i], a, t)]
    /\ wins' = [wins EXCEPT ![i][a] = @ + 1]

TableStep ==
    \/ UNCHANGED <<consents, wins>>
    \/ \E i \in ConsentIDs, row \in ConsentRecord : SavesExpired(i, row)
    \/ \E S \in SUBSET ConsentIDs : ExpiresAll(S)
    \/ \E row \in ConsentRecord : Inserts(row)
    \/ \E old, row \in ConsentRecord : Replaces(old, row)
    \/ \E i \in ConsentIDs, a \in Actions, t \in Nat : Decides(i, a, t)

(***************************************************************************)
(* The memory of the requests under a change of the table that keeps every *)
(* request on record and adds at most the draft of r.                      *)
(***************************************************************************)
KeepsRequests ==
    \A i \in ConsentIDs : consents[i] # Nil =>
        consents'[i] # Nil /\ Request(consents'[i]) = Request(consents[i])

AddsNothing == \A i \in ConsentIDs : consents[i] = Nil => consents'[i] = Nil

AddsDraft(r) ==
    \A i \in ConsentIDs : consents[i] = Nil /\ consents'[i] # Nil =>
        draft[r] # Nil /\ i = draft[r].id

MemInv == BaseInv /\ DraftsOK /\ CopiesOK

\* Copies and drafts of the requests that do not take the step.
LEMMA OthersKept ==
  ASSUME MemInv, NEW r \in Requests, KeepsRequests, AddsDraft(r),
         NEW q \in Requests, q # r
  PROVE  /\ draft[q] # Nil => consents'[draft[q].id] = Nil
         /\ copy[q] # Nil => Request(copy[q]) = Request(consents'[copy[q].id])
<1>1. ASSUME draft[q] # Nil PROVE consents'[draft[q].id] = Nil
  <2>1. draft[q].id \in ConsentIDs
    BY <1>1 DEF MemInv, BaseInv, TypeOK, ConsentRecord
  <2>2. consents[draft[q].id] = Nil
    BY <1>1 DEF MemInv, DraftsOK
  <2>3. draft[r] # Nil => draft[q].id # draft[r].id
    BY <1>1 DEF MemInv, DraftsOK
  <2> QED
    BY <2>1, <2>2, <2>3 DEF AddsDraft
<1>2. ASSUME copy[q] # Nil PROVE Request(copy[q]) = Request(consents'[copy[q].id])
  <2>1. copy[q].id \in ConsentIDs /\ consents[copy[q].id] # Nil
    BY <1>2 DEF MemInv, BaseInv, TypeOK, RowsOK, ConsentRecord
  <2>2. Request(copy[q]) = Request(consents[copy[q].id])
    BY <1>2 DEF MemInv, CopiesOK
  <2> QED
    BY <2>1, <2>2 DEF KeepsRequests
<1> QED
  BY <1>1, <1>2

\* The request that takes the step is answered and forgets.
LEMMA AnswerMemory ==
  ASSUME MemInv, NEW r \in Requests, NEW a, Answer(r, a), KeepsRequests, AddsDraft(r),
         built' = built
  PROVE  DraftsOK' /\ CopiesOK'
<1>1. /\ pc' = [pc EXCEPT ![r] = "idle"] /\ draft' = [draft EXCEPT ![r] = Nil]
      /\ copy' = [copy EXCEPT ![r] = Nil] /\ call' = [call EXCEPT ![r] = Nil]
  BY DEF Answer
<1>2. \A i \in ConsentIDs : consents'[i] # Nil => i <= built'
  BY DEF MemInv, DraftsOK, AddsDraft
<1>3. \A q \in Requests :
         /\ q # r => /\ pc'[q] = pc[q] /\ draft'[q] = draft[q]
                     /\ copy'[q] = copy[q] /\ call'[q] = call[q]
         /\ q = r => /\ pc'[q] = "idle" /\ draft'[q] = Nil /\ copy'[q] = Nil
  BY <1>1 DEF MemInv, BaseInv, TypeOK
<1>4. DraftsOK'
  BY <1>2, <1>3, OthersKept DEF DraftsOK, MemInv
<1>5. CopiesOK'
  BY <1>3, OthersKept DEF CopiesOK, MemInv
<1> QED
  BY <1>4, <1>5

\* It goes on with a row that is still the same request.
LEMMA GotoMemory ==
  ASSUME MemInv, NEW r \in Requests, NEW s, NEW row, Goto(r, s, row),
         KeepsRequests, AddsNothing, built' = built,
         pc[r] \notin {"insert", "commit"}, s # "loaded", s # "commit",
         row # Nil => Request(row) = Request(consents'[row.id]),
         s \in {"replace", "revoke"} => SamePair(row, call[r].owner, call[r].app)
  PROVE  DraftsOK' /\ CopiesOK'
<1>1. /\ pc' = [pc EXCEPT ![r] = s] /\ draft' = draft
      /\ copy' = [copy EXCEPT ![r] = row] /\ call' = call
  BY DEF Goto
<1>2. \A i \in ConsentIDs : consents'[i] # Nil => i <= built'
  BY DEF MemInv, DraftsOK, AddsNothing
<1>3. /\ draft[r] = Nil
      /\ AddsDraft(r)
  BY DEF MemInv, DraftsOK, AddsNothing, AddsDraft
<1>4. \A q \in Requests :
         /\ q # r => pc'[q] = pc[q] /\ copy'[q] = copy[q]
         /\ q = r => pc'[q] = s /\ copy'[q] = row
  BY <1>1 DEF MemInv, BaseInv, TypeOK
<1>5. DraftsOK'
  BY <1>1, <1>2, <1>3, <1>4, OthersKept DEF DraftsOK, MemInv
<1>6. CopiesOK'
  BY <1>1, <1>3, <1>4, OthersKept DEF CopiesOK, MemInv
<1> QED
  BY <1>5, <1>6

\* Requests that do not take part in the step.
LEMMA SameMemory ==
  ASSUME MemInv, KeepsRequests, AddsNothing, UNCHANGED <<built, pc, call, copy, draft>>
  PROVE  DraftsOK' /\ CopiesOK'
<1>1. \A q \in Requests :
         /\ draft[q] # Nil => draft[q].id \in ConsentIDs
         /\ copy[q] # Nil => copy[q].id \in ConsentIDs /\ consents[copy[q].id] # Nil
  BY DEF MemInv, BaseInv, TypeOK, RowsOK, ConsentRecord
<1>2. DraftsOK'
  BY <1>1 DEF MemInv, DraftsOK, AddsNothing
<1>3. CopiesOK'
  BY <1>1 DEF MemInv, CopiesOK, KeepsRequests
<1> QED
  BY <1>2, <1>3

\* It arrives and loads.
LEMMA LoadMemory ==
  ASSUME MemInv, NEW r \in Requests, NEW c, NEW s \in {"loaded", "portal", "build"},
         NEW row, Load(r, c, row, s), UNCHANGED <<consents, built>>, pc[r] = "idle",
         row # Nil => Request(row) = Request(consents[row.id]),
         s = "loaded" => SamePair(row, c.owner, c.app)
  PROVE  DraftsOK' /\ CopiesOK'
<1>1. draft[r] = Nil
  BY DEF MemInv, DraftsOK
<1>2. \A q \in Requests :
         /\ q # r => pc'[q] = pc[q] /\ copy'[q] = copy[q] /\ call'[q] = call[q]
         /\ q = r => pc'[q] = s /\ copy'[q] = row /\ call'[q] = c
         /\ draft'[q] = draft[q]
  BY DEF Load, MemInv, BaseInv, TypeOK
<1>3. DraftsOK'
  BY <1>1, <1>2 DEF Load, DraftsOK, MemInv
<1>4. CopiesOK'
  BY <1>2 DEF CopiesOK, MemInv
<1> QED
  BY <1>3, <1>4

\* It stamps a record, with an id nobody has used.
LEMMA BuildMemory ==
  ASSUME MemInv, NEW r \in Requests, NEW s \in {"insert", "commit"}, Build(r, s),
         UNCHANGED consents, pc[r] \in {"build", "revoke"},
         s = "commit" => pc[r] = "revoke"
  PROVE  DraftsOK' /\ CopiesOK'
<1> DEFINE row == BuildConsentRecord(call[r], built + 1)
<1>1. /\ built \in Nat /\ built + 1 \in ConsentIDs
      /\ \A n \in ConsentIDs : n \in Nat
  BY ConstantsAssumption DEF ConstantsAssumption, Build, MemInv, BaseInv, TypeOK, ConsentIDs
<1>2. /\ row.id = built + 1 /\ row.owner = call[r].owner /\ row.app = call[r].app
      /\ row.status = "pending" /\ row.pendingExpiresAt = now + call[r].timeout
  BY DEF BuildConsentRecord
<1>3. now + call[r].timeout # Nil
  <2>1. call[r] \in CreateCall
    BY DEF MemInv, BaseInv, MemoryOK
  <2>2. call[r].timeout \in Nat
    BY <2>1, ConstantsAssumption DEF CreateCall, ConstantsAssumption
  <2>3. now \in Nat
    BY DEF MemInv, BaseInv, TypeOK
  <2>4. \A m, n \in Nat : m + n \in Nat
    OBVIOUS
  <2> QED
    BY <2>2, <2>3, <2>4, ConstantsAssumption DEF ConstantsAssumption
<1> HIDE DEF row
<1>4. consents[built + 1] = Nil
  <2>1. ~(built + 1 <= built)
    BY <1>1
  <2> QED
    BY <1>1, <2>1 DEF MemInv, DraftsOK
<1>5. /\ built' = built + 1
      /\ \A q \in Requests :
           /\ q # r => pc'[q] = pc[q] /\ draft'[q] = draft[q] /\ call'[q] = call[q]
           /\ q = r => pc'[q] = s /\ draft'[q] = row
      /\ copy' = copy
  BY DEF Build, MemInv, BaseInv, TypeOK, row
<1>6. \A q \in Requests : draft[q] # Nil => draft[q].id \in Nat
  BY <1>1 DEF MemInv, BaseInv, TypeOK, ConsentRecord
<1>7. DraftsOK'
  <2>1. \A n \in Nat : n <= built => n <= built + 1 /\ n # built + 1
    BY <1>1
  <2>2. \A i \in ConsentIDs : consents'[i] # Nil => i <= built'
    BY <1>1, <1>5, <2>1 DEF MemInv, DraftsOK
  <2>3. ASSUME NEW q \in Requests, draft'[q] # Nil
        PROVE  /\ pc'[q] \in {"insert", "commit"}
               /\ draft'[q].id <= built'
               /\ consents'[draft'[q].id] = Nil
               /\ draft'[q].status = "pending"
               /\ draft'[q].pendingExpiresAt # Nil
    <3>1. CASE q = r
      BY <1>1, <1>2, <1>3, <1>4, <1>5, <3>1
    <3>2. CASE q # r
      BY <1>5, <1>6, <2>1, <2>3, <3>2 DEF MemInv, DraftsOK
    <3> QED
      BY <3>1, <3>2
  <2>4. ASSUME NEW q1 \in Requests, NEW q2 \in Requests,
               draft'[q1] # Nil, draft'[q2] # Nil, draft'[q1].id = draft'[q2].id
        PROVE  q1 = q2
    BY <1>2, <1>5, <1>6, <2>1, <2>4 DEF MemInv, DraftsOK
  <2> QED
    BY <2>2, <2>3, <2>4 DEF DraftsOK
<1>8. CopiesOK'
  BY <1>2, <1>5 DEF MemInv, CopiesOK, SamePair
<1> QED
  BY <1>7, <1>8

(***************************************************************************)
(* What each kind of step leaves on record.                                *)
(***************************************************************************)
LEMMA RequestOf ==
  ASSUME NEW row \in ConsentRecord, NEW other \in ConsentRecord, Request(row) = Request(other)
  PROVE  /\ row.id = other.id /\ row.owner = other.owner /\ row.app = other.app
         /\ row.fields = other.fields /\ row.duration = other.duration
BY DEF Request

\* Another status leaves what was asked for.
LEMMA WithStatusRequest ==
  ASSUME NEW row \in ConsentRecord, NEW s
  PROVE  /\ Request(WithStatus(row, s)) = Request(row)
         /\ WithStatus(row, s).status = s
         /\ WithStatus(row, s).pendingExpiresAt = row.pendingExpiresAt
BY DEF Request, WithStatus, ConsentRecord

\* So does a decision.
LEMMA DecidedRequest ==
  ASSUME NEW row \in ConsentRecord, NEW a \in Actions, NEW t
  PROVE  Request(Decided(row, a, t)) = Request(row)
<1>1. CASE a = "approve"
  BY <1>1 DEF Decided, Request, ConsentRecord
<1>2. CASE a = "reject"
  BY <1>2 DEF Decided, Request, ConsentRecord
<1>3. CASE a = "revoke"
  BY <1>3 DEF Decided, Request, ConsentRecord
<1> QED
  BY <1>1, <1>2, <1>3 DEF Actions

\* A row that exists is a record under its own id.
LEMMA RowType ==
  ASSUME BaseInv, NEW i \in ConsentIDs, consents[i] # Nil
  PROVE  consents[i] \in ConsentRecord /\ consents[i].id = i
BY DEF BaseInv, TypeOK, RowsOK

\* Saving a record as expired keeps every request on record.
LEMMA SavesExpiredKeeps ==
  ASSUME BaseInv, NEW i \in ConsentIDs, NEW row \in ConsentRecord, SavesExpired(i, row)
  PROVE  KeepsRequests /\ AddsNothing
<1>1. WithStatus(row, "expired") # Nil
  BY WithStatusType, ConstantsAssumption DEF Status, TerminalStatus, ConstantsAssumption
<1>2. Request(WithStatus(row, "expired")) = Request(consents[i])
  BY WithStatusRequest DEF SavesExpired
<1>3. \A j \in ConsentIDs : /\ j # i => consents'[j] = consents[j]
                            /\ j = i => consents'[j] = WithStatus(row, "expired")
  BY DEF SavesExpired, BaseInv, TypeOK
<1> QED
  BY <1>1, <1>2, <1>3 DEF SavesExpired, KeepsRequests, AddsNothing

\* So does the expiry of all stale records of an owner.
LEMMA ExpiresAllKeeps ==
  ASSUME BaseInv, NEW S \in SUBSET ConsentIDs, ExpiresAll(S)
  PROVE  KeepsRequests /\ AddsNothing
<1>1. \A i \in S : /\ WithStatus(consents[i], "expired") # Nil
                   /\ Request(WithStatus(consents[i], "expired")) = Request(consents[i])
  <2> SUFFICES ASSUME NEW i \in S
               PROVE  /\ WithStatus(consents[i], "expired") # Nil
                      /\ Request(WithStatus(consents[i], "expired")) = Request(consents[i])
    OBVIOUS
  <2>1. consents[i] \in ConsentRecord
    BY RowType DEF ExpiresAll
  <2>2. WithStatus(consents[i], "expired") \in ConsentRecord
    BY <2>1, WithStatusType DEF Status, TerminalStatus
  <2> QED
    BY <2>1, <2>2, WithStatusRequest, ConstantsAssumption DEF ConstantsAssumption
<1>2. \A j \in ConsentIDs : /\ j \notin S => consents'[j] = consents[j]
                            /\ j \in S => consents'[j] = WithStatus(consents[j], "expired")
  BY DEF ExpiresAll
<1>3. \A i \in S : consents[i] # Nil
  BY DEF ExpiresAll
<1> QED
  BY <1>1, <1>2, <1>3 DEF KeepsRequests, AddsNothing

\* An insert adds its record only.
LEMMA InsertsKeeps ==
  ASSUME BaseInv, NEW row \in ConsentRecord, Inserts(row)
  PROVE  /\ KeepsRequests
         /\ \A i \in ConsentIDs : consents[i] = Nil /\ consents'[i] # Nil => i = row.id
<1>1. consents[row.id] = Nil
  BY DEF Inserts, MayInsert
<1>2. \A i \in ConsentIDs : i # row.id => consents'[i] = consents[i]
  BY DEF Inserts, BaseInv, TypeOK
<1> QED
  BY <1>1, <1>2 DEF KeepsRequests

\* The table as revokeAndCreateConsent's first write leaves it.
LEMMA RevokedRow ==
  ASSUME BaseInv, NEW old \in ConsentRecord
  PROVE  /\ Revoked(old)[old.id] = WithStatus(old, "revoked")
         /\ \A i \in ConsentIDs : i # old.id => Revoked(old)[i] = consents[i]
         /\ Revoked(old) \in [ConsentIDs -> ConsentRecord \cup {Nil}]
         /\ WithStatus(old, "revoked") # Nil
<1>1. WithStatus(old, "revoked") \in ConsentRecord
  BY WithStatusType DEF Status, TerminalStatus
<1> QED
  BY <1>1, ConstantsAssumption
     DEF Revoked, BaseInv, TypeOK, ConsentRecord, ConstantsAssumption

\* Row by row, a replacement revokes one record and adds another.
LEMMA ReplacesRows ==
  ASSUME BaseInv, NEW old \in ConsentRecord, NEW row \in ConsentRecord, Replaces(old, row)
  PROVE  /\ old.id # row.id
         /\ consents'[old.id] = WithStatus(old, "revoked")
         /\ consents'[row.id] = row
         /\ \A i \in ConsentIDs : i # old.id /\ i # row.id => consents'[i] = consents[i]
<1>1. old.id # row.id /\ old.id \in ConsentIDs /\ row.id \in ConsentIDs
  BY DEF Replaces, MayInsert, ConsentRecord
<1>2. consents' = [Revoked(old) EXCEPT ![row.id] = row]
  BY DEF Replaces
<1> QED
  BY <1>1, <1>2, RevokedRow

\* A replacement adds its record only.
LEMMA ReplacesKeeps ==
  ASSUME BaseInv, NEW old \in ConsentRecord, NEW row \in ConsentRecord, Replaces(old, row)
  PROVE  /\ KeepsRequests
         /\ \A i \in ConsentIDs : consents[i] = Nil /\ consents'[i] # Nil => i = row.id
<1>1. /\ consents[row.id] = Nil /\ consents[old.id] # Nil
      /\ Request(old) = Request(consents[old.id])
  BY DEF Replaces, MayInsert
<1>2. Request(WithStatus(old, "revoked")) = Request(old) /\ WithStatus(old, "revoked") # Nil
  BY WithStatusRequest, RevokedRow
<1> QED
  BY <1>1, <1>2, ReplacesRows DEF KeepsRequests

\* A decision keeps every request on record.
LEMMA DecidesKeeps ==
  ASSUME BaseInv, NEW i \in ConsentIDs, NEW a \in Actions, NEW t \in Nat, Decides(i, a, t)
  PROVE  KeepsRequests /\ AddsNothing
<1>1. consents[i] # Nil /\ consents[i] \in ConsentRecord
  BY RowType DEF Decides
<1>2. /\ Decided(consents[i], a, t) # Nil
      /\ Request(Decided(consents[i], a, t)) = Request(consents[i])
  BY <1>1, DecidedType, DecidedRequest, ConstantsAssumption DEF ConstantsAssumption
<1>3. \A j \in ConsentIDs : /\ j # i => consents'[j] = consents[j]
                            /\ j = i => consents'[j] = Decided(consents[i], a, t)
  BY DEF Decides, BaseInv, TypeOK
<1> QED
  BY <1>1, <1>2, <1>3 DEF KeepsRequests, AddsNothing

\* Nothing changes.
LEMMA SameKeeps ==
  ASSUME consents' = consents
  PROVE  KeepsRequests /\ AddsNothing
BY DEF KeepsRequests, AddsNothing

(***************************************************************************)
(* Each action is one of those steps and keeps what the requests remember. *)
(***************************************************************************)
Effect == TableStep /\ DraftsOK' /\ CopiesOK'

\* An answer without a change of the table.
LEMMA AnswerUnchanged ==
  ASSUME MemInv, NEW r \in Requests, NEW a, Answer(r, a), UNCHANGED <<consents, built, wins>>
  PROVE  Effect
<1>1. KeepsRequests /\ AddsDraft(r)
  BY SameKeeps DEF AddsNothing, AddsDraft
<1> QED
  BY <1>1, AnswerMemory DEF Effect, TableStep

\* A request that arrives reads only.
LEMMA ArriveEffect ==
  ASSUME MemInv, NEW r \in Requests, Arrive(r)
  PROVE  Effect
<1>1. UNCHANGED <<consents, built, wins>> /\ pc[r] = "idle"
  BY DEF Arrive, GetConsent, CreateConsent, PortalRequest
<1>2. ASSUME NEW a, AnswerAtOnce(r, a)
      PROVE  DraftsOK' /\ CopiesOK'
  BY <1>1, <1>2, SameKeeps, SameMemory DEF AnswerAtOnce
<1>3. ASSUME NEW c, NEW s \in {"loaded", "portal"}, NEW i \in ConsentIDs, consents[i] # Nil,
             Load(r, c, consents[i], s),
             s = "loaded" => SamePair(consents[i], c.owner, c.app)
      PROVE  DraftsOK' /\ CopiesOK'
  <2>1. consents[i].id = i
    BY <1>3, RowType DEF MemInv
  <2> DEFINE row == consents[i]
  <2>2. Request(row) = Request(consents[row.id])
    BY <2>1
  <2>3. /\ Load(r, c, row, s)
        /\ s = "loaded" => SamePair(row, c.owner, c.app)
        /\ s \in {"loaded", "portal", "build"}
    BY <1>3
  <2> HIDE DEF row
  <2> QED
    BY <1>1, <2>2, <2>3, LoadMemory
<1>4. DraftsOK' /\ CopiesOK'
  <2>1. ASSUME NEW o \in Owners, NEW a \in Apps, GetConsent(r, o, a)
        PROVE  DraftsOK' /\ CopiesOK'
    <3> DEFINE c == [op |-> "get", owner |-> o, app |-> a]
    <3>1. CASE AnswerAtOnce(r, "not_found")
      BY <1>2, <3>1
    <3>2. CASE \E i \in RowsOf(o, a) : Load(r, c, consents[i], "loaded")
      <4>1. c.owner = o /\ c.app = a
        OBVIOUS
      <4> HIDE DEF c
      <4> QED
        BY <1>3, <3>2, <4>1 DEF RowsOf
    <3> QED
      BY <2>1, <3>1, <3>2 DEF GetConsent
  <2>2. ASSUME NEW c \in CreateCall, CreateConsent(r, c)
        PROVE  DraftsOK' /\ CopiesOK'
    <3>1. CASE Load(r, c, Nil, "build")
      BY <1>1, <3>1, LoadMemory
    <3>2. CASE \E i \in RowsOf(c.owner, c.app) : Load(r, c, consents[i], "loaded")
      BY <1>3, <3>2 DEF RowsOf
    <3> QED
      BY <2>2, <3>1, <3>2 DEF CreateConsent
  <2>3. ASSUME NEW op \in PortalOps, NEW i \in ConsentIDs, NEW c \in Callers,
               PortalRequest(r, op, i, c)
        PROVE  DraftsOK' /\ CopiesOK'
    <3> DEFINE k == [op |-> op, id |-> i, caller |-> c]
    <3>1. CASE consents[i] # Nil /\ Load(r, k, consents[i], "portal")
      <4> HIDE DEF k
      <4> QED
        BY <1>3, <3>1
    <3>2. CASE AnswerAtOnce(r, "not_found") \/ AnswerAtOnce(r, "denied")
      BY <1>2, <3>2
    <3> QED
      BY <2>3, <3>1, <3>2 DEF PortalRequest
  <2> QED
    BY <2>1, <2>2, <2>3 DEF Arrive
<1> QED
  BY <1>1, <1>4 DEF Effect, TableStep

\* GetConsentInternalView saves the stale copy as expired.
LEMMA SaveExpiredEffect ==
  ASSUME MemInv, NEW r \in Requests, SaveExpired(r)
  PROVE  Effect
<1>1. copy[r] \in ConsentRecord /\ copy[r].id \in ConsentIDs /\ consents[copy[r].id] # Nil
  BY DEF SaveExpired, MemInv, BaseInv, TypeOK, MemoryOK, RowsOK, ConsentRecord
<1>2. SavesExpired(copy[r].id, copy[r]) /\ built' = built
  BY <1>1, ConstantsAssumption
     DEF ConstantsAssumption, SaveExpired, SavesExpired, MemInv, CopiesOK
<1>3. KeepsRequests /\ AddsNothing
  BY <1>1, <1>2, SavesExpiredKeeps DEF MemInv
<1>4. TableStep
  BY <1>1, <1>2 DEF TableStep
<1>5. CASE Answer(r, "expired")
  BY <1>2, <1>3, <1>4, <1>5, AnswerMemory DEF Effect, AddsNothing, AddsDraft
<1>6. CASE Goto(r, "build", Nil)
  <2>1. pc[r] = "loaded"
    BY DEF SaveExpired
  <2> QED
    BY <1>2, <1>3, <1>4, <1>6, <2>1, GotoMemory DEF Effect
<1> QED
  BY <1>5, <1>6 DEF SaveExpired

\* GetConsentInternalView and CreateConsentRecord use what was loaded.
LEMMA UseLoadedEffect ==
  ASSUME MemInv, NEW r \in Requests, UseLoaded(r)
  PROVE  Effect
<1>1. UNCHANGED <<consents, built, wins>> /\ pc[r] = "loaded"
  BY DEF UseLoaded
<1>2. /\ Request(copy[r]) = Request(consents[copy[r].id])
      /\ SamePair(copy[r], call[r].owner, call[r].app)
  BY <1>1 DEF MemInv, BaseInv, MemoryOK, CopiesOK
<1>3. CASE Answer(r, copy[r].status)
  BY <1>1, <1>3, AnswerUnchanged
<1>4. CASE Goto(r, "replace", copy[r])
  BY <1>1, <1>2, <1>4, SameKeeps, GotoMemory DEF Effect, TableStep
<1>5. CASE Goto(r, "build", Nil)
  BY <1>1, <1>5, SameKeeps, GotoMemory DEF Effect, TableStep
<1> QED
  BY <1>3, <1>4, <1>5 DEF UseLoaded

\* buildConsentRecord writes nothing.
LEMMA BuildEffect ==
  ASSUME MemInv, NEW r \in Requests, BuildConsent(r) \/ RevokeExisting(r)
  PROVE  Effect
<1>1. UNCHANGED <<consents, wins>>
  BY DEF BuildConsent, RevokeExisting
<1>2. DraftsOK' /\ CopiesOK'
  <2>1. CASE pc[r] = "build" /\ Build(r, "insert")
    BY <1>1, <2>1, BuildMemory
  <2>2. CASE pc[r] = "revoke" /\ Build(r, "commit")
    BY <1>1, <2>2, BuildMemory
  <2> QED
    BY <2>1, <2>2 DEF BuildConsent, RevokeExisting
<1> QED
  BY <1>1, <1>2 DEF Effect, TableStep

\* createConsentRecord inserts, or the index refuses.
LEMMA InsertEffect ==
  ASSUME MemInv, NEW r \in Requests, InsertConsent(r)
  PROVE  Effect
<1>1. draft[r] \in ConsentRecord /\ draft[r] # Nil /\ MayInsert(draft[r])
  BY DEF InsertConsent, MemInv, BaseInv, TypeOK, MemoryOK, DraftsOK, MayInsert
<1>2. UNCHANGED <<built, wins>>
  BY DEF InsertConsent
<1>3. CASE /\ UniqueActive(consents, draft[r])
           /\ consents' = [consents EXCEPT ![draft[r].id] = draft[r]]
           /\ Answer(r, "pending")
  <2>1. Inserts(draft[r])
    BY <1>1, <1>2, <1>3 DEF Inserts
  <2>2. KeepsRequests /\ AddsDraft(r)
    BY <1>1, <2>1, InsertsKeeps DEF MemInv, AddsDraft
  <2>3. TableStep
    BY <1>1, <2>1 DEF TableStep
  <2> QED
    BY <1>2, <1>3, <2>2, <2>3, AnswerMemory DEF Effect
<1>4. CASE Answer(r, "error") /\ UNCHANGED consents
  BY <1>2, <1>4, AnswerUnchanged
<1> QED
  BY <1>3, <1>4 DEF InsertConsent

\* The transaction re-reads the record.
LEMMA BeginReplaceEffect ==
  ASSUME MemInv, NEW r \in Requests, BeginReplace(r)
  PROVE  Effect
<1>1. UNCHANGED <<consents, built, wins>> /\ pc[r] = "replace"
  BY DEF BeginReplace
<1>2. /\ copy[r] \in ConsentRecord /\ copy[r].id \in ConsentIDs
      /\ consents[copy[r].id] # Nil
      /\ Request(copy[r]) = Request(consents[copy[r].id])
      /\ SamePair(copy[r], call[r].owner, call[r].app)
  BY <1>1 DEF MemInv, BaseInv, TypeOK, MemoryOK, RowsOK, CopiesOK, ConsentRecord
<1> DEFINE row == consents[copy[r].id]
<1>3. row \in ConsentRecord /\ row.id = copy[r].id
  BY <1>2, RowType DEF MemInv
<1>4. /\ Request(row) = Request(consents'[row.id])
      /\ SamePair(row, call[r].owner, call[r].app)
  BY <1>1, <1>2, <1>3, RequestOf DEF SamePair
<1>5. CASE Goto(r, "revoke", row)
  <2> HIDE DEF row
  <2> QED
    BY <1>1, <1>4, <1>5, SameKeeps, GotoMemory DEF Effect, TableStep
<1>6. CASE Answer(r, "error")
  BY <1>1, <1>6, AnswerUnchanged
<1> QED
  BY <1>5, <1>6 DEF BeginReplace

\* The transaction commits, or the index refuses and it rolls back.
LEMMA CommitReplaceEffect ==
  ASSUME MemInv, NEW r \in Requests, CommitReplace(r)
  PROVE  Effect
<1>1. UNCHANGED <<built, wins>> /\ pc[r] = "commit"
  BY DEF CommitReplace
<1>2. /\ draft[r] \in ConsentRecord /\ draft[r] # Nil /\ MayInsert(draft[r])
      /\ copy[r] \in ConsentRecord /\ consents[copy[r].id] # Nil
      /\ Request(copy[r]) = Request(consents[copy[r].id])
      /\ SamePair(copy[r], draft[r].owner, draft[r].app)
  BY <1>1 DEF MemInv, BaseInv, TypeOK, MemoryOK, RowsOK, DraftsOK, CopiesOK, MayInsert
<1>3. CASE /\ UniqueActive(Revoked(copy[r]), draft[r])
           /\ consents' = [Revoked(copy[r]) EXCEPT ![draft[r].id] = draft[r]]
           /\ Answer(r, "pending")
  <2>1. Replaces(copy[r], draft[r])
    BY <1>1, <1>2, <1>3 DEF Replaces
  <2>2. KeepsRequests /\ AddsDraft(r)
    BY <1>2, <2>1, ReplacesKeeps DEF MemInv, AddsDraft
  <2>3. TableStep
    BY <1>2, <2>1 DEF TableStep
  <2> QED
    BY <1>1, <1>3, <2>2, <2>3, AnswerMemory DEF Effect
<1>4. CASE Answer(r, "error") /\ UNCHANGED consents
  BY <1>1, <1>4, AnswerUnchanged
<1> QED
  BY <1>3, <1>4 DEF CommitReplace, Revoked

\* persistExpiryIfStale.
LEMMA PersistExpiryEffect ==
  ASSUME MemInv, NEW r \in Requests, PersistExpiry(r)
  PROVE  Effect
<1>1. UNCHANGED <<built, wins>> /\ pc[r] = "portal"
  BY DEF PersistExpiry
<1>2. /\ copy[r] \in ConsentRecord /\ copy[r].id \in ConsentIDs
      /\ consents[copy[r].id] # Nil
      /\ Request(copy[r]) = Request(consents[copy[r].id])
  BY <1>1 DEF MemInv, BaseInv, TypeOK, MemoryOK, RowsOK, CopiesOK, ConsentRecord
<1> DEFINE i == copy[r].id
           row == consents[i]
<1>3. row \in ConsentRecord
  BY <1>2, RowType DEF MemInv
<1>4. CASE /\ consents' = [consents EXCEPT ![i] = WithStatus(row, "expired")]
           /\ \E a \in {"expired", "conflict"} : Answer(r, a)
  <2>1. SavesExpired(i, row)
    BY <1>1, <1>2, <1>4 DEF SavesExpired
  <2>2. KeepsRequests /\ AddsNothing
    BY <1>2, <1>3, <2>1, SavesExpiredKeeps DEF MemInv
  <2>3. TableStep
    BY <1>2, <1>3, <2>1 DEF TableStep
  <2> QED
    BY <1>1, <1>4, <2>2, <2>3, AnswerMemory DEF Effect, AddsNothing, AddsDraft
<1>5. CASE Goto(r, "reload", copy[r]) /\ UNCHANGED consents
  BY <1>1, <1>2, <1>5, SameKeeps, GotoMemory DEF Effect, TableStep
<1> QED
  BY <1>4, <1>5 DEF PersistExpiry

\* The portal reads and refuses.
LEMMA PortalReadEffect ==
  ASSUME MemInv, NEW r \in Requests, ViewConsent(r) \/ RefuseAction(r) \/ Reload(r)
  PROVE  Effect
<1>1. UNCHANGED <<consents, built, wins>>
  BY DEF ViewConsent, RefuseAction, Reload
<1>2. CASE \E a : Answer(r, a)
  BY <1>1, <1>2, AnswerUnchanged
<1>3. CASE pc[r] = "reload" /\ Goto(r, "reloaded", consents[copy[r].id])
  <2>1. copy[r].id \in ConsentIDs /\ consents[copy[r].id] # Nil
    BY <1>3 DEF MemInv, BaseInv, TypeOK, MemoryOK, RowsOK, ConsentRecord
  <2> DEFINE row == consents[copy[r].id]
  <2>2. row.id = copy[r].id
    BY <2>1, RowType DEF MemInv
  <2>3. Request(row) = Request(consents'[row.id])
    BY <1>1, <2>2
  <2> HIDE DEF row
  <2>4. Goto(r, "reloaded", row)
    BY <1>3 DEF row
  <2> QED
    BY <1>1, <1>3, <2>3, <2>4, SameKeeps, GotoMemory DEF Effect, TableStep
<1> QED
  BY <1>2, <1>3 DEF ViewConsent, RefuseAction, Reload

\* The portal decides.
LEMMA DecideEffect ==
  ASSUME MemInv, NEW r \in Requests, DecideConsent(r)
  PROVE  Effect
<1> DEFINE i == call[r].id
           a == call[r].op
<1>1. i \in ConsentIDs /\ a \in Actions /\ built' = built
  BY DEF DecideConsent, MemInv, BaseInv, MemoryOK, PortalCall
<1>2. PICK t \in DecisionTimes(r) :
         \/ /\ consents[i] # Nil /\ consents[i].status = FromStatus(a)
            /\ consents' = [consents EXCEPT ![i] = Decided(consents[i], a, t)]
            /\ wins' = [wins EXCEPT ![i][a] = @ + 1]
            /\ Answer(r, "ok")
         \/ Answer(r, "conflict") /\ UNCHANGED <<consents, wins>>
  BY DEF DecideConsent, WhereIdAndStatus
<1>3. t \in Nat
  BY <1>2, DecisionTimesType DEF MemInv
<1>4. CASE Answer(r, "conflict") /\ UNCHANGED <<consents, wins>>
  BY <1>1, <1>4, AnswerUnchanged
<1>5. CASE Decides(i, a, t) /\ Answer(r, "ok")
  <2> HIDE DEF i, a
  <2>1. KeepsRequests /\ AddsNothing
    BY <1>1, <1>3, <1>5, DecidesKeeps DEF MemInv
  <2>2. TableStep
    BY <1>1, <1>3, <1>5 DEF TableStep
  <2> QED
    BY <1>1, <1>5, <2>1, <2>2, AnswerMemory DEF Effect, AddsNothing, AddsDraft
<1> QED
  BY <1>2, <1>4, <1>5 DEF Decides

\* The portal lists.
LEMMA ListEffect ==
  ASSUME MemInv, NEW o \in Owners, NEW t \in 0..now, ListConsents(o, t)
  PROVE  Effect
<1> DEFINE S == {i \in ConsentIDs :
                   consents[i] # Nil /\ consents[i].owner = o /\ Stale(consents[i], t)}
<1>1. ExpiresAll(S)
  BY DEF ListConsents, ExpiresAll, Stale, ActiveStatus
<1>2. S \in SUBSET ConsentIDs
  OBVIOUS
<1>3. UNCHANGED <<built, pc, call, copy, draft>>
  BY DEF ListConsents
<1> HIDE DEF S
<1>4. KeepsRequests /\ AddsNothing
  BY <1>1, <1>2, ExpiresAllKeeps DEF MemInv
<1> QED
  BY <1>1, <1>2, <1>3, <1>4, SameMemory DEF Effect, TableStep

\* Every step.
LEMMA StepEffect ==
  ASSUME MemInv, [Next]_vars
  PROVE  Effect
<1>1. ASSUME NEW r \in Requests, Proceed(r)
      PROVE  Effect
  BY <1>1, SaveExpiredEffect, UseLoadedEffect, BuildEffect, InsertEffect,
     BeginReplaceEffect, CommitReplaceEffect, PersistExpiryEffect, PortalReadEffect,
     DecideEffect DEF Proceed
<1>2. ASSUME NEW r \in Requests, Abort(r)
      PROVE  Effect
  BY <1>2, AnswerUnchanged DEF Abort
<1>3. CASE Tick \/ UNCHANGED vars
  BY <1>3, SameKeeps, SameMemory DEF Tick, vars, Effect, TableStep
<1> QED
  BY <1>1, <1>2, <1>3, ArriveEffect, ListEffect DEF Next

-----------------------------------------------------------------------------
(***************************************************************************)
(* What the steps of the table preserve.                                   *)
(***************************************************************************)
LEMMA KeptParties ==
  ASSUME BaseInv, BaseInv', KeepsRequests, NEW i \in ConsentIDs, consents[i] # Nil
  PROVE  /\ consents'[i] \in ConsentRecord /\ consents[i] \in ConsentRecord
         /\ consents'[i] # Nil
         /\ consents'[i].owner = consents[i].owner
         /\ consents'[i].app = consents[i].app
         /\ consents'[i].duration = consents[i].duration
<1>1. consents'[i] # Nil /\ Request(consents'[i]) = Request(consents[i])
  BY DEF KeepsRequests
<1>2. consents'[i] \in ConsentRecord /\ consents[i] \in ConsentRecord
  BY <1>1 DEF BaseInv, TypeOK
<1> QED
  BY <1>1, <1>2, RequestOf

\* Without an insert, a row is active after the step only if it was before.
NoNewActive ==
    \A i \in ConsentIDs : IsActive(i)' => IsActive(i)

\* The row a SavesExpired leaves.
LEMMA ExpiredRow ==
  ASSUME BaseInv, NEW i \in ConsentIDs, NEW row \in ConsentRecord, SavesExpired(i, row)
  PROVE  /\ consents'[i].status = "expired"
         /\ consents'[i].pendingExpiresAt = row.pendingExpiresAt
         /\ \A j \in ConsentIDs : j # i => consents'[j] = consents[j]
<1>1. consents'[i] = WithStatus(row, "expired")
  BY DEF SavesExpired, BaseInv, TypeOK
<1> QED
  BY <1>1, WithStatusRequest DEF SavesExpired, BaseInv, TypeOK

\* The rows an ExpiresAll leaves.
LEMMA ExpiredRows ==
  ASSUME BaseInv, NEW S \in SUBSET ConsentIDs, ExpiresAll(S)
  PROVE  /\ \A j \in S : consents'[j].status = "expired"
         /\ \A j \in ConsentIDs : j \notin S => consents'[j] = consents[j]
<1>1. \A j \in S : /\ consents[j] \in ConsentRecord
                   /\ consents'[j] = WithStatus(consents[j], "expired")
  BY RowType DEF ExpiresAll
<1> QED
  BY <1>1, WithStatusRequest DEF ExpiresAll

\* The columns a decision sets.
LEMMA DecidedFields ==
  ASSUME NEW row \in ConsentRecord, NEW a \in Actions, NEW t
  PROVE  /\ Decided(row, a, t).pendingExpiresAt = Nil
         /\ a = "approve" => /\ Decided(row, a, t).status = "approved"
                             /\ Decided(row, a, t).grantExpiresAt = t + row.duration
         /\ a = "reject" => Decided(row, a, t).status = "rejected"
         /\ a = "revoke" => Decided(row, a, t).status = "revoked"
<1> DEFINE g == t + row.duration
<1>1. CASE a = "approve"
  <2>1. Decided(row, a, t) = [row EXCEPT !.status = "approved", !.pendingExpiresAt = Nil,
                                         !.grantExpiresAt = g]
    BY <1>1 DEF Decided
  <2> HIDE DEF g
  <2>2. /\ Decided(row, a, t).pendingExpiresAt = Nil
        /\ Decided(row, a, t).status = "approved"
        /\ Decided(row, a, t).grantExpiresAt = g
    BY <2>1 DEF ConsentRecord
  <2> QED
    BY <1>1, <2>2 DEF g
<1>2. CASE a = "reject"
  BY <1>2 DEF Decided, ConsentRecord
<1>3. CASE a = "revoke"
  BY <1>3 DEF Decided, ConsentRecord
<1> QED
  BY <1>1, <1>2, <1>3 DEF Actions

\* The row a Decides leaves.
LEMMA DecidedRow ==
  ASSUME BaseInv, NEW i \in ConsentIDs, NEW a \in Actions, NEW t \in Nat, Decides(i, a, t)
  PROVE  /\ consents[i] \in ConsentRecord /\ consents[i].status = FromStatus(a)
         /\ consents'[i] = Decided(consents[i], a, t)
         /\ \A j \in ConsentIDs : j # i => consents'[j] = consents[j]
         /\ consents'[i].pendingExpiresAt = Nil
         /\ a = "approve" => /\ consents'[i].status = "approved"
                             /\ consents'[i].grantExpiresAt = t + consents[i].duration
         /\ a = "reject" => consents'[i].status = "rejected"
         /\ a = "revoke" => consents'[i].status = "revoked"
<1>1. consents[i] \in ConsentRecord
  BY RowType DEF Decides
<1>2. /\ consents'[i] = Decided(consents[i], a, t)
      /\ \A j \in ConsentIDs : j # i => consents'[j] = consents[j]
  BY DEF Decides, BaseInv, TypeOK
<1>3. consents[i].status = FromStatus(a)
  BY DEF Decides
<1> QED
  BY <1>1, <1>2, <1>3, DecidedFields

\* Without a newly active row there is still one active consent per pair.
LEMMA OneActiveKept ==
  ASSUME BaseInv, BaseInv', OneActiveConsent, KeepsRequests, NoNewActive
  PROVE  OneActiveConsent'
<1> SUFFICES ASSUME NEW i \in ConsentIDs, NEW j \in ConsentIDs, IsActive(i)', IsActive(j)',
                    SamePair(consents'[i], consents'[j].owner, consents'[j].app)
             PROVE  i = j
  BY DEF OneActiveConsent
<1>1. IsActive(i) /\ IsActive(j)
  BY DEF NoNewActive
<1>2. SamePair(consents[i], consents[j].owner, consents[j].app)
  BY <1>1, KeptParties DEF SamePair, IsActive
<1> QED
  BY <1>1, <1>2 DEF OneActiveConsent

\* The insert a unique index admitted, into the table or into the table with
\* the old record revoked.
LEMMA OneActiveInserted ==
  ASSUME BaseInv, BaseInv', OneActiveConsent, NEW row \in ConsentRecord,
         NEW table, UniqueActive(table, row),
         consents'[row.id] = row,
         \A i \in ConsentIDs : i # row.id => consents'[i] = table[i],
         \A i \in ConsentIDs : /\ table[i] # Nil => consents[i] # Nil
                               /\ table[i] # Nil /\ table[i].status \in ActiveStatus
                                    => table[i] = consents[i]
  PROVE  OneActiveConsent'
<1> SUFFICES ASSUME NEW i \in ConsentIDs, NEW j \in ConsentIDs, IsActive(i)', IsActive(j)',
                    SamePair(consents'[i], consents'[j].owner, consents'[j].app)
             PROVE  i = j
  BY DEF OneActiveConsent
<1>1. ASSUME NEW k \in ConsentIDs, IsActive(k)', k # row.id
      PROVE  /\ consents'[k] = consents[k] /\ IsActive(k)
             /\ ~SamePair(consents'[k], row.owner, row.app)
  BY <1>1 DEF IsActive, UniqueActive
<1>2. CASE i # row.id /\ j # row.id
  BY <1>1, <1>2 DEF OneActiveConsent
<1>3. CASE i = row.id /\ j # row.id
  BY <1>1, <1>3 DEF SamePair
<1>4. CASE i # row.id /\ j = row.id
  BY <1>1, <1>4
<1> QED
  BY <1>2, <1>3, <1>4

\* Every step keeps one active consent per pair.
LEMMA OneActiveStep ==
  ASSUME BaseInv, BaseInv', OneActiveConsent, TableStep
  PROVE  OneActiveConsent'
<1>1. CASE UNCHANGED <<consents, wins>>
  BY <1>1 DEF OneActiveConsent, IsActive
<1>2. ASSUME NEW i \in ConsentIDs, NEW row \in ConsentRecord, SavesExpired(i, row)
      PROVE  OneActiveConsent'
  <2>1. NoNewActive
    BY <1>2, ExpiredRow DEF NoNewActive, IsActive, ActiveStatus
  <2> QED
    BY <1>2, <2>1, SavesExpiredKeeps, OneActiveKept
<1>3. ASSUME NEW S \in SUBSET ConsentIDs, ExpiresAll(S)
      PROVE  OneActiveConsent'
  <2>1. NoNewActive
    BY <1>3, ExpiredRows DEF NoNewActive, IsActive, ActiveStatus
  <2> QED
    BY <1>3, <2>1, ExpiresAllKeeps, OneActiveKept
<1>4. ASSUME NEW row \in ConsentRecord, Inserts(row)
      PROVE  OneActiveConsent'
  <2>1. /\ consents'[row.id] = row
        /\ \A i \in ConsentIDs : i # row.id => consents'[i] = consents[i]
    BY <1>4 DEF Inserts, BaseInv, TypeOK, ConsentRecord
  <2>2. UniqueActive(consents, row)
    BY <1>4 DEF Inserts
  <2> QED
    BY <2>1, <2>2, OneActiveInserted
<1>5. ASSUME NEW old \in ConsentRecord, NEW row \in ConsentRecord, Replaces(old, row)
      PROVE  OneActiveConsent'
  <2> DEFINE table == Revoked(old)
  <2>1. old.id \in ConsentIDs /\ consents[old.id] # Nil /\ UniqueActive(table, row)
    BY <1>5 DEF Replaces, ConsentRecord
  <2>2. /\ table[old.id].status = "revoked"
        /\ \A i \in ConsentIDs : i # old.id => table[i] = consents[i]
    BY RevokedRow, WithStatusRequest
  <2>3. /\ consents'[row.id] = row
        /\ \A i \in ConsentIDs : i # row.id => consents'[i] = table[i]
    BY <1>5, <2>2, ReplacesRows, RevokedRow
  <2>4. \A i \in ConsentIDs : /\ table[i] # Nil => consents[i] # Nil
                              /\ table[i] # Nil /\ table[i].status \in ActiveStatus
                                   => table[i] = consents[i]
    BY <2>1, <2>2 DEF ActiveStatus
  <2> HIDE DEF table
  <2> QED
    BY <2>1, <2>3, <2>4, OneActiveInserted
<1>6. ASSUME NEW i \in ConsentIDs, NEW a \in Actions, NEW t \in Nat, Decides(i, a, t)
      PROVE  OneActiveConsent'
  <2>1. consents[i] # Nil
    BY <1>6 DEF Decides
  <2>2. IsActive(i)
    BY <1>6, <2>1, DecidedRow DEF FromStatus, IsActive, ActiveStatus
  <2>3. NoNewActive
    BY <1>6, <2>2, DecidedRow DEF NoNewActive, IsActive
  <2> QED
    BY <1>6, <2>3, DecidesKeeps, OneActiveKept
<1> QED
  BY <1>1, <1>2, <1>3, <1>4, <1>5, <1>6 DEF TableStep

\* ExactlyOneWins and DecisionClearsDeadline, row by row.
WinsOfRow(row, w) ==
    /\ w["approve"] + w["reject"] <= 1
    /\ w["revoke"] <= w["approve"]
    /\ row = Nil => \A a \in Actions : w[a] = 0
    /\ row # Nil =>
         /\ row.status = "pending" => \A a \in Actions : w[a] = 0
         /\ row.status = "approved" => w["approve"] = 1 /\ w["revoke"] = 0
         /\ row.status = "rejected" => w["reject"] = 1

DeadlinesOfRow(row) ==
    row # Nil =>
        /\ row.status = "pending" <=>
             row.status \in ActiveStatus /\ row.pendingExpiresAt # Nil
        /\ row.status = "approved" => row.grantExpiresAt # Nil
        /\ row.status = "rejected" => row.pendingExpiresAt = Nil

RowInv ==
    \A i \in ConsentIDs :
        WinsOfRow(consents[i], wins[i]) /\ DeadlinesOfRow(consents[i])

\* RowInv is the three invariants on rows.
LEMMA RowInvMeans ==
  RowInv <=> ExactlyOneWins /\ NoEarlyWins /\ DecisionClearsDeadline
BY DEF RowInv, WinsOfRow, DeadlinesOfRow, ExactlyOneWins, NoEarlyWins, DecisionClearsDeadline

\* A row that became expired or revoked by a Save, its wins unchanged.
LEMMA SavedRowInv ==
  ASSUME NEW i \in ConsentIDs, consents[i] # Nil, WinsOfRow(consents[i], wins[i]),
         wins' = wins, NEW row, row # Nil, row.status \in {"expired", "revoked"}
  PROVE  WinsOfRow(row, wins'[i]) /\ DeadlinesOfRow(row)
BY DEF WinsOfRow, DeadlinesOfRow, ActiveStatus

\* A record that was just built has been decided by nobody.
LEMMA NewRowInv ==
  ASSUME NEW row \in ConsentRecord, MayInsert(row), NEW w,
         WinsOfRow(Nil, w)
  PROVE  WinsOfRow(row, w) /\ DeadlinesOfRow(row)
<1>1. row.status = "pending" /\ row.pendingExpiresAt # Nil
  BY DEF MayInsert
<1> QED
  BY <1>1 DEF WinsOfRow, DeadlinesOfRow, ActiveStatus

\* A decision needs the status it starts from, so only one can win.
LEMMA DecidedRowInv ==
  ASSUME BaseInv, NEW i \in ConsentIDs, NEW a \in Actions, NEW t \in Nat, Decides(i, a, t),
         WinsOfRow(consents[i], wins[i])
  PROVE  WinsOfRow(consents'[i], wins'[i]) /\ DeadlinesOfRow(consents'[i])
<1>1. /\ consents[i] # Nil /\ consents[i].status = FromStatus(a)
      /\ consents[i] \in ConsentRecord
  BY DecidedRow DEF Decides
<1>2. consents'[i] # Nil
  BY <1>1, DecidesKeeps DEF KeepsRequests
<1>3. wins[i] \in [Actions -> Nat] /\ wins'[i] = [wins[i] EXCEPT ![a] = @ + 1]
  BY DEF Decides, BaseInv, TypeOK
<1>4. "approve" \in Actions /\ "reject" \in Actions /\ "revoke" \in Actions
  BY DEF Actions
<1>5. \A n \in Nat : n + 1 \in Nat
  OBVIOUS
<1>6. /\ wins'[i][a] = wins[i][a] + 1
      /\ \A b \in Actions : wins[i][b] \in Nat /\ wins'[i][b] \in Nat
      /\ \A b \in Actions : b # a => wins'[i][b] = wins[i][b]
  BY <1>3, <1>5
<1>7. CASE a = "approve"
  <2>1. \A b \in Actions : wins[i][b] = 0
    BY <1>1, <1>7 DEF FromStatus, WinsOfRow
  <2>2. /\ wins'[i]["approve"] = 1 /\ wins'[i]["reject"] = 0 /\ wins'[i]["revoke"] = 0
    BY <1>4, <1>6, <1>7, <2>1
  <2>3. /\ consents'[i].status = "approved" /\ consents'[i].pendingExpiresAt = Nil
        /\ consents'[i].grantExpiresAt # Nil
    <3>1. t + consents[i].duration \in Nat
      <4>1. consents[i].duration \in Nat
        BY <1>1, ConstantsAssumption DEF ConstantsAssumption, ConsentRecord
      <4>2. \A m, n \in Nat : m + n \in Nat
        OBVIOUS
      <4> QED
        BY <4>1, <4>2
    <3> QED
      BY <1>7, <3>1, DecidedRow, ConstantsAssumption DEF ConstantsAssumption
  <2> QED
    BY <1>2, <2>2, <2>3 DEF WinsOfRow, DeadlinesOfRow
<1>8. CASE a = "reject"
  <2>1. \A b \in Actions : wins[i][b] = 0
    BY <1>1, <1>8 DEF FromStatus, WinsOfRow
  <2>2. /\ wins'[i]["approve"] = 0 /\ wins'[i]["reject"] = 1 /\ wins'[i]["revoke"] = 0
    BY <1>4, <1>6, <1>8, <2>1
  <2>3. consents'[i].status = "rejected" /\ consents'[i].pendingExpiresAt = Nil
    BY <1>8, DecidedRow
  <2> QED
    BY <1>2, <2>2, <2>3 DEF WinsOfRow, DeadlinesOfRow
<1>9. CASE a = "revoke"
  <2>1. wins[i]["approve"] = 1 /\ wins[i]["revoke"] = 0
    BY <1>1, <1>9 DEF FromStatus, WinsOfRow
  <2>2. /\ wins'[i]["approve"] = 1 /\ wins'[i]["revoke"] = 1
        /\ wins'[i]["reject"] = wins[i]["reject"]
    BY <1>4, <1>6, <1>9, <2>1
  <2>3. consents'[i].status = "revoked"
    BY <1>9, DecidedRow
  <2> QED
    BY <1>2, <2>1, <2>2, <2>3 DEF WinsOfRow, DeadlinesOfRow, ActiveStatus
<1> QED
  BY <1>7, <1>8, <1>9 DEF Actions

\* Every step keeps the invariants on rows.
LEMMA RowStep ==
  ASSUME BaseInv, BaseInv', RowInv, TableStep
  PROVE  RowInv'
<1>1. CASE UNCHANGED <<consents, wins>>
  BY <1>1 DEF RowInv
<1>2. ASSUME NEW i \in ConsentIDs, NEW row \in ConsentRecord, SavesExpired(i, row)
      PROVE  RowInv'
  <2>1. /\ consents[i] # Nil /\ consents'[i] # Nil /\ wins' = wins
        /\ consents'[i].status = "expired"
        /\ \A j \in ConsentIDs : j # i => consents'[j] = consents[j]
    BY <1>2, ExpiredRow, SavesExpiredKeeps DEF SavesExpired, KeepsRequests
  <2>2. WinsOfRow(consents'[i], wins'[i]) /\ DeadlinesOfRow(consents'[i])
    BY <2>1, SavedRowInv DEF RowInv
  <2> QED
    BY <2>1, <2>2 DEF RowInv
<1>3. ASSUME NEW S \in SUBSET ConsentIDs, ExpiresAll(S)
      PROVE  RowInv'
  <2>1. /\ \A i \in S : consents[i] # Nil /\ consents'[i] # Nil
                        /\ consents'[i].status = "expired"
        /\ \A j \in ConsentIDs : j \notin S => consents'[j] = consents[j]
        /\ wins' = wins
    BY <1>3, ExpiredRows, ExpiresAllKeeps DEF ExpiresAll, KeepsRequests
  <2>2. ASSUME NEW i \in S
        PROVE  WinsOfRow(consents'[i], wins'[i]) /\ DeadlinesOfRow(consents'[i])
    BY <2>1, SavedRowInv DEF RowInv
  <2> QED
    BY <2>1, <2>2 DEF RowInv
<1>4. ASSUME NEW row \in ConsentRecord, Inserts(row)
      PROVE  RowInv'
  <2>1. /\ row.id \in ConsentIDs /\ consents[row.id] = Nil /\ MayInsert(row)
        /\ consents'[row.id] = row /\ wins' = wins
        /\ \A i \in ConsentIDs : i # row.id => consents'[i] = consents[i]
    BY <1>4 DEF Inserts, MayInsert, BaseInv, TypeOK, ConsentRecord
  <2>2. WinsOfRow(row, wins'[row.id]) /\ DeadlinesOfRow(row)
    BY <2>1, NewRowInv DEF RowInv
  <2> QED
    BY <2>1, <2>2 DEF RowInv
<1>5. ASSUME NEW old \in ConsentRecord, NEW row \in ConsentRecord, Replaces(old, row)
      PROVE  RowInv'
  <2>1. /\ row.id \in ConsentIDs /\ consents[row.id] = Nil /\ MayInsert(row)
        /\ old.id \in ConsentIDs /\ consents[old.id] # Nil /\ wins' = wins
    BY <1>5 DEF Replaces, MayInsert, ConsentRecord
  <2>2. /\ consents'[row.id] = row
        /\ consents'[old.id] # Nil /\ consents'[old.id].status = "revoked"
        /\ \A i \in ConsentIDs : i # old.id /\ i # row.id => consents'[i] = consents[i]
    BY <1>5, ReplacesRows, RevokedRow, WithStatusRequest
  <2>3. WinsOfRow(row, wins'[row.id]) /\ DeadlinesOfRow(row)
    BY <2>1, NewRowInv DEF RowInv
  <2>4. WinsOfRow(consents'[old.id], wins'[old.id]) /\ DeadlinesOfRow(consents'[old.id])
    BY <2>1, <2>2, SavedRowInv DEF RowInv
  <2> QED
    BY <2>1, <2>2, <2>3, <2>4 DEF RowInv
<1>6. ASSUME NEW i \in ConsentIDs, NEW a \in Actions, NEW t \in Nat, Decides(i, a, t)
      PROVE  RowInv'
  <2>1. \A j \in ConsentIDs : j # i => consents'[j] = consents[j] /\ wins'[j] = wins[j]
    BY <1>6, DecidedRow DEF Decides, BaseInv, TypeOK
  <2>2. WinsOfRow(consents'[i], wins'[i]) /\ DeadlinesOfRow(consents'[i])
    BY <1>6, DecidedRowInv DEF RowInv
  <2> QED
    BY <2>1, <2>2 DEF RowInv
<1> QED
  BY <1>1, <1>2, <1>3, <1>4, <1>5, <1>6 DEF TableStep

\* The invariant holds of an empty table.
LEMMA InitInv == Init => Inv
<1> SUFFICES ASSUME Init PROVE Inv
  OBVIOUS
<1>1. BaseInv
  BY InitBase
<1>2. /\ \A i \in ConsentIDs : consents[i] = Nil /\ \A a \in Actions : wins[i][a] = 0
      /\ \A r \in Requests : draft[r] = Nil /\ copy[r] = Nil /\ pc[r] = "idle"
  BY DEF Init
<1>3. DraftsOK /\ CopiesOK
  BY <1>2 DEF DraftsOK, CopiesOK
<1>4. OneActiveConsent
  BY <1>2 DEF OneActiveConsent, IsActive
<1>5. "approve" \in Actions /\ "reject" \in Actions /\ "revoke" \in Actions
  BY DEF Actions
<1>6. RowInv
  BY <1>2, <1>5 DEF RowInv, WinsOfRow, DeadlinesOfRow
<1> QED
  BY <1>1, <1>3, <1>4, <1>6, RowInvMeans DEF Inv

\* The invariant is inductive, and every step is a step of the table.
LEMMA InvStep == Inv /\ [Next]_vars => Inv' /\ TableStep
<1> SUFFICES ASSUME Inv, [Next]_vars PROVE Inv' /\ TableStep
  OBVIOUS
<1>1. BaseInv'
  BY BaseStep DEF Inv
<1>2. TableStep /\ DraftsOK' /\ CopiesOK'
  BY StepEffect DEF Inv, MemInv, Effect
<1>3. OneActiveConsent'
  BY <1>1, <1>2, OneActiveStep DEF Inv
<1>4. RowInv
  BY RowInvMeans DEF Inv
<1>5. RowInv'
  BY <1>1, <1>2, <1>4, RowStep DEF Inv
<1>6. ExactlyOneWins' /\ NoEarlyWins' /\ DecisionClearsDeadline'
  BY <1>5 DEF RowInv, WinsOfRow, DeadlinesOfRow, ExactlyOneWins, NoEarlyWins,
              DecisionClearsDeadline
<1> QED
  BY <1>1, <1>2, <1>3, <1>6 DEF Inv

\* The invariant holds in every behaviour.
LEMMA Invariance == Spec => []Inv
BY InitInv, InvStep, PTL DEF Spec

\* At most one pending or approved consent per owner and application: what
\* idx_consent_active_unique and revokeAndCreateConsent are there for.
THEOREM OneActive == Spec => []OneActiveConsent
<1>1. Inv => OneActiveConsent
  BY DEF Inv
<1> QED
  BY <1>1, Invariance, PTL

\* Racing portal actions: the conditional UPDATE lets exactly one decide.
THEOREM OneWinner == Spec => []ExactlyOneWins
<1>1. Inv => ExactlyOneWins
  BY DEF Inv
<1> QED
  BY <1>1, Invariance, PTL

\* Pending consents carry a pending deadline, grants a grant deadline, and a
\* stale Save never brings back the deadline a decision cleared.
THEOREM DeadlinesMatchStatus == Spec => []DecisionClearsDeadline
<1>1. Inv => DecisionClearsDeadline
  BY DEF Inv
<1> QED
  BY <1>1, Invariance, PTL

-----------------------------------------------------------------------------
(***************************************************************************)
(* What no step does.                                                      *)
(***************************************************************************)
LEMMA TableKeeps ==
  ASSUME BaseInv, TableStep
  PROVE  KeepsRequests
BY SameKeeps, SavesExpiredKeeps, ExpiresAllKeeps, InsertsKeeps, ReplacesKeeps, DecidesKeeps
   DEF TableStep

\* Neither a Save of a stale copy nor anything else rewrites what an owner was
\* asked for or deletes a consent.
THEOREM RequestsKept == Spec => RequestIsImmutable
<1>1. Inv /\ [Next]_vars =>
        [\A i \in ConsentIDs : consents[i] # Nil =>
            consents'[i] # Nil /\ Request(consents'[i]) = Request(consents[i])]_vars
  BY InvStep, TableKeeps DEF Inv, KeepsRequests
<1> QED
  BY <1>1, Invariance, PTL DEF Spec, RequestIsImmutable

Reactivates(i) ==
    \/ consents'[i].status = "pending" /\ consents[i].status # "pending"
    \/ consents'[i].status = "approved" /\ consents[i].status \notin ActiveStatus

\* No step of the table makes a terminal consent active.
LEMMA TableNeverReactivates ==
  ASSUME BaseInv, TableStep, NEW k \in ConsentIDs, consents[k] # Nil
  PROVE  ~Reactivates(k)
<1>1. CASE consents'[k] = consents[k]
  BY <1>1 DEF Reactivates, ActiveStatus
<1>2. CASE consents'[k].status \in {"expired", "revoked", "rejected"}
  BY <1>2 DEF Reactivates
<1>3. ASSUME NEW i \in ConsentIDs, NEW row \in ConsentRecord, SavesExpired(i, row)
      PROVE  ~Reactivates(k)
  BY <1>1, <1>2, <1>3, ExpiredRow
<1>4. ASSUME NEW S \in SUBSET ConsentIDs, ExpiresAll(S)
      PROVE  ~Reactivates(k)
  BY <1>1, <1>2, <1>4, ExpiredRows
<1>5. ASSUME NEW row \in ConsentRecord, Inserts(row)
      PROVE  ~Reactivates(k)
  <2>1. consents[row.id] = Nil
    BY <1>5 DEF Inserts, MayInsert
  <2>2. \A i \in ConsentIDs : i # row.id => consents'[i] = consents[i]
    BY <1>5 DEF Inserts, BaseInv, TypeOK
  <2> QED
    BY <1>1, <2>1, <2>2
<1>6. ASSUME NEW old \in ConsentRecord, NEW row \in ConsentRecord, Replaces(old, row)
      PROVE  ~Reactivates(k)
  <2>1. consents[row.id] = Nil
    BY <1>6 DEF Replaces, MayInsert
  <2>2. consents'[old.id].status = "revoked"
    BY <1>6, ReplacesRows, WithStatusRequest
  <2> QED
    BY <1>1, <1>2, <1>6, <2>1, <2>2, ReplacesRows
<1>7. ASSUME NEW i \in ConsentIDs, NEW a \in Actions, NEW t \in Nat, Decides(i, a, t)
      PROVE  ~Reactivates(k)
  <2>1. CASE a = "approve" /\ k = i
    BY <1>7, <2>1, DecidedRow DEF FromStatus, ActiveStatus, Reactivates
  <2>2. CASE a # "approve" \/ k # i
    BY <1>1, <1>2, <1>7, <2>2, DecidedRow DEF Actions
  <2> QED
    BY <2>1, <2>2
<1> QED
  BY <1>1, <1>3, <1>4, <1>5, <1>6, <1>7 DEF TableStep

\* What left "pending" never returns to it, and "approved" is entered from
\* "pending" only, whatever stale copies are written back.
THEOREM NeverReactivated == Spec => NoReactivation
<1>1. Inv /\ [Next]_vars =>
        [\A i \in ConsentIDs : consents[i] # Nil =>
          /\ consents'[i].status = "pending" => consents[i].status = "pending"
          /\ consents'[i].status = "approved" => consents[i].status \in ActiveStatus]_vars
  BY InvStep, TableNeverReactivates DEF Inv, Reactivates
<1> QED
  BY <1>1, Invariance, PTL DEF Spec, NoReactivation

----------------------------------------------------------------------------
(***************************************************************************)
(* The engine implements ConsentLifecycle: each kind of step of the table  *)
(* is a step of the ledger.                                                *)
(***************************************************************************)

\* The ledger's view of a row.
LEMMA LedgerOf ==
  ASSUME BaseInv, NEW i \in ConsentIDs
  PROVE  /\ consents[i] = Nil => LedgerStatus[i] = "none" /\ LedgerParty[i] = Nil
         /\ consents[i] # Nil =>
              /\ LedgerStatus[i] = consents[i].status
              /\ LedgerParty[i] = <<consents[i].owner, consents[i].app>>
              /\ LedgerStatus[i] # "none"
              /\ LedgerStatus[i] \in Lifecycle!Active \cup Lifecycle!Terminal
         /\ LedgerStatus[i] \in Lifecycle!Active <=> IsActive(i)
<1>1. CASE consents[i] = Nil
  BY <1>1 DEF LedgerStatus, LedgerParty, Lifecycle!Active, IsActive
<1>2. CASE consents[i] # Nil
  <2>1. consents[i].status \in Status
    BY <1>2, RowType DEF ConsentRecord
  <2> QED
    BY <1>2, <2>1 DEF LedgerStatus, LedgerParty, Lifecycle!Active, Lifecycle!Terminal,
                      Status, ActiveStatus, TerminalStatus, IsActive
<1> QED
  BY <1>1, <1>2

\* The same view after a step.
LEMMA LedgerOfPrimed ==
  ASSUME BaseInv', NEW i \in ConsentIDs
  PROVE  /\ consents'[i] = Nil => LedgerStatus'[i] = "none" /\ LedgerParty'[i] = Nil
         /\ consents'[i] # Nil =>
              /\ LedgerStatus'[i] = consents'[i].status
              /\ LedgerParty'[i] = <<consents'[i].owner, consents'[i].app>>
BY DEF LedgerStatus, LedgerParty

\* The parties change only with a new row.
LEMMA LedgerSameParties ==
  ASSUME BaseInv, BaseInv', KeepsRequests, AddsNothing
  PROVE  LedgerParty' = LedgerParty
<1>1. ASSUME NEW i \in ConsentIDs PROVE LedgerParty'[i] = LedgerParty[i]
  <2>1. CASE consents[i] = Nil
    BY <2>1, LedgerOf, LedgerOfPrimed DEF AddsNothing
  <2>2. CASE consents[i] # Nil
    BY <2>2, KeptParties, LedgerOf, LedgerOfPrimed
  <2> QED
    BY <2>1, <2>2
<1> QED
  BY <1>1 DEF LedgerParty

\* Rows that became expired, seen in the ledger.
LEMMA LedgerExpire ==
  ASSUME BaseInv, BaseInv', NEW S \in SUBSET ConsentIDs, LedgerParty' = LedgerParty,
         \A i \in S : consents'[i] # Nil /\ consents'[i].status = "expired",
         \A i \in ConsentIDs : i \notin S => consents'[i] = consents[i]
  PROVE  LedgerStatus' = [i \in ConsentIDs |-> IF i \in S THEN "expired" ELSE LedgerStatus[i]]
<1>1. ASSUME NEW i \in ConsentIDs
      PROVE  LedgerStatus'[i] = IF i \in S THEN "expired" ELSE LedgerStatus[i]
  <2>1. CASE i \in S
    BY <2>1, LedgerOfPrimed
  <2>2. CASE i \notin S
    BY <2>2 DEF LedgerStatus
  <2> QED
    BY <2>1, <2>2
<1> QED
  BY <1>1 DEF LedgerStatus

\* One row changes and is of the same parties.
LEMMA LedgerMove ==
  ASSUME BaseInv, BaseInv', NEW i \in ConsentIDs, NEW to,
         consents'[i] # Nil, consents'[i].status = to,
         \A j \in ConsentIDs : j # i => consents'[j] = consents[j]
  PROVE  LedgerStatus' = [LedgerStatus EXCEPT ![i] = to]
<1>1. ASSUME NEW j \in ConsentIDs
      PROVE  LedgerStatus'[j] = [LedgerStatus EXCEPT ![i] = to][j]
  <2>1. CASE j = i
    BY <2>1, LedgerOfPrimed DEF LedgerStatus
  <2>2. CASE j # i
    BY <2>2 DEF LedgerStatus
  <2> QED
    BY <2>1, <2>2
<1> QED
  BY <1>1 DEF LedgerStatus

\* Admitted by the unique index means: the parties are free in the ledger.
LEMMA AdmittedIsFree ==
  ASSUME BaseInv, NEW row \in ConsentRecord, NEW table, NEW except \in SUBSET ConsentIDs,
         UniqueActive(table, row),
         \A i \in ConsentIDs \ except : table[i] = consents[i]
  PROVE  Lifecycle!Free(<<row.owner, row.app>>, except)
<1> SUFFICES ASSUME NEW i \in ConsentIDs \ except, LedgerStatus[i] \in Lifecycle!Active
             PROVE  LedgerParty[i] # <<row.owner, row.app>>
  BY DEF Lifecycle!Free
<1>1. IsActive(i) /\ LedgerParty[i] = <<consents[i].owner, consents[i].app>>
  BY LedgerOf DEF IsActive
<1>2. ~SamePair(consents[i], row.owner, row.app)
  BY <1>1 DEF UniqueActive, IsActive
<1> QED
  BY <1>1, <1>2 DEF SamePair

\* A Save as expired lapses an active consent or relabels a terminal one.
LEMMA SavesExpiredIsLedgerStep ==
  ASSUME BaseInv, BaseInv', NEW i \in ConsentIDs, NEW row \in ConsentRecord,
         SavesExpired(i, row)
  PROVE  Lifecycle!Next
<1>1. LedgerParty' = LedgerParty
  BY SavesExpiredKeeps, LedgerSameParties
<1>2. /\ consents[i] # Nil /\ consents'[i] # Nil /\ consents'[i].status = "expired"
      /\ \A j \in ConsentIDs : j # i => consents'[j] = consents[j]
  BY SavesExpiredKeeps, ExpiredRow DEF SavesExpired, KeepsRequests
<1>3. CASE IsActive(i)
  <2> DEFINE S == {i}
  <2>1. S \in SUBSET ConsentIDs /\ S # {} /\ \A j : j \in S <=> j = i
    OBVIOUS
  <2>2. \A j \in S : LedgerStatus[j] \in Lifecycle!Active
    BY <1>3, LedgerOf
  <2> HIDE DEF S
  <2>3. LedgerStatus' = [j \in ConsentIDs |-> IF j \in S THEN "expired" ELSE LedgerStatus[j]]
    BY <1>1, <1>2, <2>1, LedgerExpire
  <2>4. Lifecycle!Lapse(S)
    BY <1>1, <2>1, <2>2, <2>3 DEF Lifecycle!Lapse
  <2> QED
    BY <2>1, <2>4 DEF Lifecycle!Next
<1>4. CASE ~IsActive(i)
  <2>1. LedgerStatus[i] \in Lifecycle!Terminal
    BY <1>2, <1>4, LedgerOf
  <2>2. LedgerStatus' = [LedgerStatus EXCEPT ![i] = "expired"]
    BY <1>2, LedgerMove
  <2>3. Lifecycle!Relabel(i)
    BY <1>1, <2>1, <2>2 DEF Lifecycle!Relabel
  <2> QED
    BY <2>3 DEF Lifecycle!Next
<1> QED
  BY <1>3, <1>4

\* The expiry of a list lapses its consents together.
LEMMA ExpiresAllIsLedgerStep ==
  ASSUME BaseInv, BaseInv', NEW S \in SUBSET ConsentIDs, ExpiresAll(S)
  PROVE  Lifecycle!Next
<1>1. LedgerParty' = LedgerParty
  BY ExpiresAllKeeps, LedgerSameParties
<1>2. /\ \A i \in S : consents'[i] # Nil /\ consents'[i].status = "expired"
      /\ \A i \in ConsentIDs : i \notin S => consents'[i] = consents[i]
  BY ExpiresAllKeeps, ExpiredRows DEF ExpiresAll, KeepsRequests
<1>3. \A i \in S : LedgerStatus[i] \in Lifecycle!Active
  BY LedgerOf DEF ExpiresAll, IsActive
<1>4. LedgerStatus' = [i \in ConsentIDs |-> IF i \in S THEN "expired" ELSE LedgerStatus[i]]
  BY <1>1, <1>2, LedgerExpire
<1>5. Lifecycle!Lapse(S)
  BY <1>1, <1>3, <1>4 DEF ExpiresAll, Lifecycle!Lapse
<1> QED
  BY <1>5 DEF Lifecycle!Next

\* An admitted insert opens a consent.
LEMMA InsertsIsLedgerStep ==
  ASSUME BaseInv, BaseInv', NEW row \in ConsentRecord, Inserts(row)
  PROVE  Lifecycle!Next
<1> DEFINE p == <<row.owner, row.app>>
<1>1. /\ row.id \in ConsentIDs /\ consents[row.id] = Nil /\ row.status = "pending"
      /\ consents'[row.id] = row
      /\ \A i \in ConsentIDs : i # row.id => consents'[i] = consents[i]
  BY DEF Inserts, MayInsert, BaseInv, TypeOK, ConsentRecord
<1>2. consents'[row.id] # Nil /\ p \in Owners \X Apps
  BY <1>1, ConstantsAssumption DEF ConstantsAssumption, ConsentRecord
<1>3. LedgerStatus[row.id] = "none"
  BY <1>1, LedgerOf
<1>4. LedgerStatus' = [LedgerStatus EXCEPT ![row.id] = "pending"]
  BY <1>1, <1>2, LedgerMove
<1>5. LedgerParty' = [LedgerParty EXCEPT ![row.id] = p]
  <2>1. ASSUME NEW i \in ConsentIDs
        PROVE  LedgerParty'[i] = [LedgerParty EXCEPT ![row.id] = p][i]
    BY <1>1, <1>2 DEF LedgerParty
  <2> QED
    BY <2>1 DEF LedgerParty
<1>6. Lifecycle!Free(p, {})
  BY AdmittedIsFree DEF Inserts
<1>7. Lifecycle!Open(row.id, p)
  BY <1>3, <1>4, <1>5, <1>6 DEF Lifecycle!Open
<1> HIDE DEF p
<1> QED
  BY <1>1, <1>2, <1>7 DEF Lifecycle!Next

\* revokeAndCreateConsent replaces a consent in one step.
LEMMA ReplacesIsLedgerStep ==
  ASSUME BaseInv, BaseInv', NEW old \in ConsentRecord, NEW row \in ConsentRecord,
         Replaces(old, row)
  PROVE  Lifecycle!Next
<1>1. /\ row.id \in ConsentIDs /\ consents[row.id] = Nil /\ row.status = "pending"
      /\ old.id \in ConsentIDs /\ consents[old.id] # Nil
      /\ Request(old) = Request(consents[old.id])
      /\ row.owner = old.owner /\ row.app = old.app
  BY DEF Replaces, MayInsert, ConsentRecord, SamePair
<1>2. /\ old.id # row.id
      /\ consents'[row.id] = row /\ consents'[row.id] # Nil
      /\ consents'[old.id] # Nil /\ consents'[old.id].status = "revoked"
      /\ \A i \in ConsentIDs : i # old.id /\ i # row.id => consents'[i] = consents[i]
  BY ReplacesRows, RevokedRow, WithStatusRequest, ConstantsAssumption
     DEF ConstantsAssumption
<1>3. LedgerParty[old.id] = <<row.owner, row.app>>
  BY <1>1, RowType, RequestOf, LedgerOf
<1>4. LedgerStatus[old.id] # "none" /\ LedgerStatus[row.id] = "none"
  BY <1>1, LedgerOf
<1>5. LedgerStatus' = [LedgerStatus EXCEPT ![old.id] = "revoked", ![row.id] = "pending"]
  <2>1. ASSUME NEW i \in ConsentIDs
        PROVE  LedgerStatus'[i]
                 = [LedgerStatus EXCEPT ![old.id] = "revoked", ![row.id] = "pending"][i]
    BY <1>1, <1>2 DEF LedgerStatus
  <2> QED
    BY <2>1 DEF LedgerStatus
<1>6. LedgerParty' = [LedgerParty EXCEPT ![row.id] = LedgerParty[old.id]]
  <2>1. KeepsRequests
    BY ReplacesKeeps
  <2>2. LedgerParty'[old.id] = LedgerParty[old.id]
    BY <1>1, <2>1, KeptParties, LedgerOf, LedgerOfPrimed
  <2>3. LedgerParty'[row.id] = LedgerParty[old.id]
    BY <1>1, <1>2, <1>3, LedgerOfPrimed
  <2>4. ASSUME NEW i \in ConsentIDs
        PROVE  LedgerParty'[i] = [LedgerParty EXCEPT ![row.id] = LedgerParty[old.id]][i]
    BY <1>2, <2>2, <2>3 DEF LedgerParty
  <2> QED
    BY <2>4 DEF LedgerParty
<1>7. Lifecycle!Free(LedgerParty[old.id], {old.id})
  <2>1. UniqueActive(Revoked(old), row)
    BY DEF Replaces
  <2>2. \A i \in ConsentIDs \ {old.id} : Revoked(old)[i] = consents[i]
    BY RevokedRow
  <2> QED
    BY <1>1, <1>3, <2>1, <2>2, AdmittedIsFree
<1>8. Lifecycle!Replace(old.id, row.id)
  BY <1>4, <1>5, <1>6, <1>7 DEF Lifecycle!Replace
<1> QED
  BY <1>1, <1>8 DEF Lifecycle!Next

\* A decision that won approves, rejects or withdraws.
LEMMA DecidesIsLedgerStep ==
  ASSUME BaseInv, BaseInv', NEW i \in ConsentIDs, NEW a \in Actions, NEW t \in Nat,
         Decides(i, a, t)
  PROVE  Lifecycle!Next
<1>1. LedgerParty' = LedgerParty
  BY DecidesKeeps, LedgerSameParties
<1>2. /\ consents[i] # Nil /\ consents'[i] # Nil
      /\ \A j \in ConsentIDs : j # i => consents'[j] = consents[j]
  BY DecidesKeeps, DecidedRow DEF Decides, KeepsRequests
<1>3. LedgerStatus[i] = FromStatus(a)
  BY <1>2, LedgerOf, DecidedRow
<1>4. LedgerStatus' = [LedgerStatus EXCEPT ![i] = consents'[i].status]
  BY <1>2, LedgerMove
<1>5. CASE a = "approve"
  <2>1. Lifecycle!Approve(i)
    BY <1>1, <1>3, <1>4, <1>5, DecidedRow
       DEF FromStatus, Lifecycle!Approve, Lifecycle!Move
  <2> QED
    BY <2>1 DEF Lifecycle!Next
<1>6. CASE a = "reject"
  <2>1. Lifecycle!Reject(i)
    BY <1>1, <1>3, <1>4, <1>6, DecidedRow
       DEF FromStatus, Lifecycle!Reject, Lifecycle!Move
  <2> QED
    BY <2>1 DEF Lifecycle!Next
<1>7. CASE a = "revoke"
  <2>1. Lifecycle!Withdraw(i)
    BY <1>1, <1>3, <1>4, <1>7, DecidedRow
       DEF FromStatus, Lifecycle!Withdraw, Lifecycle!Move
  <2> QED
    BY <2>1 DEF Lifecycle!Next
<1> QED
  BY <1>5, <1>6, <1>7 DEF Actions

\* Every statement of every request is a step of the ledger or changes nothing
\* it shows.
THEOREM Refinement == Spec => ImplementsLifecycle
<1>1. Init => Lifecycle!Init
  BY DEF Init, Lifecycle!Init, LedgerStatus, LedgerParty
<1>2. Inv /\ Inv' /\ [Next]_vars => [Lifecycle!Next]_(Lifecycle!vars)
  <2> SUFFICES ASSUME Inv, Inv', [Next]_vars
               PROVE  Lifecycle!Next \/ Lifecycle!vars' = Lifecycle!vars
    OBVIOUS
  <2>1. BaseInv /\ BaseInv' /\ TableStep
    BY InvStep DEF Inv
  <2>2. CASE UNCHANGED <<consents, wins>>
    BY <2>2 DEF Lifecycle!vars, LedgerStatus, LedgerParty
  <2> QED
    BY <2>1, <2>2, SavesExpiredIsLedgerStep, ExpiresAllIsLedgerStep, InsertsIsLedgerStep,
       ReplacesIsLedgerStep, DecidesIsLedgerStep DEF TableStep
<1> QED
  BY <1>1, <1>2, Invariance, PTL DEF Spec, ImplementsLifecycle, Lifecycle!Spec

-----------------------------------------------------------------------------
(***************************************************************************)
(* What the expiry writes, the portal's decisions and POST's answers rely  *)
(* on: how far a copy read earlier still says something about its row.     *)
(***************************************************************************)

\* A copy that shows an active status has the deadline of that status, a copy
\* of a grant shows a consent whose approval won, and while the row still has
\* the status of the copy it is the row that was read.
Follows(row) ==
    /\ row.status = "pending" => row.pendingExpiresAt # Nil
    /\ row.status = "approved" => row.grantExpiresAt # Nil /\ wins[row.id]["approve"] = 1
    /\ row.status \in ActiveStatus /\ consents[row.id].status = row.status
         => row = consents[row.id]

\* A portal request works on a consent of its caller, and one that had to read
\* the row again found it decided or closed.
History ==
    \A r \in Requests :
        /\ copy[r] # Nil => Follows(copy[r])
        /\ pc[r] \in {"insert", "commit"} => call[r] = Nil
        /\ pc[r] \in {"portal", "reload", "reloaded"} => copy[r].owner = call[r].caller
        /\ pc[r] \in {"reload", "reloaded"} => consents[copy[r].id].status # "pending"

IInv == Inv /\ History

\* A row read now follows itself.
LEMMA RowFollows ==
  ASSUME Inv, NEW i \in ConsentIDs, consents[i] # Nil
  PROVE  Follows(consents[i])
<1>1. consents[i].id = i
  BY RowType DEF Inv
<1>2. /\ consents[i].status = "pending" => consents[i].pendingExpiresAt # Nil
      /\ consents[i].status = "approved" => consents[i].grantExpiresAt # Nil
  BY DEF Inv, DecisionClearsDeadline
<1>3. consents[i].status = "approved" => wins[i]["approve"] = 1
  BY DEF Inv, ExactlyOneWins
<1> QED
  BY <1>1, <1>2, <1>3 DEF Follows

\* What a step of the table does to a row: nothing, an end, or an approval.
RowMoves(i) ==
    \/ consents'[i] = consents[i]
    \/ consents'[i].status \in TerminalStatus
    \/ consents[i].status = "pending" /\ consents'[i].status = "approved"

\* Every step of the table moves every row that exists this way and takes no
\* decision back.
LEMMA TableMoves ==
  ASSUME BaseInv, TableStep, NEW k \in ConsentIDs, consents[k] # Nil
  PROVE  /\ RowMoves(k)
         /\ wins'[k]["approve"] >= wins[k]["approve"]
<1> DEFINE Goal == RowMoves(k) /\ wins'[k]["approve"] >= wins[k]["approve"]
<1>1. wins[k]["approve"] \in Nat /\ "approve" \in Actions
  BY DEF BaseInv, TypeOK, Actions
<1>2. ASSUME wins' = wins, \/ consents'[k] = consents[k]
                           \/ consents'[k].status \in {"expired", "revoked"}
      PROVE  Goal
  BY <1>1, <1>2 DEF RowMoves, TerminalStatus
<1>3. ASSUME UNCHANGED <<consents, wins>>
      PROVE  Goal
  BY <1>2, <1>3
<1>4. ASSUME NEW i \in ConsentIDs, NEW row \in ConsentRecord, SavesExpired(i, row)
      PROVE  Goal
  BY <1>2, <1>4, ExpiredRow DEF SavesExpired
<1>5. ASSUME NEW S \in SUBSET ConsentIDs, ExpiresAll(S)
      PROVE  Goal
  BY <1>2, <1>5, ExpiredRows DEF ExpiresAll
<1>6. ASSUME NEW row \in ConsentRecord, Inserts(row)
      PROVE  Goal
  <2>1. k # row.id /\ wins' = wins
    BY <1>6 DEF Inserts, MayInsert
  <2>2. consents'[k] = consents[k]
    BY <1>6, <2>1 DEF Inserts, BaseInv, TypeOK
  <2> QED
    BY <1>2, <2>1, <2>2
<1>7. ASSUME NEW old \in ConsentRecord, NEW row \in ConsentRecord, Replaces(old, row)
      PROVE  Goal
  <2>1. k # row.id /\ wins' = wins
    BY <1>7 DEF Replaces, MayInsert
  <2>2. consents'[old.id].status = "revoked"
    BY <1>7, ReplacesRows, WithStatusRequest
  <2>3. k # old.id => consents'[k] = consents[k]
    BY <1>7, <2>1, ReplacesRows
  <2> QED
    BY <1>2, <2>1, <2>2, <2>3
<1>8. ASSUME NEW i \in ConsentIDs, NEW a \in Actions, NEW t \in Nat, Decides(i, a, t)
      PROVE  Goal
  <2>1. wins' = [wins EXCEPT ![i][a] = @ + 1]
    BY <1>8 DEF Decides
  <2>2. wins'[k]["approve"] \in {wins[k]["approve"], wins[k]["approve"] + 1}
    BY <1>1, <2>1 DEF BaseInv, TypeOK
  <2>3. wins'[k]["approve"] >= wins[k]["approve"]
    BY <1>1, <2>2
  <2>4. RowMoves(k)
    <3>1. CASE k # i
      BY <1>8, <3>1, DecidedRow DEF RowMoves
    <3>2. CASE k = i /\ a = "approve"
      BY <1>8, <3>2, DecidedRow DEF FromStatus, RowMoves
    <3>3. CASE k = i /\ a # "approve"
      BY <1>8, <3>3, DecidedRow DEF Actions, RowMoves, TerminalStatus
    <3> QED
      BY <3>1, <3>2, <3>3
  <2> QED
    BY <2>3, <2>4
<1> HIDE DEF Goal
<1>9. Goal
  BY <1>3, <1>4, <1>5, <1>6, <1>7, <1>8 DEF TableStep
<1> QED
  BY <1>9 DEF Goal

\* A copy that followed its row follows it after every step.
LEMMA FollowsKept ==
  ASSUME Inv, Inv', TableStep, NEW row \in ConsentRecord, consents[row.id] # Nil, Follows(row)
  PROVE  /\ row.status = "pending" => row.pendingExpiresAt # Nil
         /\ row.status = "approved" => row.grantExpiresAt # Nil /\ wins'[row.id]["approve"] = 1
         /\ row.status \in ActiveStatus /\ consents'[row.id].status = row.status
              => row = consents'[row.id]
<1> DEFINE i == row.id
<1>1. i \in ConsentIDs
  BY DEF ConsentRecord
<1>2. RowMoves(i) /\ wins'[i]["approve"] >= wins[i]["approve"]
  BY <1>1, TableMoves DEF Inv
<1>3. /\ wins'[i]["approve"] + wins'[i]["reject"] <= 1
      /\ wins'[i]["approve"] \in Nat /\ wins'[i]["reject"] \in Nat
  BY <1>1 DEF Inv, ExactlyOneWins, BaseInv, TypeOK, Actions
<1>4. wins[i]["approve"] = 1 => wins'[i]["approve"] = 1
  BY <1>2, <1>3
<1>5. consents[i].status = "pending" => wins[i]["approve"] = 0
  BY <1>1 DEF Inv, ExactlyOneWins, Actions
<1>6. ASSUME row.status \in ActiveStatus, consents'[i].status = row.status
      PROVE  consents'[i] = consents[i]
  <2>1. consents'[i].status \notin TerminalStatus
    BY <1>6 DEF ActiveStatus, TerminalStatus
  <2>2. ~(consents[i].status = "pending" /\ consents'[i].status = "approved")
    BY <1>5, <1>6 DEF Follows
  <2> QED
    BY <1>2, <2>1, <2>2 DEF RowMoves
<1>7. /\ row.status = "pending" => row.pendingExpiresAt # Nil
      /\ row.status = "approved" => row.grantExpiresAt # Nil /\ wins[i]["approve"] = 1
      /\ row.status \in ActiveStatus /\ consents[i].status = row.status => row = consents[i]
  BY DEF Follows
<1> QED
  BY <1>4, <1>6, <1>7

(***************************************************************************)
(* What a step does to the memory of a request.                            *)
(***************************************************************************)
KeepsPlace(q) == pc'[q] = pc[q] /\ call'[q] = call[q] /\ copy'[q] = copy[q]

Reads(q, i) ==
    /\ i \in ConsentIDs /\ consents[i] # Nil
    /\ copy'[q] = consents[i] /\ UNCHANGED <<consents, wins>>

\* It stays where it is, forgets its copy, reads a row, or goes on with the
\* copy: to the transaction, or to the portal's second query.
Turns(q) ==
    \/ KeepsPlace(q)
    \/ copy'[q] = Nil /\ pc'[q] \in {"idle", "build"}
    \/ copy'[q] \in {Nil, copy[q]} /\ pc'[q] \in {"insert", "commit"} /\ call'[q] = Nil
    \/ copy'[q] = copy[q] /\ pc'[q] = "replace"
    \/ pc'[q] \in {"loaded", "revoke"} /\ \E i \in ConsentIDs : Reads(q, i)
    \/ pc'[q] = "portal" /\ \E i \in ConsentIDs : Reads(q, i) /\ consents[i].owner = call'[q].caller
    \/ /\ pc[q] = "portal" /\ pc'[q] = "reload"
       /\ copy'[q] = copy[q] /\ call'[q] = call[q] /\ UNCHANGED <<consents, wins>>
       /\ copy[q].status \in ActiveStatus
       /\ consents[copy[q].id].status # copy[q].status
    \/ /\ pc[q] = "reload" /\ pc'[q] = "reloaded"
       /\ call'[q] = call[q] /\ Reads(q, copy[q].id)

\* The request that takes the step, and the others.
LEMMA AnswerTurns ==
  ASSUME BaseInv, NEW r \in Requests, NEW a, Answer(r, a), NEW q \in Requests
  PROVE  Turns(q)
<1>1. /\ q # r => KeepsPlace(q)
      /\ q = r => copy'[q] = Nil /\ pc'[q] = "idle"
  BY DEF Answer, BaseInv, TypeOK, KeepsPlace
<1> QED
  BY <1>1 DEF Turns

\* It goes on with another row in hand.
LEMMA GotoTurns ==
  ASSUME BaseInv, NEW r \in Requests, NEW s, NEW row, Goto(r, s, row), NEW q \in Requests
  PROVE  /\ q # r => KeepsPlace(q)
         /\ q = r => pc'[q] = s /\ copy'[q] = row /\ call'[q] = call[q]
BY DEF Goto, BaseInv, TypeOK, KeepsPlace

\* It loads a row, or finds none.
LEMMA LoadTurns ==
  ASSUME BaseInv, NEW r \in Requests, NEW c, NEW row, NEW s, Load(r, c, row, s),
         NEW q \in Requests
  PROVE  /\ q # r => KeepsPlace(q)
         /\ q = r => pc'[q] = s /\ copy'[q] = row /\ call'[q] = c
BY DEF Load, BaseInv, TypeOK, KeepsPlace

\* It builds a record.
LEMMA BuildTurns ==
  ASSUME BaseInv, NEW r \in Requests, NEW s \in {"insert", "commit"}, Build(r, s),
         NEW q \in Requests
  PROVE  Turns(q)
<1>1. /\ q # r => KeepsPlace(q)
      /\ q = r => pc'[q] = s /\ copy'[q] = copy[q] /\ call'[q] = Nil
  BY DEF Build, BaseInv, TypeOK, KeepsPlace
<1> QED
  BY <1>1 DEF Turns

\* A request that arrives.
LEMMA ArriveTurns ==
  ASSUME BaseInv, NEW r \in Requests, Arrive(r), NEW q \in Requests
  PROVE  Turns(q)
<1>1. UNCHANGED <<consents, wins>>
  BY DEF Arrive, GetConsent, CreateConsent, PortalRequest
<1>2. ASSUME NEW a, AnswerAtOnce(r, a)
      PROVE  Turns(q)
  BY <1>2 DEF AnswerAtOnce, Turns, KeepsPlace
<1>3. ASSUME NEW o \in Owners, NEW a \in Apps, GetConsent(r, o, a)
      PROVE  Turns(q)
  <2>1. CASE AnswerAtOnce(r, "not_found")
    BY <1>2, <2>1
  <2>2. ASSUME NEW i \in RowsOf(o, a), NEW c, Load(r, c, consents[i], "loaded")
        PROVE  Turns(q)
    <3>1. i \in ConsentIDs /\ consents[i] # Nil
      BY DEF RowsOf
    <3> QED
      BY <1>1, <2>2, <3>1, LoadTurns DEF Turns, Reads
  <2> QED
    BY <1>3, <2>1, <2>2 DEF GetConsent
<1>4. ASSUME NEW c \in CreateCall, CreateConsent(r, c)
      PROVE  Turns(q)
  <2>1. CASE Load(r, c, Nil, "build")
    BY <2>1, LoadTurns DEF Turns
  <2>2. ASSUME NEW i \in RowsOf(c.owner, c.app), Load(r, c, consents[i], "loaded")
        PROVE  Turns(q)
    <3>1. i \in ConsentIDs /\ consents[i] # Nil
      BY DEF RowsOf
    <3> QED
      BY <1>1, <2>2, <3>1, LoadTurns DEF Turns, Reads
  <2> QED
    BY <1>4, <2>1, <2>2 DEF CreateConsent
<1>5. ASSUME NEW op \in PortalOps, NEW i \in ConsentIDs, NEW c \in Callers,
             PortalRequest(r, op, i, c)
      PROVE  Turns(q)
  <2> DEFINE k == [op |-> op, id |-> i, caller |-> c]
  <2>1. CASE \E a : AnswerAtOnce(r, a)
    BY <1>2, <2>1
  <2>2. CASE consents[i] # Nil /\ consents[i].owner = c /\ Load(r, k, consents[i], "portal")
    <3>1. k.caller = c
      OBVIOUS
    <3> HIDE DEF k
    <3> QED
      BY <1>1, <2>2, <3>1, LoadTurns DEF Turns, Reads
  <2> QED
    BY <1>5, <2>1, <2>2 DEF PortalRequest, OwnerMatches
<1> QED
  BY <1>3, <1>4, <1>5 DEF Arrive

\* A request in flight.
LEMMA ProceedTurns ==
  ASSUME BaseInv, NEW r \in Requests, Proceed(r), NEW q \in Requests
  PROVE  Turns(q)
<1>1. CASE \E a : Answer(r, a)
  BY <1>1, AnswerTurns
<1>2. CASE BuildConsent(r) \/ RevokeExisting(r)
  BY <1>2, BuildTurns DEF BuildConsent, RevokeExisting
<1>3. CASE Goto(r, "build", Nil) \/ Goto(r, "replace", copy[r])
  BY <1>3, GotoTurns DEF Turns
<1>4. ASSUME pc[r] \in {"replace", "reload"}
      PROVE  copy[r].id \in ConsentIDs /\ consents[copy[r].id] # Nil
  BY <1>4 DEF BaseInv, TypeOK, MemoryOK, RowsOK, ConsentRecord
<1>5. CASE /\ pc[r] = "replace" /\ Goto(r, "revoke", consents[copy[r].id])
           /\ UNCHANGED <<consents, wins>>
  BY <1>4, <1>5, GotoTurns DEF Turns, Reads
<1>6. CASE /\ pc[r] = "portal" /\ Goto(r, "reload", copy[r]) /\ UNCHANGED <<consents, wins>>
           /\ Stale(copy[r], now)
           /\ ~WhereIdAndStatus(copy[r].id, copy[r].status)
  <2>1. copy[r].status \in ActiveStatus
    BY <1>6 DEF Stale, ActiveStatus
  <2>2. consents[copy[r].id] # Nil
    BY <1>6 DEF BaseInv, TypeOK, MemoryOK, RowsOK
  <2>3. consents[copy[r].id].status # copy[r].status
    BY <1>6, <2>2 DEF WhereIdAndStatus
  <2> QED
    BY <1>6, <2>1, <2>3, GotoTurns DEF Turns
<1>7. CASE /\ pc[r] = "reload" /\ Goto(r, "reloaded", consents[copy[r].id])
           /\ UNCHANGED <<consents, wins>>
  BY <1>4, <1>7, GotoTurns DEF Turns, Reads
<1> QED
  BY <1>1, <1>2, <1>3, <1>5, <1>6, <1>7
     DEF Proceed, SaveExpired, UseLoaded, InsertConsent, BeginReplace, CommitReplace,
         PersistExpiry, ViewConsent, Reload, RefuseAction, DecideConsent

\* Every step.
LEMMA StepTurns ==
  ASSUME BaseInv, [Next]_vars, NEW q \in Requests
  PROVE  Turns(q)
<1>1. CASE UNCHANGED <<pc, call, copy>>
  BY <1>1 DEF Turns, KeepsPlace
<1> QED
  BY <1>1, ArriveTurns, ProceedTurns, AnswerTurns DEF Next, Abort, ListConsents, Tick, vars

\* After a turn of the request, its copy still follows its row.
LEMMA CopyFollows ==
  ASSUME Inv, Inv', TableStep, History, NEW q \in Requests, Turns(q), copy'[q] # Nil
  PROVE  Follows(copy[q])'
<1>1. CASE copy'[q] = copy[q]
  <2>1. copy[q] # Nil
    BY <1>1
  <2>2. /\ copy[q] \in ConsentRecord /\ consents[copy[q].id] # Nil
        /\ Follows(copy[q])
    BY <2>1 DEF Inv, BaseInv, TypeOK, RowsOK, History
  <2> QED
    BY <1>1, <2>2, FollowsKept DEF Follows
<1>2. ASSUME NEW i \in ConsentIDs, Reads(q, i)
      PROVE  Follows(copy[q])'
  <2>1. Follows(consents[i])
    BY <1>2, RowFollows DEF Reads
  <2> QED
    BY <1>2, <2>1 DEF Reads, Follows
<1>3. Reads(q, copy[q].id) => copy[q].id \in ConsentIDs
  BY DEF Reads
<1> QED
  BY <1>1, <1>2, <1>3 DEF Turns, KeepsPlace

\* History is kept by every step.
LEMMA HistoryStep ==
  ASSUME Inv, Inv', TableStep, History, [Next]_vars
  PROVE  History'
<1> SUFFICES ASSUME NEW q \in Requests
             PROVE  /\ copy'[q] # Nil => Follows(copy[q])'
                    /\ pc'[q] \in {"insert", "commit"} => call'[q] = Nil
                    /\ pc'[q] \in {"portal", "reload", "reloaded"} =>
                         copy'[q].owner = call'[q].caller
                    /\ pc'[q] \in {"reload", "reloaded"} =>
                         consents'[copy'[q].id].status # "pending"
  BY DEF History
<1>1. Turns(q)
  BY StepTurns DEF Inv
<1>2. copy'[q] # Nil => Follows(copy[q])'
  BY <1>1, CopyFollows
<1>3. ASSUME pc[q] \in {"portal", "reload", "reloaded"}
      PROVE  /\ copy[q] \in ConsentRecord /\ copy[q].id \in ConsentIDs
             /\ consents[copy[q].id] # Nil /\ consents[copy[q].id] \in ConsentRecord
             /\ consents[copy[q].id].id = copy[q].id
             /\ copy[q].owner = call[q].caller
             /\ consents[copy[q].id].owner = copy[q].owner
             /\ Follows(copy[q])
  <2>1. copy[q] # Nil
    BY <1>3 DEF Inv, BaseInv, MemoryOK
  <2>2. /\ copy[q] \in ConsentRecord /\ copy[q].id \in ConsentIDs
        /\ consents[copy[q].id] # Nil
        /\ Request(copy[q]) = Request(consents[copy[q].id])
    BY <2>1 DEF Inv, BaseInv, TypeOK, RowsOK, CopiesOK, ConsentRecord
  <2>3. consents[copy[q].id] \in ConsentRecord /\ consents[copy[q].id].id = copy[q].id
    BY <2>2, RowType DEF Inv
  <2>4. consents[copy[q].id].owner = copy[q].owner
    BY <2>2, <2>3, RequestOf
  <2> QED
    BY <1>3, <2>1, <2>2, <2>3, <2>4 DEF History
<1>4. CASE KeepsPlace(q)
  <2>1. ASSUME pc[q] \in {"reload", "reloaded"}
        PROVE  consents'[copy[q].id].status # "pending"
    <3>1. consents[copy[q].id].status # "pending"
      BY <2>1 DEF History
    <3>2. RowMoves(copy[q].id)
      BY <1>3, <2>1, TableMoves DEF Inv
    <3> QED
      BY <3>1, <3>2 DEF RowMoves, TerminalStatus
  <2> QED
    BY <1>2, <1>4, <2>1 DEF KeepsPlace, History
<1>5. CASE /\ pc[q] = "portal" /\ pc'[q] = "reload"
           /\ copy'[q] = copy[q] /\ call'[q] = call[q] /\ UNCHANGED <<consents, wins>>
           /\ copy[q].status \in ActiveStatus
           /\ consents[copy[q].id].status # copy[q].status
  <2>1. CASE copy[q].status = "pending"
    BY <1>2, <1>3, <1>5, <2>1
  <2>2. CASE copy[q].status = "approved"
    <3>1. wins[copy[q].id]["approve"] = 1
      BY <1>3, <1>5, <2>2 DEF Follows
    <3>2. consents[copy[q].id].status # "pending"
      BY <1>3, <1>5, <3>1 DEF Inv, ExactlyOneWins, Actions
    <3> QED
      BY <1>2, <1>3, <1>5, <3>2
  <2> QED
    BY <1>5, <2>1, <2>2 DEF ActiveStatus
<1>6. CASE pc[q] = "reload" /\ pc'[q] = "reloaded" /\ call'[q] = call[q] /\ Reads(q, copy[q].id)
  <2>1. consents[copy[q].id].status # "pending"
    BY <1>6 DEF History
  <2> QED
    BY <1>2, <1>3, <1>6, <2>1 DEF Reads
<1>7. CASE pc'[q] = "portal" /\ \E i \in ConsentIDs : Reads(q, i) /\ consents[i].owner = call'[q].caller
  BY <1>2, <1>7 DEF Reads
<1> QED
  BY <1>1, <1>2, <1>4, <1>5, <1>6, <1>7 DEF Turns

\* The stronger invariant is inductive too.
LEMMA HistoryInvariance == Spec => []IInv
<1>1. Init => IInv
  <2>1. Init => History
    BY DEF Init, History
  <2> QED
    BY <2>1, InitInv DEF IInv
<1>2. IInv /\ [Next]_vars => IInv'
  BY InvStep, HistoryStep DEF IInv
<1> QED
  BY <1>1, <1>2, PTL DEF Spec

(***************************************************************************)
(* Lazy expiry.                                                            *)
(***************************************************************************)
Past(row, t) ==
    \/ row.pendingExpiresAt # Nil /\ row.pendingExpiresAt < t
    \/ row.grantExpiresAt # Nil /\ row.grantExpiresAt < t

\* A stale record is past a deadline, also under its new status.
LEMMA StaleIsPast ==
  ASSUME NEW row \in ConsentRecord, NEW t \in Nat, Stale(row, t)
  PROVE  Past(WithStatus(row, "expired"), t)
<1>1. /\ WithStatus(row, "expired").pendingExpiresAt = row.pendingExpiresAt
      /\ WithStatus(row, "expired").grantExpiresAt = row.grantExpiresAt
  BY DEF WithStatus, ConsentRecord
<1>2. /\ row.pendingExpiresAt # Nil => row.pendingExpiresAt \in Nat
      /\ row.grantExpiresAt # Nil => row.grantExpiresAt \in Nat
  BY DEF ConsentRecord, Deadline
<1> QED
  BY <1>1, <1>2 DEF Past, Stale

\* What is past stays past.
LEMMA PastLater ==
  ASSUME NEW row \in ConsentRecord, NEW t \in Nat, NEW u \in Nat, t <= u, Past(row, t)
  PROVE  Past(row, u)
<1>1. /\ row.pendingExpiresAt # Nil => row.pendingExpiresAt \in Nat
      /\ row.grantExpiresAt # Nil => row.grantExpiresAt \in Nat
  BY DEF ConsentRecord, Deadline
<1> QED
  BY <1>1 DEF Past

(***************************************************************************)
(* Which statement changes a row, and what it leaves there.                *)
(***************************************************************************)
SavedBy(r, k) ==
    /\ SaveExpired(r) /\ k = copy[r].id
    /\ consents'[k] = WithStatus(copy[r], "expired")

PersistedBy(r, k) ==
    /\ PersistExpiry(r) /\ k = copy[r].id
    /\ consents[k] # Nil /\ consents[k].status = copy[r].status
    /\ consents'[k] = WithStatus(consents[k], "expired")

CreatedBy(r, k) ==
    /\ InsertConsent(r) \/ CommitReplace(r)
    /\ consents'[k].status \in {"pending", "revoked"}

DecidedBy(r, k) ==
    /\ DecideConsent(r) /\ k = call[r].id
    /\ consents[k] # Nil /\ consents[k].status = FromStatus(call[r].op)
    /\ consents[k].owner = call[r].caller
    /\ \E t \in DecisionTimes(r) : consents'[k] = Decided(consents[k], call[r].op, t)

ListedBy(k) ==
    /\ consents[k] # Nil /\ pc' = pc
    /\ \E t \in 0..now : Stale(consents[k], t)
    /\ consents'[k] = WithStatus(consents[k], "expired")

\* The two inserts.
LEMMA CreatesRow ==
  ASSUME BaseInv, DraftsOK, NEW r \in Requests, InsertConsent(r) \/ CommitReplace(r),
         NEW k \in ConsentIDs, consents'[k] # consents[k]
  PROVE  CreatedBy(r, k)
<1>1. draft[r] \in ConsentRecord /\ draft[r].status = "pending"
  BY DEF InsertConsent, CommitReplace, BaseInv, TypeOK, MemoryOK, DraftsOK
<1>2. CASE consents' = [consents EXCEPT ![draft[r].id] = draft[r]]
  BY <1>1, <1>2 DEF CreatedBy, BaseInv, TypeOK
<1>3. CASE /\ pc[r] = "commit"
           /\ consents' = [Revoked(copy[r]) EXCEPT ![draft[r].id] = draft[r]]
  <2>1. copy[r] \in ConsentRecord
    BY <1>3 DEF BaseInv, TypeOK, MemoryOK
  <2>2. /\ Revoked(copy[r])[copy[r].id] = WithStatus(copy[r], "revoked")
        /\ \A i \in ConsentIDs : i # copy[r].id => Revoked(copy[r])[i] = consents[i]
        /\ Revoked(copy[r]) \in [ConsentIDs -> ConsentRecord \cup {Nil}]
    BY <2>1, RevokedRow
  <2>3. WithStatus(copy[r], "revoked").status = "revoked"
    BY <2>1, WithStatusRequest
  <2>4. k = draft[r].id => consents'[k] = draft[r]
    BY <1>3, <2>2
  <2>5. k # draft[r].id => consents'[k] = Revoked(copy[r])[k]
    BY <1>3, <2>2
  <2> QED
    BY <1>1, <2>2, <2>3, <2>4, <2>5 DEF CreatedBy
<1> QED
  BY <1>2, <1>3 DEF InsertConsent, CommitReplace, Revoked

\* The portal's decision.
LEMMA DecidesRow ==
  ASSUME BaseInv, NEW r \in Requests, DecideConsent(r),
         NEW k \in ConsentIDs, consents'[k] # consents[k]
  PROVE  DecidedBy(r, k)
<1> DEFINE i == call[r].id
           a == call[r].op
<1>1. PICK t \in DecisionTimes(r) :
         \/ /\ consents[i] # Nil /\ consents[i].status = FromStatus(a)
            /\ consents[i].owner = call[r].caller
            /\ consents' = [consents EXCEPT ![i] = Decided(consents[i], a, t)]
         \/ UNCHANGED consents
  BY DEF DecideConsent, WhereIdAndStatus
<1>2. /\ consents[i] # Nil /\ consents[i].status = FromStatus(a)
      /\ consents[i].owner = call[r].caller
      /\ consents' = [consents EXCEPT ![i] = Decided(consents[i], a, t)]
  BY <1>1
<1>3. k = i
  BY <1>2 DEF BaseInv, TypeOK
<1>4. consents'[k] = Decided(consents[k], a, t)
  BY <1>2, <1>3 DEF BaseInv, TypeOK
<1> QED
  BY <1>2, <1>3, <1>4 DEF DecidedBy

\* Whatever changed a row is one of these.
LEMMA WhoWrites ==
  ASSUME BaseInv, DraftsOK, [Next]_vars, NEW k \in ConsentIDs, consents'[k] # consents[k]
  PROVE  \/ \E r \in Requests : \/ SavedBy(r, k) \/ PersistedBy(r, k)
                                \/ CreatedBy(r, k) \/ DecidedBy(r, k)
         \/ ListedBy(k)
<1>1. ASSUME NEW r \in Requests, SaveExpired(r)
      PROVE  SavedBy(r, k)
  <2>1. consents' = [consents EXCEPT ![copy[r].id] = WithStatus(copy[r], "expired")]
    BY <1>1 DEF SaveExpired
  <2> QED
    BY <1>1, <2>1 DEF SavedBy, BaseInv, TypeOK
<1>2. ASSUME NEW r \in Requests, PersistExpiry(r)
      PROVE  PersistedBy(r, k)
  <2> DEFINE i == copy[r].id
  <2>1. /\ WhereIdAndStatus(i, copy[r].status)
        /\ consents' = [consents EXCEPT ![i] = WithStatus(consents[i], "expired")]
    BY <1>2 DEF PersistExpiry
  <2>2. k = i /\ consents'[k] = WithStatus(consents[k], "expired")
    BY <2>1 DEF BaseInv, TypeOK
  <2> QED
    BY <1>2, <2>1, <2>2 DEF PersistedBy, WhereIdAndStatus
<1>3. ASSUME NEW o \in Owners, NEW t \in 0..now, ListConsents(o, t)
      PROVE  ListedBy(k)
  BY <1>3 DEF ListConsents, ListedBy
<1>4. ASSUME NEW r \in Requests, Proceed(r)
      PROVE  SavedBy(r, k) \/ PersistedBy(r, k) \/ CreatedBy(r, k) \/ DecidedBy(r, k)
  <2>1. CASE UseLoaded(r) \/ BuildConsent(r) \/ BeginReplace(r) \/ RevokeExisting(r)
             \/ ViewConsent(r) \/ Reload(r) \/ RefuseAction(r)
    BY <2>1 DEF UseLoaded, BuildConsent, BeginReplace, RevokeExisting, ViewConsent, Reload,
                RefuseAction
  <2> QED
    BY <1>1, <1>2, <1>4, <2>1, CreatesRow, DecidesRow DEF Proceed
<1>5. ~(Tick \/ UNCHANGED vars \/ \E r \in Requests : Arrive(r) \/ Abort(r))
  BY DEF Tick, vars, Arrive, GetConsent, CreateConsent, PortalRequest, Abort
<1> QED
  BY <1>3, <1>4, <1>5 DEF Next

\* A row that a step marks expired is past a deadline it still shows.
LEMMA ExpiringStep ==
  ASSUME IInv, [Next]_vars, NEW k \in ConsentIDs,
         consents'[k] # consents[k], consents'[k].status = "expired"
  PROVE  Past(consents'[k], now)
<1>1. now \in Nat /\ BaseInv /\ DraftsOK
  BY DEF IInv, Inv, BaseInv, TypeOK
<1>2. ASSUME NEW r \in Requests, SavedBy(r, k)
      PROVE  Past(consents'[k], now)
  <2>1. copy[r] \in ConsentRecord /\ Stale(copy[r], now)
    BY <1>1, <1>2 DEF SavedBy, SaveExpired, BaseInv, TypeOK, MemoryOK
  <2> QED
    BY <1>1, <1>2, <2>1, StaleIsPast DEF SavedBy
<1>3. ASSUME NEW r \in Requests, PersistedBy(r, k)
      PROVE  Past(consents'[k], now)
  <2>1. copy[r] # Nil /\ copy[r] \in ConsentRecord /\ Stale(copy[r], now)
    BY <1>1, <1>3 DEF PersistedBy, PersistExpiry, BaseInv, TypeOK, MemoryOK
  <2>2. copy[r].status \in ActiveStatus
    BY <2>1 DEF Stale, ActiveStatus
  <2>3. copy[r] = consents[k]
    BY <1>3, <2>1, <2>2 DEF PersistedBy, IInv, History, Follows
  <2> QED
    BY <1>1, <1>3, <2>1, <2>3, StaleIsPast DEF PersistedBy
<1>4. ASSUME ListedBy(k)
      PROVE  Past(consents'[k], now)
  <2>1. PICK t \in 0..now : Stale(consents[k], t)
    BY <1>4 DEF ListedBy
  <2>2. t \in Nat /\ t <= now
    BY <1>1, <2>1
  <2>3. consents[k] \in ConsentRecord /\ WithStatus(consents[k], "expired") \in ConsentRecord
    BY <1>1, <1>4, RowType, WithStatusType DEF ListedBy, Status, TerminalStatus
  <2>4. Past(WithStatus(consents[k], "expired"), t)
    BY <2>1, <2>2, <2>3, StaleIsPast
  <2> QED
    BY <1>1, <1>4, <2>2, <2>3, <2>4, PastLater DEF ListedBy
<1>5. ASSUME NEW r \in Requests, DecidedBy(r, k)
      PROVE  FALSE
  <2>1. consents[k] \in ConsentRecord /\ call[r].op \in Actions
    BY <1>1, <1>5, RowType DEF DecidedBy, DecideConsent
  <2>2. PICK t : consents'[k] = Decided(consents[k], call[r].op, t)
    BY <1>5 DEF DecidedBy
  <2>3. consents'[k].status \in {"approved", "rejected", "revoked"}
    BY <2>1, <2>2, DecidedFields DEF Actions
  <2> QED
    BY <2>3
<1> QED
  BY <1>1, <1>2, <1>3, <1>4, <1>5, WhoWrites DEF CreatedBy

\* The clock never goes back.
LEMMA ClockAdvances ==
  ASSUME now \in Nat, [Next]_vars
  PROVE  now <= now'
<1>1. ASSUME NEW r \in Requests, Arrive(r) \/ Abort(r)
      PROVE  now' = now
  BY <1>1 DEF Arrive, GetConsent, CreateConsent, PortalRequest, Abort
<1>2. ASSUME NEW r \in Requests, Proceed(r)
      PROVE  now' = now
  BY <1>2 DEF Proceed, SaveExpired, UseLoaded, BuildConsent, InsertConsent, BeginReplace,
              RevokeExisting, CommitReplace, PersistExpiry, ViewConsent, Reload,
              RefuseAction, DecideConsent
<1>3. CASE (\E o \in Owners, t \in 0..now : ListConsents(o, t)) \/ UNCHANGED vars
  BY <1>3 DEF ListConsents, vars
<1>4. CASE Tick
  BY <1>4 DEF Tick
<1> QED
  BY <1>1, <1>2, <1>3, <1>4 DEF Next

\* None of the four expiry writes is premature, also when it saves a stale copy
\* over a row that changed meanwhile.
THEOREM ExpiryIsLate == Spec => []ExpiredPastDeadline
<1>1. Init => ExpiredPastDeadline
  BY DEF Init, ExpiredPastDeadline
<1>2. IInv /\ IInv' /\ ExpiredPastDeadline /\ [Next]_vars => ExpiredPastDeadline'
  <2> SUFFICES ASSUME IInv, IInv', ExpiredPastDeadline, [Next]_vars, NEW k \in ConsentIDs,
                      consents'[k] # Nil, consents'[k].status = "expired"
               PROVE  Past(consents'[k], now')
    BY DEF ExpiredPastDeadline, Past
  <2>1. now \in Nat /\ now' \in Nat
    BY DEF IInv, Inv, BaseInv, TypeOK
  <2>2. now <= now'
    BY <2>1, ClockAdvances
  <2>3. consents'[k] \in ConsentRecord
    BY DEF IInv, Inv, BaseInv, TypeOK
  <2>4. Past(consents'[k], now)
    BY ExpiringStep DEF ExpiredPastDeadline, Past
  <2> QED
    BY <2>1, <2>2, <2>3, <2>4, PastLater
<1> QED
  BY <1>1, <1>2, HistoryInvariance, PTL DEF Spec

(***************************************************************************)
(* The portal.                                                             *)
(***************************************************************************)

\* Only a portal's approval turns a pending consent into a grant, and it was
\* compared with the deadline of the very row it updates.
LEMMA ApprovalInTime ==
  ASSUME IInv, [Next]_vars, NEW k \in ConsentIDs, consents[k] # Nil,
         consents[k].status = "pending", consents'[k].status = "approved"
  PROVE  consents'[k].grantExpiresAt <= consents[k].pendingExpiresAt + consents[k].duration
<1>1. BaseInv /\ DraftsOK /\ consents'[k] # consents[k]
  BY DEF IInv, Inv
<1>2. consents[k] \in ConsentRecord
  BY <1>1, RowType
<1>3. WithStatus(consents[k], "expired").status = "expired"
  BY <1>2, WithStatusRequest
<1>4. ~ListedBy(k)
  BY <1>3 DEF ListedBy
<1>5. ASSUME NEW r \in Requests, SavedBy(r, k) \/ PersistedBy(r, k) \/ CreatedBy(r, k)
      PROVE  FALSE
  <2>1. CASE SavedBy(r, k)
    <3>1. copy[r] \in ConsentRecord
      BY <1>1, <2>1 DEF SavedBy, SaveExpired, BaseInv, TypeOK, MemoryOK
    <3> QED
      BY <2>1, <3>1, WithStatusRequest DEF SavedBy
  <2> QED
    BY <1>3, <1>5, <2>1 DEF PersistedBy, CreatedBy
<1>6. PICK r \in Requests : DecidedBy(r, k)
  BY <1>1, <1>4, <1>5, WhoWrites
<1>7. /\ call[r].op \in Actions /\ pc[r] \in {"portal", "reloaded"}
      /\ copy[r].status = FromStatus(call[r].op)
  BY <1>6 DEF DecidedBy, DecideConsent
<1>8. PICK t \in DecisionTimes(r) : consents'[k] = Decided(consents[k], call[r].op, t)
  BY <1>6 DEF DecidedBy
<1>9. call[r].op = "approve"
  BY <1>2, <1>7, <1>8, DecidedFields DEF Actions
<1>10. copy[r] # Nil /\ copy[r].id = k /\ copy[r].status = "pending"
  BY <1>1, <1>6, <1>7, <1>9 DEF DecidedBy, BaseInv, MemoryOK, FromStatus
<1>11. copy[r] = consents[k]
  BY <1>10 DEF IInv, History, Follows, ActiveStatus
<1>12. consents[k].pendingExpiresAt # Nil /\ consents[k].pendingExpiresAt \in Nat
  BY <1>2, <1>10, <1>11 DEF IInv, History, Follows, ConsentRecord, Deadline
<1>13. pc[r] = "portal"
  BY <1>7, <1>10 DEF IInv, History
<1>14. t \in readAt[r]..now /\ ~Stale(copy[r], t)
  BY <1>8, <1>13 DEF DecisionTimes
<1>15. t \in Nat /\ t <= consents[k].pendingExpiresAt
  <2>1. readAt[r] \in Nat /\ now \in Nat
    BY <1>1 DEF BaseInv, TypeOK
  <2> QED
    BY <1>10, <1>11, <1>12, <1>14, <2>1 DEF Stale
<1>16. consents'[k].grantExpiresAt = t + consents[k].duration
  BY <1>2, <1>8, <1>9, DecidedFields DEF Actions
<1>17. consents[k].duration \in Nat
  BY <1>2, ConstantsAssumption DEF ConsentRecord, ConstantsAssumption
<1> QED
  BY <1>12, <1>15, <1>16, <1>17

\* A grant runs out at most its duration after the deadline of the request it
\* answers, however late the UPDATE of the approval comes.
THEOREM GrantsStartInTime == Spec => GrantWithinRequest
<1>1. IInv /\ [Next]_vars =>
        [\A i \in ConsentIDs :
          consents[i] # Nil /\ consents[i].status = "pending"
                            /\ consents'[i].status = "approved" =>
             consents'[i].grantExpiresAt
                <= consents[i].pendingExpiresAt + consents[i].duration]_vars
  BY ApprovalInTime
<1> QED
  BY <1>1, HistoryInvariance, PTL DEF Spec, GrantWithinRequest

\* A request that goes on leaves every other where it is.
LEMMA OthersStay ==
  ASSUME BaseInv, NEW q \in Requests, Proceed(q), NEW r \in Requests, r # q
  PROVE  pc'[r] = pc[r]
<1>1. CASE \E a : Answer(q, a)
  BY <1>1 DEF Answer, BaseInv, TypeOK
<1>2. CASE \E s, row : Goto(q, s, row)
  BY <1>2 DEF Goto, BaseInv, TypeOK
<1>3. CASE \E s : Build(q, s)
  BY <1>3 DEF Build, BaseInv, TypeOK
<1> QED
  BY <1>1, <1>2, <1>3
     DEF Proceed, SaveExpired, UseLoaded, BuildConsent, InsertConsent, BeginReplace,
         RevokeExisting, CommitReplace, PersistExpiry, ViewConsent, Reload, RefuseAction,
         DecideConsent

\* A portal request changes at most the consent it names, and only its
\* caller's.
LEMMA PortalWrites ==
  ASSUME IInv, [Next]_vars, NEW r \in Requests,
         call[r] # Nil, call[r].op \in PortalOperations, pc'[r] # pc[r],
         NEW k \in ConsentIDs, consents'[k] # consents[k]
  PROVE  k = call[r].id /\ consents[k].owner = call[r].caller
<1>1. BaseInv /\ DraftsOK /\ History
  BY DEF IInv, Inv
<1>2. PICK q \in Requests : SavedBy(q, k) \/ PersistedBy(q, k) \/ CreatedBy(q, k) \/ DecidedBy(q, k)
  BY <1>1, WhoWrites DEF ListedBy
<1>3. Proceed(q)
  BY <1>2 DEF SavedBy, PersistedBy, CreatedBy, DecidedBy, Proceed
<1>4. q = r
  BY <1>1, <1>3, OthersStay
<1>5. ~SavedBy(r, k)
  <2>1. SavedBy(r, k) => call[r] \in CreateCall \cup GetCall
    BY <1>1 DEF SavedBy, SaveExpired, BaseInv, MemoryOK
  <2> QED
    BY <2>1 DEF CreateCall, GetCall, PortalOperations, Actions
<1>6. ~CreatedBy(r, k)
  BY <1>1 DEF CreatedBy, InsertConsent, CommitReplace, History
<1>7. CASE PersistedBy(r, k)
  <2>1. /\ pc[r] = "portal" /\ k = copy[r].id /\ copy[r] # Nil /\ copy[r].id = call[r].id
        /\ copy[r].owner = call[r].caller
        /\ consents[k] # Nil /\ copy[r] \in ConsentRecord
    BY <1>1, <1>7 DEF PersistedBy, PersistExpiry, BaseInv, TypeOK, MemoryOK, History
  <2>2. Stale(copy[r], now) /\ copy[r].status = consents[k].status
    BY <1>7 DEF PersistedBy, PersistExpiry
  <2>3. copy[r] = consents[k]
    BY <1>1, <2>1, <2>2 DEF History, Follows, Stale, ActiveStatus
  <2> QED
    BY <2>1, <2>3
<1>8. CASE DecidedBy(r, k)
  BY <1>8 DEF DecidedBy
<1> QED
  BY <1>2, <1>4, <1>5, <1>6, <1>7, <1>8

\* No portal call, a view included, ever changes a consent of somebody else.
THEOREM PortalKeepsToItsOwner == Spec => PortalTouchesOwnConsents
<1>1. IInv /\ [Next]_vars =>
        [\A r \in Requests :
          call[r] # Nil /\ call[r].op \in PortalOperations /\ pc'[r] # pc[r] =>
             \A i \in ConsentIDs : consents'[i] # consents[i] =>
                 i = call[r].id /\ consents[i].owner = call[r].caller]_vars
  BY PortalWrites
<1> QED
  BY <1>1, HistoryInvariance, PTL DEF Spec, PortalTouchesOwnConsents

(***************************************************************************)
(* What POST answers.                                                      *)
(***************************************************************************)

\* "approved" is answered to a create only from the record it loaded.
LEMMA ApprovedFromLoad ==
  ASSUME BaseInv, Next, NEW r \in Requests, pc[r] # "idle",
         reply'[r] = "approved", call[r].op = "create"
  PROVE  /\ pc[r] = "loaded" /\ copy[r].status = "approved" /\ ~Stale(copy[r], readAt[r])
         /\ copy[r].fields = call[r].fields
<1>1. "approved" # Nil /\ "approved" \in Answers
  BY ConstantsAssumption DEF ConstantsAssumption, Answers, Status, ActiveStatus
<1>2. reply' # NoReply
  BY <1>1 DEF NoReply
<1>3. ASSUME NEW q \in Requests, NEW a, Answer(q, a)
      PROVE  q = r /\ a = "approved"
  BY <1>1, <1>3 DEF Answer, NoReply
<1>4. ASSUME NEW q \in Requests, Arrive(q)
      PROVE  FALSE
  <2>1. PICK a : AnswerAtOnce(q, a) /\ pc[q] = "idle"
    BY <1>2, <1>4 DEF Arrive, GetConsent, CreateConsent, PortalRequest, Load
  <2> QED
    BY <1>1, <2>1 DEF AnswerAtOnce, NoReply
<1>5. PICK q \in Requests : Proceed(q) \/ Abort(q)
  BY <1>2, <1>4 DEF Next, ListConsents, Tick
<1>6. ~Abort(q)
  BY <1>3 DEF Abort
<1>7. CASE SaveExpired(q) \/ BuildConsent(q) \/ InsertConsent(q) \/ BeginReplace(q)
           \/ RevokeExisting(q) \/ CommitReplace(q) \/ PersistExpiry(q) \/ RefuseAction(q)
           \/ DecideConsent(q)
  BY <1>2, <1>3, <1>7
     DEF SaveExpired, BuildConsent, Build, InsertConsent, BeginReplace, RevokeExisting,
         CommitReplace, PersistExpiry, RefuseAction, DecideConsent, Goto
<1>8. CASE ViewConsent(q) \/ Reload(q)
  BY <1>2, <1>3, <1>8 DEF ViewConsent, Reload, Goto
<1>9. CASE UseLoaded(q)
  <2>1. q = r /\ copy[r].status = "approved"
    BY <1>2, <1>3, <1>9 DEF UseLoaded, Goto
  <2> QED
    BY <1>2, <1>9, <2>1 DEF UseLoaded, Goto
<1> QED
  BY <1>5, <1>6, <1>7, <1>8, <1>9 DEF Proceed

\* POST serves a consent only from a grant its owner gave, for the requested
\* owner, application and fields, that had not run out when it was read.
THEOREM PostServesAGrant == Spec => ServedFromGrant
<1>1. ASSUME IInv, Next, NEW r \in Requests, pc[r] # "idle",
             reply'[r] = "approved", call[r].op = "create"
      PROVE  \E i \in ConsentIDs :
                /\ consents[i] # Nil
                /\ SamePair(consents[i], call[r].owner, call[r].app)
                /\ consents[i].fields = call[r].fields
                /\ wins[i]["approve"] = 1
                /\ copy[r].id = i /\ copy[r].grantExpiresAt >= readAt[r]
  <2>1. BaseInv /\ CopiesOK /\ History
    BY <1>1 DEF IInv, Inv
  <2>2. /\ pc[r] = "loaded" /\ copy[r].status = "approved" /\ ~Stale(copy[r], readAt[r])
        /\ copy[r].fields = call[r].fields
    BY <1>1, <2>1, ApprovedFromLoad
  <2>3. /\ copy[r] # Nil /\ copy[r] \in ConsentRecord /\ copy[r].id \in ConsentIDs
        /\ consents[copy[r].id] # Nil
    BY <2>1, <2>2 DEF BaseInv, TypeOK, MemoryOK, RowsOK, ConsentRecord
  <2>4. consents[copy[r].id] \in ConsentRecord
    BY <2>1, <2>3, RowType
  <2>5. SamePair(copy[r], call[r].owner, call[r].app)
    BY <2>1, <2>2 DEF CopiesOK
  <2>6. Request(copy[r]) = Request(consents[copy[r].id])
    BY <2>1, <2>3 DEF CopiesOK
  <2>7. /\ SamePair(consents[copy[r].id], call[r].owner, call[r].app)
        /\ consents[copy[r].id].fields = call[r].fields
    BY <2>2, <2>3, <2>4, <2>5, <2>6, RequestOf DEF SamePair
  <2>8. wins[copy[r].id]["approve"] = 1 /\ copy[r].grantExpiresAt # Nil
    BY <2>1, <2>2, <2>3 DEF History, Follows
  <2>9. copy[r].grantExpiresAt >= readAt[r]
    <3>1. copy[r].grantExpiresAt \in Nat /\ readAt[r] \in Nat
      BY <2>1, <2>3, <2>8 DEF BaseInv, TypeOK, ConsentRecord, Deadline
    <3> QED
      BY <2>2, <2>8, <3>1 DEF Stale
  <2> QED
    BY <2>3, <2>7, <2>8, <2>9
<1>2. IInv /\ [Next]_vars =>
        [\A r \in Requests :
          pc[r] # "idle" /\ reply'[r] = "approved" /\ call[r].op = "create" =>
             \E i \in ConsentIDs :
                /\ consents[i] # Nil
                /\ SamePair(consents[i], call[r].owner, call[r].app)
                /\ consents[i].fields = call[r].fields
                /\ wins[i]["approve"] = 1
                /\ copy[r].id = i /\ copy[r].grantExpiresAt >= readAt[r]]_vars
  BY <1>1
<1> QED
  BY <1>2, HistoryInvariance, PTL DEF Spec, ServedFromGrant
=============================================================================
