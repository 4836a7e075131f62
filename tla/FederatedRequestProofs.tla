----------------------- MODULE FederatedRequestProofs -----------------------
(***************************************************************************)
(* The release rule of FederatedRequest for all requests, applications,    *)
(* plans, providers, owners and fields, any number of consents and any     *)
(* times at which grants expire.                                           *)
(*                                                                         *)
(* What is said of a request is said of its record, so that a step can be  *)
(* proved right by what it puts in the record's place.                     *)
(***************************************************************************)
EXTENDS FederatedRequest, SequenceTheorems, TLAPS

Busy(t)    == t.at \in {"policy", "consent", "launch", "write"}
PartyIn(t) == <<Plan[t.query].owner, t.app>>
NeedsIn(t) == Reads(t.query)

\* The part of TypeOK about one request.
Formed(t) ==
    Busy(t) =>
        /\ t.app \in Apps
        /\ t.query \in Queries /\ Plan[t.query] # Refused
        /\ Len(t.outcome) = Len(Fetches(t.query))
        /\ t.next \in 1..(Len(t.outcome) + 1)
        /\ t.at = "write" => t.next \in DOMAIN t.outcome

\* What is granted and agreed to now was noted.
Noted(t) ==
    Busy(t) =>
        /\ Granted(t.app) \subseteq t.granted
        /\ Agreed(PartyIn(t)) \subseteq t.agreed

\* How far a request may be, given what was granted and agreed to: no provider
\* is asked before both checks have passed for every field of the query.
Checked(t) ==
    /\ ~Busy(t) => t.outcome = <<>>
    /\ t.at = "policy" => t.passed \subseteq t.granted
    /\ t.at \in {"policy", "consent"} =>
          \A i \in DOMAIN t.outcome : t.outcome[i] = "none"
    /\ t.at \in {"consent", "launch", "write"} => NeedsIn(t) \subseteq t.granted
    /\ t.at \in {"launch", "write"} => NeedsIn(t) \cap ConsentKeys \subseteq t.agreed

ServicesOK ==
    /\ now \in Nat
    /\ lists \in [Keys -> Grants!AllowList \cup {Nil}]
    /\ Ledger!TypeOK
    /\ covers \in [ConsentIDs -> SUBSET Keys]

RequestsOK ==
    /\ task \in [Requests -> Task]
    /\ \A r \in Requests : Formed(task[r]) /\ Noted(task[r]) /\ Checked(task[r])

IInv == ServicesOK /\ RequestsOK

\* The invariant implies the type invariant.
LEMMA IInvType == IInv => TypeOK
BY DEF IInv, ServicesOK, RequestsOK, TypeOK, Formed, Busy

\* A plan that is not refused has an owner and a sequence of fetches.
LEMMA PlanType ==
  ASSUME NEW q \in Queries, Plan[q] # Refused
  PROVE  /\ Plan[q].owner \in Owners
         /\ Fetches(q) \in Seq([schema : STRING, keys : SUBSET Keys])
         /\ Len(Fetches(q)) \in Nat
         /\ DOMAIN Fetches(q) = 1..Len(Fetches(q))
         /\ Reads(q) \subseteq Keys
<1>1. /\ Plan[q].owner \in Owners
      /\ Fetches(q) \in Seq([schema : STRING, keys : SUBSET Keys])
  BY ConstantsAssumption DEF ConstantsAssumption
<1>2. Len(Fetches(q)) \in Nat /\ DOMAIN Fetches(q) = 1..Len(Fetches(q))
  BY <1>1
<1>3. Reads(q) \subseteq Keys
  <2>1. SUFFICES ASSUME NEW i \in DOMAIN Fetches(q) PROVE Fetches(q)[i].keys \subseteq Keys
    BY DEF Reads
  <2>2. Fetches(q)[i] \in [schema : STRING, keys : SUBSET Keys]
    <3>1. i \in 1..Len(Fetches(q))
      BY <1>2
    <3> QED
      BY <1>1, <3>1, ElementOfSeq
  <2> QED
    BY <2>2
<1> QED
  BY <1>1, <1>2, <1>3

(***************************************************************************)
(* The invariant implies the release rule.                                 *)
(***************************************************************************)
\* What was fetched lies in the fields of the query, which were checked.
LEMMA IInvReleases == IInv => ReleasedWithinRequest
<1> DEFINE Begun(r) == {j \in DOMAIN task[r].outcome : task[r].outcome[j] # "none"}
<1> DEFINE Fetched(r) == UNION {Fetches(task[r].query)[i].keys : i \in Begun(r)}
<1> SUFFICES ASSUME IInv, NEW r \in Requests
             PROVE  /\ Fetched(r) \subseteq task[r].granted
                    /\ Fetched(r) \cap ConsentKeys \subseteq task[r].agreed
  BY DEF ReleasedWithinRequest
<1>0. task[r] \in Task /\ Formed(task[r]) /\ Checked(task[r])
  BY DEF IInv, RequestsOK
<1>1. CASE task[r].at \in {"launch", "write"}
  <2>1. Busy(task[r])
    BY <1>1 DEF Busy
  <2>2. /\ task[r].query \in Queries /\ Plan[task[r].query] # Refused
        /\ Len(task[r].outcome) = Len(Fetches(task[r].query))
    BY <2>1, <1>0 DEF Formed
  <2>3. DOMAIN Fetches(task[r].query) = 1..Len(Fetches(task[r].query))
    BY <2>2, PlanType
  <2>4. task[r].outcome \in Seq(Outcomes \cup {"none", "flying"})
    BY <1>0 DEF Task
  <2>5. DOMAIN task[r].outcome = DOMAIN Fetches(task[r].query)
    BY <2>2, <2>3, <2>4
  <2>6. Fetched(r) \subseteq NeedsIn(task[r])
    BY <2>5 DEF NeedsIn, Reads
  <2>7. /\ NeedsIn(task[r]) \subseteq task[r].granted
        /\ NeedsIn(task[r]) \cap ConsentKeys \subseteq task[r].agreed
    BY <1>0, <1>1 DEF Checked
  <2> QED
    BY <2>6, <2>7
<1>2. CASE task[r].at \notin {"launch", "write"}
  <2>1. CASE Busy(task[r])
    <3>1. task[r].at \in {"policy", "consent"}
      BY <2>1, <1>2 DEF Busy
    <3>2. \A i \in DOMAIN task[r].outcome : task[r].outcome[i] = "none"
      BY <3>1, <1>0 DEF Checked
    <3>3. Begun(r) = {}
      BY <3>2
    <3> HIDE DEF Begun
    <3> QED
      BY <3>3
  <2>2. CASE ~Busy(task[r])
    <3>1. task[r].outcome = <<>>
      BY <2>2, <1>0 DEF Checked
    <3>2. DOMAIN task[r].outcome = {}
      BY <3>1
    <3>3. Begun(r) = {}
      BY <3>2
    <3> HIDE DEF Begun
    <3> QED
      BY <3>3
  <2> QED
    BY <2>1, <2>2
<1> QED
  BY <1>1, <1>2

(***************************************************************************)
(* Services that start empty, and requests that have not come in.          *)
(***************************************************************************)
\* A request that has not come in, is answered, or is lost.
LEMMA BlankRecord ==
  ASSUME NEW at \in {"idle", "done", "lost"}
  PROVE  LET t == Blank(at) IN t \in Task /\ Formed(t) /\ Noted(t) /\ Checked(t)
<1>1. Blank(at) \in Task
  BY DEF Blank, Task
<1>2. ~Busy(Blank(at)) /\ Blank(at).outcome = <<>> /\ Blank(at).at = at
  BY DEF Busy, Blank
<1> QED
  BY <1>1, <1>2 DEF Formed, Noted, Checked

\* The invariant holds at first.
LEMMA InitInv == Init => IInv
<1> SUFFICES ASSUME Init PROVE IInv
  OBVIOUS
<1>1. lists \in [Keys -> Grants!AllowList \cup {Nil}]
  BY DEF Init, Grants!Empty, Grants!AllowList, Grants!Entry
<1>2. Ledger!TypeOK
  BY DEF Init, Ledger!Init, Ledger!TypeOK, NoParty
<1>3. ServicesOK
  BY <1>1, <1>2 DEF Init, ServicesOK
<1>4. RequestsOK
  BY BlankRecord DEF Init, RequestsOK
<1> QED
  BY <1>3, <1>4 DEF IInv

(***************************************************************************)
(* A step that grants nothing and approves nothing: it is enough that each *)
(* request is right by what is granted and agreed to before the step.      *)
(***************************************************************************)
NothingWon ==
    /\ \A app \in Apps : Granted(app)' \subseteq Granted(app)
    /\ \A p \in Owners \X Apps : Agreed(p)' \subseteq Agreed(p)

\* The invariant after such a step.
LEMMA Shrinking ==
  ASSUME ServicesOK', NothingWon,
         task' \in [Requests -> Task],
         \A r \in Requests :
            Formed(task'[r]) /\ Noted(task'[r]) /\ Checked(task'[r])
  PROVE  IInv'
<1>1. ASSUME NEW r \in Requests PROVE Formed(task[r])' /\ Checked(task[r])'
  BY <1>1 DEF Formed, Checked, Busy, NeedsIn
<1>2. ASSUME NEW r \in Requests PROVE Noted(task[r])'
  <2> SUFFICES ASSUME Busy(task[r])'
               PROVE  /\ (Granted(task[r].app) \subseteq task[r].granted)'
                      /\ (Agreed(PartyIn(task[r])) \subseteq task[r].agreed)'
    BY DEF Noted
  <2>0. Busy(task'[r])
    BY DEF Busy
  <2>1. task'[r].app \in Apps /\ task'[r].query \in Queries /\ Plan[task'[r].query] # Refused
    BY <2>0 DEF Formed
  <2>2. PartyIn(task'[r]) \in Owners \X Apps
    BY <2>1, PlanType DEF PartyIn
  <2>3. /\ Granted(task'[r].app) \subseteq task'[r].granted
        /\ Agreed(PartyIn(task'[r])) \subseteq task'[r].agreed
    BY <2>0 DEF Noted
  <2>4. (Granted(task[r].app) \subseteq task[r].granted)'
    BY <2>1, <2>3 DEF NothingWon, Granted
  <2>5. (Agreed(PartyIn(task[r])) \subseteq task[r].agreed)'
    BY <2>2, <2>3 DEF NothingWon, Agreed, PartyIn
  <2> QED
    BY <2>4, <2>5
<1> QED
  BY <1>1, <1>2 DEF IInv, RequestsOK

\* A request takes a turn: its record becomes t.
LEMMA Turn ==
  ASSUME IInv, ServicesOK', NothingWon,
         NEW r \in Requests, NEW t \in Task, Put(r, t),
         Formed(t), Noted(t), Checked(t)
  PROVE  IInv'
<1>1. task \in [Requests -> Task] /\ task' = [task EXCEPT ![r] = t]
  BY DEF IInv, RequestsOK, Put
<1>2. task' \in [Requests -> Task]
  BY <1>1
<1>3. ASSUME NEW s \in Requests
      PROVE  Formed(task'[s]) /\ Noted(task'[s]) /\ Checked(task'[s])
  <2>1. CASE s = r
    BY <1>1, <2>1
  <2>2. CASE s # r
    <3>1. task'[s] = task[s]
      BY <1>1, <2>2
    <3> QED
      BY <3>1 DEF IInv, RequestsOK
  <2> QED
    BY <2>1, <2>2
<1> QED
  BY <1>2, <1>3, Shrinking

\* The services stay as they are.
LEMMA Untouched ==
  ASSUME IInv, UNCHANGED services
  PROVE  ServicesOK' /\ NothingWon
<1> USE DEF services
<1>1. ServicesOK'
  BY DEF IInv, ServicesOK, Ledger!TypeOK
<1>2. NothingWon
  BY DEF NothingWon, Granted, Agreed
<1> QED
  BY <1>1, <1>2

\* A turn of a request that calls nobody.
LEMMA QuietTurn ==
  ASSUME IInv, UNCHANGED services,
         NEW r \in Requests, NEW t \in Task, Put(r, t),
         Formed(t), Noted(t), Checked(t)
  PROVE  IInv'
BY Untouched, Turn

\* A request ends.
LEMMA EndInv ==
  ASSUME IInv, ServicesOK', NothingWon, NEW r \in Requests, Put(r, Blank("done"))
  PROVE  IInv'
BY BlankRecord, Turn

(***************************************************************************)
(* The turns of a request.                                                 *)
(***************************************************************************)
\* It is answered.
LEMMA FinishInv ==
  ASSUME IInv, NEW r \in Requests, Finish(r)
  PROVE  IInv'
BY Untouched, EndInv DEF Finish

\* Granted and Agreed are sets of fields.
LEMMA WonAreKeys ==
  ASSUME IInv
  PROVE  /\ \A app : Granted(app) \subseteq Keys
         /\ \A p : Agreed(p) \subseteq Keys
<1>1. \A app : Granted(app) \subseteq Keys
  BY DEF Granted
<1>2. \A i \in ConsentIDs : covers[i] \subseteq Keys
  BY DEF IInv, ServicesOK
<1>3. \A p : Agreed(p) \subseteq Keys
  BY <1>2 DEF Agreed
<1> QED
  BY <1>1, <1>3

\* What is granted and agreed to when the request comes in is noted.
LEMMA ReceiveInv ==
  ASSUME IInv, NEW r \in Requests, NEW app \in Apps, NEW q \in QueriesOf[r],
         Receive(r, app, q)
  PROVE  IInv'
<1>1. CASE Plan[q] = Refused
  BY <1>1, Untouched, EndInv DEF Receive
<1>2. CASE Plan[q] # Refused
  <2> DEFINE t == [Blank("policy") EXCEPT
                      !.app = app, !.query = q,
                      !.outcome = [i \in DOMAIN Fetches(q) |-> "none"],
                      !.granted = Granted(app),
                      !.agreed = Agreed(<<Plan[q].owner, app>>)]
  <2>1. q \in Queries
    BY ConstantsAssumption DEF ConstantsAssumption
  <2>2. /\ Len(Fetches(q)) \in Nat
        /\ DOMAIN Fetches(q) = 1..Len(Fetches(q))
    BY <1>2, <2>1, PlanType
  <2>3. /\ t.at = "policy" /\ t.app = app /\ t.query = q /\ t.passed = {}
        /\ t.next = 1 /\ t.granted = Granted(app)
        /\ t.agreed = Agreed(<<Plan[q].owner, app>>)
        /\ t.outcome = [i \in DOMAIN Fetches(q) |-> "none"]
    BY DEF Blank
  <2>4. /\ t.outcome \in Seq(Outcomes \cup {"none", "flying"})
        /\ Len(t.outcome) = Len(Fetches(q))
        /\ \A i \in DOMAIN t.outcome : t.outcome[i] = "none"
    BY <2>2, <2>3
  <2>5. t \in Task
    BY <2>1, <2>4, WonAreKeys DEF Task, Blank
  <2>6. Formed(t)
    <3>1. Len(t.outcome) \in Nat /\ 1 \in 1..(Len(t.outcome) + 1)
      BY <2>2, <2>4
    <3> QED
      BY <1>2, <2>1, <2>3, <2>4, <3>1 DEF Formed
  <2>7. Noted(t) /\ Checked(t)
    BY <2>3, <2>4 DEF Noted, Checked, PartyIn, Busy
  <2>8. Put(r, t) /\ UNCHANGED services
    BY <1>2 DEF Receive
  <2> HIDE DEF t
  <2> QED
    BY <2>5, <2>6, <2>7, <2>8, QuietTurn
<1> QED
  BY <1>1, <1>2

\* The last field that passes makes all of them granted.
LEMMA PermitInv ==
  ASSUME IInv, NEW r \in Requests, NEW k \in Keys, Permit(r, k)
  PROVE  IInv'
<1> DEFINE passed == task[r].passed \cup {k}
<1> DEFINE at == IF NeedsIn(task[r]) \cap ConsentKeys = {} THEN "launch" ELSE "consent"
<1> DEFINE t == IF passed # NeedsIn(task[r]) THEN [task[r] EXCEPT !.passed = passed]
                ELSE [task[r] EXCEPT !.passed = {}, !.at = at]
<1>1. /\ task[r] \in Task /\ task[r].at = "policy"
      /\ Formed(task[r]) /\ Noted(task[r]) /\ Checked(task[r])
  BY DEF IInv, RequestsOK, Permit
<1>2. Put(r, t) /\ UNCHANGED services
  BY DEF Permit, Needs, NeedsIn
<1>3. passed \subseteq task[r].granted
  <2>1. k \in Granted(task[r].app)
    BY DEF Permit
  <2>2. Granted(task[r].app) \subseteq task[r].granted
    BY <1>1 DEF Noted, Busy
  <2> QED
    BY <1>1, <2>1, <2>2 DEF Checked
<1>4. t \in Task
  BY <1>1 DEF Task
<1>5. /\ t.at \in {"policy", "consent", "launch"}
      /\ t.app = task[r].app /\ t.query = task[r].query
      /\ t.next = task[r].next /\ t.outcome = task[r].outcome
      /\ t.granted = task[r].granted /\ t.agreed = task[r].agreed
  BY <1>1 DEF Task
<1>6. Formed(t) /\ Noted(t)
  BY <1>1, <1>5 DEF Formed, Noted, Busy, PartyIn
<1>7. Checked(t)
  <2>1. \A i \in DOMAIN task[r].outcome : task[r].outcome[i] = "none"
    BY <1>1 DEF Checked
  <2>2. CASE passed # NeedsIn(task[r])
    <3>1. t.at = "policy" /\ t.passed = passed
      BY <1>1, <2>2 DEF Task
    <3> QED
      BY <1>3, <1>5, <2>1, <3>1 DEF Checked, Busy
  <2>3. CASE passed = NeedsIn(task[r])
    <3>1. t.at = at
      BY <1>1, <2>3 DEF Task
    <3>2. NeedsIn(t) = NeedsIn(task[r])
      BY <1>5 DEF NeedsIn
    <3>3. NeedsIn(t) \subseteq t.granted
      BY <1>3, <1>5, <2>3, <3>2
    <3>4. t.at \in {"launch", "write"} => NeedsIn(t) \cap ConsentKeys = {}
      <4> HIDE DEF t
      <4>1. t.at = "launch" => NeedsIn(task[r]) \cap ConsentKeys = {}
        BY <3>1
      <4>2. t.at # "write"
        BY <3>1
      <4> QED
        BY <3>2, <4>1, <4>2
    <3>5. t.at \in {"policy", "consent"} => \A i \in DOMAIN t.outcome : t.outcome[i] = "none"
      BY <1>5, <2>1
    <3>6. t.at # "policy" /\ Busy(t)
      BY <3>1 DEF Busy
    <3> QED
      BY <3>3, <3>4, <3>5, <3>6 DEF Checked
  <2> QED
    BY <2>2, <2>3
<1> HIDE DEF t
<1> QED
  BY <1>2, <1>4, <1>6, <1>7, QuietTurn

(***************************************************************************)
(* The answer of the consent engine, whatever it did to its ledger.        *)
(***************************************************************************)
\* Only an answer "approved" lets the query pass.
LEMMA ConsentedInv ==
  ASSUME IInv, ServicesOK', NothingWon, NEW r \in Requests, NEW answer,
         task[r].at = "consent", Consented(r, answer),
         answer = "approved" => Asked(r) \subseteq task[r].agreed
  PROVE  IInv'
<1> DEFINE t == [task[r] EXCEPT !.at = "launch"]
<1>1. CASE Put(r, Blank("done"))
  BY <1>1, EndInv
<1>2. CASE answer = "approved" /\ Put(r, t)
  <2>1. task[r] \in Task /\ Formed(task[r]) /\ Noted(task[r]) /\ Checked(task[r])
    BY DEF IInv, RequestsOK
  <2>2. /\ t \in Task /\ t.at = "launch"
        /\ t.app = task[r].app /\ t.query = task[r].query
        /\ t.next = task[r].next /\ t.outcome = task[r].outcome
        /\ t.granted = task[r].granted /\ t.agreed = task[r].agreed
    BY <2>1 DEF Task
  <2> HIDE DEF t
  <2>3. Formed(t) /\ Noted(t)
    BY <2>1, <2>2 DEF Formed, Noted, Busy, PartyIn
  <2>4. NeedsIn(t) \subseteq t.granted
    BY <2>1, <2>2 DEF Checked, NeedsIn
  <2>5. NeedsIn(t) \cap ConsentKeys \subseteq t.agreed
    BY <1>2, <2>2 DEF Asked, Needs, NeedsIn
  <2>6. Checked(t)
    BY <2>2, <2>4, <2>5 DEF Checked, Busy
  <2> QED
    BY <1>2, <2>2, <2>3, <2>6, Turn
<1> QED
  BY <1>1, <1>2 DEF Consented, Move

\* The consent there is for these fields is the one that counts.
LEMMA ReuseInv ==
  ASSUME IInv, NEW r \in Requests, NEW i \in ConsentIDs, Reuse(r, i)
  PROVE  IInv'
<1>1. task[r].at = "consent" /\ Consented(r, status[i]) /\ UNCHANGED services
  BY DEF Reuse
<1>2. ASSUME status[i] = "approved" PROVE Asked(r) \subseteq task[r].agreed
  <2>1. party[i] = PartyOf(r) /\ covers[i] = Asked(r)
    BY DEF Reuse, Current
  <2>2. covers[i] \subseteq Agreed(PartyOf(r))
    BY <1>2, <2>1 DEF Agreed
  <2>3. Agreed(PartyOf(r)) \subseteq task[r].agreed
    BY <1>1 DEF IInv, RequestsOK, Noted, Busy, PartyIn, PartyOf
  <2> QED
    BY <2>1, <2>2, <2>3
<1> QED
  BY <1>1, <1>2, Untouched, ConsentedInv

\* Whatever else happens to the ledger, nothing counts that did not before.
LEMMA NoneApproved ==
  ASSUME \A j \in ConsentIDs : status'[j] = "approved" =>
            status[j] = "approved" /\ party'[j] = party[j] /\ covers'[j] = covers[j]
  PROVE  \A p : Agreed(p)' \subseteq Agreed(p)
BY DEF Agreed

\* A new consent is pending, so the request ends.
LEMMA RequestInv ==
  ASSUME IInv, NEW r \in Requests, NEW i \in ConsentIDs, Request(r, i)
  PROVE  IInv'
<1>1. /\ task[r].at = "consent" /\ Consented(r, "pending")
      /\ covers' = [covers EXCEPT ![i] = Asked(r)] /\ UNCHANGED <<now, lists>>
  BY DEF Request
<1>2. ServicesOK
  BY DEF IInv
<1>3. PartyOf(r) \in Owners \X Apps /\ Asked(r) \subseteq Keys
  <2>1. task[r].app \in Apps /\ task[r].query \in Queries /\ Plan[task[r].query] # Refused
    BY <1>1 DEF IInv, RequestsOK, Formed, Busy
  <2> QED
    BY <2>1, PlanType DEF PartyOf, Asked, Needs
<1>4. covers' \in [ConsentIDs -> SUBSET Keys]
  BY <1>1, <1>2, <1>3 DEF ServicesOK
<1> DEFINE Fine == /\ Ledger!TypeOK'
                   /\ \A j \in ConsentIDs : status'[j] = "approved" =>
                         status[j] = "approved" /\ party'[j] = party[j] /\ covers'[j] = covers[j]
<1>5. ASSUME Ledger!Open(i, PartyOf(r)) PROVE Fine
  <2>1. /\ status' = [status EXCEPT ![i] = "pending"]
        /\ party' = [party EXCEPT ![i] = PartyOf(r)]
    BY <1>5 DEF Ledger!Open
  <2>2. Ledger!TypeOK'
    BY <1>2, <1>3, <2>1 DEF ServicesOK, Ledger!TypeOK, Ledger!Active
  <2>3. Fine
    BY <1>1, <1>2, <2>1, <2>2 DEF ServicesOK, Ledger!TypeOK
  <2> QED
    BY <2>3
<1>6. ASSUME NEW j \in ConsentIDs, Ledger!Replace(j, i) PROVE Fine
  <2>1. /\ status' = [status EXCEPT ![j] = "revoked", ![i] = "pending"]
        /\ party' = [party EXCEPT ![i] = party[j]]
    BY <1>6 DEF Ledger!Replace
  <2>2. /\ status \in [ConsentIDs -> {"none"} \cup Ledger!Active \cup Ledger!Terminal]
        /\ party \in [ConsentIDs -> (Owners \X Apps) \cup {NoParty}]
        /\ covers \in [ConsentIDs -> SUBSET Keys]
    BY <1>2 DEF ServicesOK, Ledger!TypeOK
  <2>3. Ledger!TypeOK'
    <3>1. status' \in [ConsentIDs -> {"none"} \cup Ledger!Active \cup Ledger!Terminal]
      BY <2>1, <2>2 DEF Ledger!Active, Ledger!Terminal
    <3>2. party' \in [ConsentIDs -> (Owners \X Apps) \cup {NoParty}]
      BY <2>1, <2>2
    <3> QED
      BY <3>1, <3>2 DEF Ledger!TypeOK, Ledger!Active, Ledger!Terminal
  <2>4. status'[i] = "pending" /\ "pending" # "approved"
    BY <2>1, <2>2
  <2>5. ASSUME NEW k \in ConsentIDs, k # i, status'[k] = "approved"
        PROVE  status[k] = "approved" /\ party'[k] = party[k] /\ covers'[k] = covers[k]
    <3>1. k # j
      BY <2>1, <2>2, <2>5
    <3> QED
      BY <1>1, <2>1, <2>2, <2>5, <3>1
  <2> QED
    BY <2>3, <2>4, <2>5
<1>7. Fine
  <2> HIDE DEF Fine
  <2>1. CASE \E j \in Current(r) : Ledger!Replace(j, i)
    BY <1>6, <2>1 DEF Current
  <2> QED
    BY <1>5, <2>1 DEF Request
<1>8. ServicesOK'
  <2>1. now' = now /\ lists' = lists
    BY <1>1
  <2> QED
    BY <1>2, <1>4, <1>7, <2>1 DEF ServicesOK
<1>9. NothingWon
  <2>1. \A app \in Apps : Granted(app)' \subseteq Granted(app)
    BY <1>1 DEF Granted
  <2> QED
    BY <1>7, <2>1, NoneApproved DEF NothingWon
<1> QED
  BY <1>1, <1>8, <1>9, ConsentedInv

(***************************************************************************)
(* Fetching: the checks are behind the request, and what they found stays. *)
(***************************************************************************)
\* A turn that changes only where the launching loop and the fetches are.
LEMMA FetchTurn ==
  ASSUME IInv, UNCHANGED services, NEW r \in Requests, NEW t \in Task, Put(r, t),
         task[r].at \in {"launch", "write"}, t.at \in {"launch", "write"},
         t.app = task[r].app, t.query = task[r].query,
         t.granted = task[r].granted, t.agreed = task[r].agreed,
         Len(t.outcome) = Len(task[r].outcome),
         t.next \in 1..(Len(t.outcome) + 1),
         t.at = "write" => t.next \in DOMAIN t.outcome
  PROVE  IInv'
<1>1. Formed(task[r]) /\ Noted(task[r]) /\ Checked(task[r])
  BY DEF IInv, RequestsOK
<1>2. Formed(t) /\ Noted(t)
  BY <1>1 DEF Formed, Noted, Busy, PartyIn
<1>3. Checked(t)
  BY <1>1 DEF Checked, Busy, NeedsIn
<1> QED
  BY <1>2, <1>3, QuietTurn

\* What is known of the record of a request that is fetching.
LEMMA FetchingType ==
  ASSUME IInv, NEW r \in Requests, task[r].at \in {"launch", "write"}
  PROVE  /\ task[r] \in Task
         /\ task[r].outcome \in Seq(Outcomes \cup {"none", "flying"})
         /\ Len(task[r].outcome) \in Nat
         /\ DOMAIN task[r].outcome = 1..Len(task[r].outcome)
         /\ FetchCount(r) = Len(task[r].outcome)
         /\ task[r].next \in 1..(Len(task[r].outcome) + 1)
         /\ task[r].at = "write" => task[r].next \in DOMAIN task[r].outcome
<1>1. task[r] \in Task /\ Formed(task[r])
  BY DEF IInv, RequestsOK
<1>2. task[r].outcome \in Seq(Outcomes \cup {"none", "flying"})
  BY <1>1 DEF Task
<1>3. /\ Len(task[r].outcome) \in Nat
      /\ DOMAIN task[r].outcome = 1..Len(task[r].outcome)
  BY <1>2
<1> QED
  BY <1>1, <1>2, <1>3 DEF Formed, Busy, FetchCount

\* An entry of a sequence is written.
LEMMA EntryWritten ==
  ASSUME NEW S, NEW s \in Seq(S), NEW i \in DOMAIN s, NEW o \in S
  PROVE  [s EXCEPT ![i] = o] \in Seq(S) /\ Len([s EXCEPT ![i] = o]) = Len(s)
BY ExceptSeq

\* A goroutine is launched.
LEMMA LaunchInv ==
  ASSUME IInv, NEW r \in Requests, Launch(r)
  PROVE  IInv'
<1> DEFINE n == task[r].next
<1> DEFINE t == [task[r] EXCEPT !.outcome[n] = "flying", !.next = @ + 1]
<1>1. /\ task[r].at = "launch" /\ n <= FetchCount(r)
      /\ Put(r, t) /\ UNCHANGED services
  BY DEF Launch
<1>2. /\ task[r] \in Task
      /\ task[r].outcome \in Seq(Outcomes \cup {"none", "flying"})
      /\ Len(task[r].outcome) \in Nat /\ n \in 1..(Len(task[r].outcome) + 1)
      /\ FetchCount(r) = Len(task[r].outcome)
      /\ DOMAIN task[r].outcome = 1..Len(task[r].outcome)
  BY <1>1, FetchingType
<1>3. n \in DOMAIN task[r].outcome /\ n + 1 \in 1..(Len(task[r].outcome) + 1) /\ n + 1 \in Nat
  BY <1>1, <1>2
<1>4. /\ [task[r].outcome EXCEPT ![n] = "flying"] \in Seq(Outcomes \cup {"none", "flying"})
      /\ Len([task[r].outcome EXCEPT ![n] = "flying"]) = Len(task[r].outcome)
  BY <1>2, <1>3, EntryWritten
<1>5. t = [task[r] EXCEPT !.outcome = [task[r].outcome EXCEPT ![n] = "flying"], !.next = n + 1]
  BY <1>2 DEF Task
<1>6. /\ t \in Task /\ t.at = "launch" /\ t.app = task[r].app /\ t.query = task[r].query
      /\ t.granted = task[r].granted /\ t.agreed = task[r].agreed
      /\ t.outcome = [task[r].outcome EXCEPT ![n] = "flying"] /\ t.next = n + 1
  BY <1>1, <1>2, <1>3, <1>4, <1>5 DEF Task
<1> HIDE DEF t
<1> QED
  BY <1>1, <1>3, <1>4, <1>6, FetchTurn

\* The launching loop begins to write the map.
LEMMA StartWriteInv ==
  ASSUME IInv, NEW r \in Requests, StartWrite(r)
  PROVE  IInv'
<1> DEFINE t == [task[r] EXCEPT !.at = "write"]
<1>1. /\ task[r].at = "launch" /\ task[r].next <= FetchCount(r)
      /\ Put(r, t) /\ UNCHANGED services
  BY DEF StartWrite, Move
<1>2. /\ task[r] \in Task /\ Len(task[r].outcome) \in Nat
      /\ task[r].next \in 1..(Len(task[r].outcome) + 1)
      /\ FetchCount(r) = Len(task[r].outcome)
      /\ DOMAIN task[r].outcome = 1..Len(task[r].outcome)
  BY <1>1, FetchingType
<1>3. task[r].next \in DOMAIN task[r].outcome
  BY <1>1, <1>2
<1>4. /\ t \in Task /\ t.at = "write" /\ t.app = task[r].app /\ t.query = task[r].query
      /\ t.granted = task[r].granted /\ t.agreed = task[r].agreed
      /\ t.outcome = task[r].outcome /\ t.next = task[r].next
  BY <1>2 DEF Task
<1> HIDE DEF t
<1> QED
  BY <1>1, <1>2, <1>3, <1>4, FetchTurn

\* The launching loop has written the map.
LEMMA EndWriteInv ==
  ASSUME IInv, NEW r \in Requests, EndWrite(r)
  PROVE  IInv'
<1> DEFINE n == task[r].next
<1> DEFINE t == [task[r] EXCEPT !.at = "launch", !.outcome[n] = "failed", !.next = @ + 1]
<1>1. task[r].at = "write" /\ Put(r, t) /\ UNCHANGED services
  BY DEF EndWrite
<1>2. /\ task[r] \in Task
      /\ task[r].outcome \in Seq(Outcomes \cup {"none", "flying"})
      /\ Len(task[r].outcome) \in Nat /\ n \in DOMAIN task[r].outcome
      /\ DOMAIN task[r].outcome = 1..Len(task[r].outcome)
  BY <1>1, FetchingType
<1>3. n + 1 \in 1..(Len(task[r].outcome) + 1) /\ n + 1 \in Nat
  BY <1>2
<1>4. /\ [task[r].outcome EXCEPT ![n] = "failed"] \in Seq(Outcomes \cup {"none", "flying"})
      /\ Len([task[r].outcome EXCEPT ![n] = "failed"]) = Len(task[r].outcome)
  BY <1>2, EntryWritten DEF Outcomes
<1>5. t = [task[r] EXCEPT !.at = "launch", !.outcome = [task[r].outcome EXCEPT ![n] = "failed"],
                          !.next = n + 1]
  BY <1>2 DEF Task
<1>6. /\ t \in Task /\ t.at = "launch" /\ t.app = task[r].app /\ t.query = task[r].query
      /\ t.granted = task[r].granted /\ t.agreed = task[r].agreed
      /\ t.outcome = [task[r].outcome EXCEPT ![n] = "failed"] /\ t.next = n + 1
  BY <1>2, <1>3, <1>4, <1>5 DEF Task
<1> HIDE DEF t
<1> QED
  BY <1>1, <1>3, <1>4, <1>6, FetchTurn

\* A goroutine writes what became of its fetch.
LEMMA StoreInv ==
  ASSUME IInv, NEW r \in Requests, NEW i \in DOMAIN task[r].outcome, NEW o \in Outcomes,
         Store(r, i, o)
  PROVE  IInv'
<1> DEFINE t == [task[r] EXCEPT !.outcome[i] = o]
<1>1. task[r].at \in {"launch", "write"} /\ Put(r, t) /\ UNCHANGED services
  BY DEF Store
<1>2. /\ task[r] \in Task
      /\ task[r].outcome \in Seq(Outcomes \cup {"none", "flying"})
      /\ task[r].next \in 1..(Len(task[r].outcome) + 1)
      /\ task[r].at = "write" => task[r].next \in DOMAIN task[r].outcome
  BY <1>1, FetchingType
<1>3. /\ [task[r].outcome EXCEPT ![i] = o] \in Seq(Outcomes \cup {"none", "flying"})
      /\ Len([task[r].outcome EXCEPT ![i] = o]) = Len(task[r].outcome)
  BY <1>2, EntryWritten
<1>4. t = [task[r] EXCEPT !.outcome = [task[r].outcome EXCEPT ![i] = o]]
  BY <1>2 DEF Task
<1>5. /\ t \in Task /\ t.at = task[r].at /\ t.app = task[r].app /\ t.query = task[r].query
      /\ t.granted = task[r].granted /\ t.agreed = task[r].agreed
      /\ t.outcome = [task[r].outcome EXCEPT ![i] = o] /\ t.next = task[r].next
  BY <1>2, <1>3, <1>4 DEF Task
<1>6. DOMAIN [task[r].outcome EXCEPT ![i] = o] = DOMAIN task[r].outcome
  OBVIOUS
<1> HIDE DEF t
<1> QED
  BY <1>1, <1>2, <1>3, <1>5, <1>6, FetchTurn

\* Of every request nothing is left.
LEMMA CrashInv ==
  ASSUME IInv, NEW r \in Requests, NEW i \in DOMAIN task[r].outcome, Crash(r, i)
  PROVE  IInv'
<1>1. task \in [Requests -> Task]
  BY DEF IInv, RequestsOK
<1>2. /\ task' = [s \in Requests |-> IF Active(s) THEN Blank("lost") ELSE task[s]]
      /\ UNCHANGED services
  BY DEF Crash
<1>3. ASSUME NEW s \in Requests
      PROVE  task'[s] \in Task /\ Formed(task'[s]) /\ Noted(task'[s]) /\ Checked(task'[s])
  <2>1. CASE Active(s)
    BY <1>2, <2>1, BlankRecord
  <2>2. CASE ~Active(s)
    BY <1>2, <2>2 DEF IInv, RequestsOK
  <2> QED
    BY <2>1, <2>2
<1>4. task' \in [Requests -> Task]
  BY <1>2, <1>3
<1> QED
  BY <1>2, <1>3, <1>4, Untouched, Shrinking

(***************************************************************************)
(* Administrators, owners and time.                                        *)
(***************************************************************************)

\* A step that gains nothing and touches no request.
LEMMA Loss ==
  ASSUME IInv, ServicesOK', NothingWon, UNCHANGED task
  PROVE  IInv'
BY Shrinking DEF IInv, RequestsOK

\* A field is revoked.
LEMMA RevokeInv ==
  ASSUME IInv, NEW app \in Apps, NEW k \in Revocable, Revoke(app, k)
  PROVE  IInv'
<1>1. /\ lists[k] # Nil /\ lists' = [lists EXCEPT ![k][app] = Nil]
      /\ UNCHANGED <<now, consents, task>>
  BY DEF Revoke, Grants!Revoke, Grants!Known
<1>2. k \in Keys
  BY ConstantsAssumption DEF ConstantsAssumption
<1>3. lists \in [Keys -> Grants!AllowList \cup {Nil}]
  BY DEF IInv, ServicesOK
<1>4. lists' \in [Keys -> Grants!AllowList \cup {Nil}]
  <2>1. lists[k] \in Grants!AllowList
    BY <1>1, <1>2, <1>3
  <2>2. [lists[k] EXCEPT ![app] = Nil] \in Grants!AllowList
    BY <2>1 DEF Grants!AllowList, Grants!Entry
  <2> QED
    BY <1>1, <1>2, <1>3, <2>2
<1>5. ServicesOK'
  BY <1>1, <1>4 DEF IInv, ServicesOK, consents, Ledger!TypeOK
<1>6. NothingWon
  <2>1. \A a \in Apps : Granted(a)' \subseteq Granted(a)
    <3> SUFFICES ASSUME NEW a \in Apps, NEW j \in Granted(a)' PROVE j \in Granted(a)
      OBVIOUS
    <3>1. /\ j \in Keys /\ lists'[j] # Nil /\ lists'[j][a] # Nil /\ now <= lists'[j][a]
      BY <1>1 DEF Granted
    <3>2. CASE j # k
      BY <1>1, <1>3, <3>1, <3>2 DEF Granted
    <3>3. CASE j = k
      <4>1. lists'[k] = [lists[k] EXCEPT ![app] = Nil]
        BY <1>1, <1>2, <1>3
      <4>2. lists[k] \in [Apps -> Grants!Entry]
        BY <1>1, <1>2, <1>3 DEF Grants!AllowList
      <4>3. a # app
        BY <3>1, <3>3, <4>1, <4>2
      <4>4. lists'[k][a] = lists[k][a]
        BY <4>1, <4>2, <4>3
      <4> QED
        BY <1>1, <3>1, <3>3, <4>4 DEF Granted
    <3> QED
      BY <3>2, <3>3
  <2>2. \A p : Agreed(p)' \subseteq Agreed(p)
    BY <1>1 DEF Agreed, consents
  <2> QED
    BY <2>1, <2>2 DEF NothingWon
<1> QED
  BY <1>1, <1>5, <1>6, Loss

\* A consent is rejected, withdrawn or expires.
LEMMA WithholdInv ==
  ASSUME IInv, NEW i \in ConsentIDs, Withhold(i)
  PROVE  IInv'
<1>1. UNCHANGED <<now, lists, covers, task>> /\ UNCHANGED party
  BY DEF Withhold, Ledger!Reject, Ledger!Withdraw, Ledger!Lapse, Ledger!Move
<1>2. Ledger!TypeOK
  BY DEF IInv, ServicesOK
<1>3. \E s \in Ledger!Terminal : status' = [status EXCEPT ![i] = s]
  <2>1. CASE Ledger!Reject(i)
    BY <2>1 DEF Ledger!Reject, Ledger!Move, Ledger!Terminal
  <2>2. CASE Ledger!Withdraw(i)
    BY <2>2 DEF Ledger!Withdraw, Ledger!Move, Ledger!Terminal
  <2>3. CASE Ledger!Lapse({i})
    <3>1. status' = [j \in ConsentIDs |-> IF j \in {i} THEN "expired" ELSE status[j]]
      BY <2>3 DEF Ledger!Lapse
    <3>2. status \in [ConsentIDs -> {"none"} \cup Ledger!Active \cup Ledger!Terminal]
      BY <1>2 DEF Ledger!TypeOK
    <3>3. status' = [status EXCEPT ![i] = "expired"]
      BY <3>1, <3>2
    <3> QED
      BY <3>3 DEF Ledger!Terminal
  <2> QED
    BY <2>1, <2>2, <2>3 DEF Withhold
<1>4. PICK s \in Ledger!Terminal : status' = [status EXCEPT ![i] = s]
  BY <1>3
<1>5. s # "approved"
  BY DEF Ledger!Terminal
<1>6. Ledger!TypeOK'
  BY <1>1, <1>2, <1>4 DEF Ledger!TypeOK, Ledger!Terminal, Ledger!Active
<1>7. ServicesOK'
  BY <1>1, <1>6 DEF IInv, ServicesOK
<1>8. NothingWon
  <2>1. \A a \in Apps : Granted(a)' \subseteq Granted(a)
    BY <1>1 DEF Granted
  <2>2. \A j \in ConsentIDs : status'[j] = "approved" => status[j] = "approved"
    BY <1>2, <1>4, <1>5 DEF Ledger!TypeOK
  <2>3. \A p : Agreed(p)' \subseteq Agreed(p)
    BY <1>1, <2>2, NoneApproved
  <2> QED
    BY <2>1, <2>3 DEF NothingWon
<1> QED
  BY <1>1, <1>7, <1>8, Loss

\* Time passes and grants expire.
LEMMA TickInv ==
  ASSUME IInv, Tick
  PROVE  IInv'
<1>1. now \in Nat /\ now' = now + 1 /\ UNCHANGED <<lists, consents, task>>
  BY DEF IInv, ServicesOK, Tick
<1>2. ServicesOK'
  BY <1>1 DEF IInv, ServicesOK, consents, Ledger!TypeOK
<1>3. NothingWon
  <2>1. \A a \in Apps : Granted(a)' \subseteq Granted(a)
    <3> SUFFICES ASSUME NEW a \in Apps, NEW k \in Granted(a)' PROVE k \in Granted(a)
      OBVIOUS
    <3>1. k \in Keys /\ lists[k] # Nil /\ lists[k][a] # Nil /\ now + 1 <= lists[k][a]
      BY <1>1 DEF Granted
    <3>2. lists[k][a] \in Nat
      <4>1. lists[k] \in [Apps -> Expiries \cup {Nil}]
        BY <3>1 DEF IInv, ServicesOK, Grants!AllowList, Grants!Entry
      <4> QED
        BY <3>1, <4>1, ConstantsAssumption DEF ConstantsAssumption
    <3>3. now <= lists[k][a]
      BY <1>1, <3>1, <3>2
    <3> QED
      BY <3>1, <3>3 DEF Granted
  <2>2. \A p : Agreed(p)' \subseteq Agreed(p)
    BY <1>1 DEF Agreed, consents
  <2> QED
    BY <2>1, <2>2 DEF NothingWon
<1> QED
  BY <1>1, <1>2, <1>3, Loss

\* Noting more does no harm.
LEMMA Widened ==
  ASSUME NEW t \in Task, NEW u \in Task, Formed(t), Checked(t),
         u.at = t.at, u.app = t.app, u.query = t.query, u.passed = t.passed,
         u.next = t.next, u.outcome = t.outcome,
         t.granted \subseteq u.granted, t.agreed \subseteq u.agreed
  PROVE  Formed(u) /\ Checked(u) /\ Busy(u) = Busy(t) /\ PartyIn(u) = PartyIn(t)
<1>1. Formed(u) /\ Busy(u) = Busy(t) /\ PartyIn(u) = PartyIn(t)
  BY DEF Formed, Busy, PartyIn
<1>2. Checked(u)
  <2>1. NeedsIn(u) = NeedsIn(t) /\ Busy(u) = Busy(t)
    BY DEF NeedsIn, Busy
  <2> QED
    BY <2>1 DEF Checked
<1> QED
  BY <1>1, <1>2

\* Fields are granted: the requests of the application note it.
LEMMA GrantInv ==
  ASSUME IInv, NEW app \in Apps, NEW S \in GrantSets, NEW e \in Expiries, Grant(app, S, e)
  PROVE  IInv'
<1>1. /\ \A k \in S : lists[k] # Nil
      /\ lists' = [k \in Keys |-> IF k \in S THEN [lists[k] EXCEPT ![app] = e] ELSE lists[k]]
      /\ UNCHANGED <<now, consents>>
  BY DEF Grant, Grants!Grant, Grants!Known
<1>2. S \in SUBSET Keys
  BY ConstantsAssumption DEF ConstantsAssumption
<1>3. /\ lists \in [Keys -> Grants!AllowList \cup {Nil}]
      /\ task \in [Requests -> Task]
  BY DEF IInv, ServicesOK, RequestsOK
<1>4. ServicesOK'
  <2>1. ASSUME NEW k \in S PROVE [lists[k] EXCEPT ![app] = e] \in Grants!AllowList
    <3>1. lists[k] \in Grants!AllowList
      BY <1>1, <1>2, <1>3, <2>1
    <3> QED
      BY <3>1 DEF Grants!AllowList, Grants!Entry
  <2>2. lists' \in [Keys -> Grants!AllowList \cup {Nil}]
    BY <1>1, <1>3, <2>1
  <2> QED
    BY <1>1, <2>2 DEF IInv, ServicesOK, consents, Ledger!TypeOK
<1>5. ASSUME NEW r \in Requests PROVE (task[r] \in Task /\ Formed(task[r]) /\ Noted(task[r]) /\ Checked(task[r]))'
  <2> DEFINE G == IF Active(r) /\ task[r].app = app THEN S ELSE {}
  <2> DEFINE u == [task[r] EXCEPT !.granted = task[r].granted \cup G]
  <2>1. task[r] \in Task /\ Formed(task[r]) /\ Noted(task[r]) /\ Checked(task[r])
    BY DEF IInv, RequestsOK
  <2>2. task'[r] = u
    BY <2>1 DEF Grant, Task
  <2>3. /\ u \in Task /\ Formed(u) /\ Checked(u)
        /\ Busy(u) = Busy(task[r]) /\ u.app = task[r].app /\ PartyIn(u) = PartyIn(task[r])
        /\ u.granted = task[r].granted \cup G /\ u.agreed = task[r].agreed
    <3>1. G \in SUBSET Keys
      BY <1>2
    <3> HIDE DEF G
    <3>2. /\ u \in Task /\ u.at = task[r].at /\ u.app = task[r].app
          /\ u.query = task[r].query /\ u.passed = task[r].passed
          /\ u.next = task[r].next /\ u.outcome = task[r].outcome
          /\ u.granted = task[r].granted \cup G /\ u.agreed = task[r].agreed
      BY <2>1, <3>1 DEF Task
    <3> HIDE DEF u
    <3> QED
      BY <2>1, <3>2, Widened
  <2> HIDE DEF u
  <2>4. (task[r] \in Task /\ Formed(task[r]) /\ Checked(task[r]))'
    BY <2>2, <2>3 DEF Formed, Checked, Busy, NeedsIn
  <2>5. Noted(task[r])'
    <3> SUFFICES ASSUME Busy(task[r])'
                 PROVE  /\ (Granted(task[r].app) \subseteq task[r].granted)'
                        /\ (Agreed(PartyIn(task[r])) \subseteq task[r].agreed)'
      BY DEF Noted
    <3>1. Busy(task[r])
      BY <2>2, <2>3 DEF Busy
    <3>2. Granted(task[r].app) \subseteq task[r].granted /\ Agreed(PartyIn(task[r])) \subseteq task[r].agreed
      BY <2>1, <3>1 DEF Noted
    <3>3. (Agreed(PartyIn(task[r])))' = Agreed(PartyIn(task[r]))
      BY <1>1, <2>2, <2>3 DEF Agreed, consents, PartyIn
    <3>4. (Granted(task[r].app))' \subseteq Granted(task[r].app) \cup G
      <4>1. task'[r].app = task[r].app /\ task[r].app \in Apps
        BY <2>1, <2>2, <2>3, <3>1 DEF Formed
      <4> SUFFICES ASSUME NEW k \in Keys, lists'[k] # Nil, lists'[k][task[r].app] # Nil,
                          now <= lists'[k][task[r].app], k \notin G
                   PROVE  k \in Granted(task[r].app)
        BY <1>1, <4>1 DEF Granted
      <4>2. CASE k \notin S
        BY <1>1, <4>2 DEF Granted
      <4>3. CASE k \in S
        <5>1. task[r].app # app
          BY <3>1, <4>3 DEF Active, Busy
        <5>2. lists[k] \in [Apps -> Grants!Entry] /\ lists[k] # Nil
          BY <1>1, <1>3, <4>3 DEF Grants!AllowList
        <5>3. lists'[k] = [lists[k] EXCEPT ![app] = e]
          BY <1>1, <4>3
        <5>4. lists'[k][task[r].app] = lists[k][task[r].app]
          BY <4>1, <5>1, <5>2, <5>3
        <5> QED
          BY <5>2, <5>4 DEF Granted
      <4> QED
        BY <4>2, <4>3
    <3> QED
      BY <2>2, <2>3, <3>2, <3>3, <3>4
  <2> QED
    BY <2>4, <2>5
<1>6. task' \in [Requests -> Task]
  BY <1>5 DEF Grant
<1> QED
  BY <1>4, <1>5, <1>6 DEF IInv, RequestsOK

\* A consent is approved: the requests of its party note it.
LEMMA ApproveInv ==
  ASSUME IInv, NEW i \in ConsentIDs, Approve(i)
  PROVE  IInv'
<1>1. /\ status' = [status EXCEPT ![i] = "approved"]
      /\ UNCHANGED <<now, lists, covers>> /\ UNCHANGED party
  BY DEF Approve, Ledger!Approve, Ledger!Move
<1>2. /\ status \in [ConsentIDs -> {"none"} \cup Ledger!Active \cup Ledger!Terminal]
      /\ covers \in [ConsentIDs -> SUBSET Keys]
      /\ task \in [Requests -> Task]
  BY DEF IInv, ServicesOK, RequestsOK, Ledger!TypeOK
<1>3. ServicesOK'
  <2>1. Ledger!TypeOK'
    BY <1>1 DEF IInv, ServicesOK, Ledger!TypeOK, Ledger!Active, Ledger!Terminal
  <2> QED
    BY <1>1, <2>1 DEF IInv, ServicesOK
<1>4. ASSUME NEW r \in Requests PROVE (task[r] \in Task /\ Formed(task[r]) /\ Noted(task[r]) /\ Checked(task[r]))'
  <2> DEFINE A == IF Active(r) /\ PartyOf(r) = party[i] THEN covers[i] ELSE {}
  <2> DEFINE u == [task[r] EXCEPT !.agreed = task[r].agreed \cup A]
  <2>1. task[r] \in Task /\ Formed(task[r]) /\ Noted(task[r]) /\ Checked(task[r])
    BY DEF IInv, RequestsOK
  <2>2. task'[r] = u
    BY <2>1 DEF Approve, Task
  <2>3. /\ u \in Task /\ Formed(u) /\ Checked(u)
        /\ Busy(u) = Busy(task[r]) /\ u.app = task[r].app /\ PartyIn(u) = PartyIn(task[r])
        /\ u.granted = task[r].granted /\ u.agreed = task[r].agreed \cup A
    <3>1. A \in SUBSET Keys
      BY <1>2
    <3> HIDE DEF A
    <3>2. /\ u \in Task /\ u.at = task[r].at /\ u.app = task[r].app
          /\ u.query = task[r].query /\ u.passed = task[r].passed
          /\ u.next = task[r].next /\ u.outcome = task[r].outcome
          /\ u.granted = task[r].granted /\ u.agreed = task[r].agreed \cup A
      BY <2>1, <3>1 DEF Task
    <3> HIDE DEF u
    <3> QED
      BY <2>1, <3>2, Widened
  <2> HIDE DEF u
  <2>4. (task[r] \in Task /\ Formed(task[r]) /\ Checked(task[r]))'
    BY <2>2, <2>3 DEF Formed, Checked, Busy, NeedsIn
  <2>5. Noted(task[r])'
    <3> SUFFICES ASSUME Busy(task[r])'
                 PROVE  /\ (Granted(task[r].app) \subseteq task[r].granted)'
                        /\ (Agreed(PartyIn(task[r])) \subseteq task[r].agreed)'
      BY DEF Noted
    <3>1. Busy(task[r])
      BY <2>2, <2>3 DEF Busy
    <3>2. Granted(task[r].app) \subseteq task[r].granted /\ Agreed(PartyIn(task[r])) \subseteq task[r].agreed
      BY <2>1, <3>1 DEF Noted
    <3>3. (Granted(task[r].app))' = Granted(task[r].app)
      BY <1>1, <2>2, <2>3 DEF Granted
    <3>4. (Agreed(PartyIn(task[r])))' \subseteq Agreed(PartyIn(task[r])) \cup A
      <4>1. PartyIn(task'[r]) = PartyIn(task[r])
        BY <2>2, <2>3
      <4> SUFFICES ASSUME NEW j \in ConsentIDs, status'[j] = "approved",
                          party[j] = PartyIn(task[r]), NEW k \in covers[j]
                   PROVE  k \in Agreed(PartyIn(task[r])) \cup A
        BY <1>1, <4>1 DEF Agreed, PartyIn
      <4>2. CASE j = i
        BY <3>1, <4>2 DEF Active, Busy, PartyOf, PartyIn
      <4>3. CASE j # i
        <5>1. status[j] = "approved"
          BY <1>1, <1>2, <4>3
        <5> QED
          BY <5>1 DEF Agreed
      <4> QED
        BY <4>2, <4>3
    <3> QED
      BY <2>2, <2>3, <3>2, <3>3, <3>4
  <2> QED
    BY <2>4, <2>5
<1>5. task' \in [Requests -> Task]
  BY <1>4 DEF Approve
<1> QED
  BY <1>3, <1>4, <1>5 DEF IInv, RequestsOK

(***************************************************************************)
(* Every step preserves the invariant.                                     *)
(***************************************************************************)
\* The steps of execute.
LEMMA FetchingInv ==
  ASSUME IInv, NEW r \in Requests, Fetching(r)
  PROVE  IInv'
<1>1. CASE Launch(r) \/ StartWrite(r) \/ EndWrite(r)
  BY <1>1, LaunchInv, StartWriteInv, EndWriteInv
<1>2. ASSUME NEW i \in DOMAIN task[r].outcome, NEW o \in Outcomes, Store(r, i, o)
      PROVE  IInv'
  BY <1>2, StoreInv
<1>3. ASSUME NEW i \in DOMAIN task[r].outcome, Crash(r, i)
      PROVE  IInv'
  BY <1>3, CrashInv
<1> QED
  BY <1>1, <1>2, <1>3 DEF Fetching

\* The steps of a request.
LEMMA ServeInv ==
  ASSUME IInv, NEW r \in Requests, Serve(r)
  PROVE  IInv'
<1>1. CASE Deny(r) \/ Unasked(r) \/ Respond(r)
  BY <1>1, FinishInv DEF Deny, Unasked, Respond
<1>2. ASSUME NEW k \in Keys, Permit(r, k) PROVE IInv'
  BY <1>2, PermitInv
<1>3. ASSUME NEW i \in ConsentIDs, Reuse(r, i) \/ Request(r, i) PROVE IInv'
  BY <1>3, ReuseInv, RequestInv
<1>4. CASE Fetching(r)
  BY <1>4, FetchingInv
<1> QED
  BY <1>1, <1>2, <1>3, <1>4 DEF Serve

\* The steps of administrators, owners and time.
LEMMA EnvironmentInv ==
  ASSUME IInv, Environment
  PROVE  IInv'
<1>1. ASSUME NEW app \in Apps, NEW S \in GrantSets, NEW t \in Expiries, Grant(app, S, t)
      PROVE  IInv'
  BY <1>1, GrantInv
<1>2. ASSUME NEW app \in Apps, NEW k \in Revocable, Revoke(app, k) PROVE IInv'
  BY <1>2, RevokeInv
<1>3. ASSUME NEW i \in ConsentIDs, Approve(i) \/ Withhold(i) PROVE IInv'
  BY <1>3, ApproveInv, WithholdInv
<1>4. CASE Tick
  BY <1>4, TickInv
<1> QED
  BY <1>1, <1>2, <1>3, <1>4 DEF Environment

\* Nothing happens.
LEMMA StutterInv ==
  ASSUME IInv, UNCHANGED vars
  PROVE  IInv'
<1>1. UNCHANGED services /\ UNCHANGED task
  BY DEF vars, services
<1> QED
  BY <1>1, Untouched, Loss

\* Any step.
LEMMA StepInv == IInv /\ [Next]_vars => IInv'
<1> SUFFICES ASSUME IInv, [Next]_vars PROVE IInv'
  OBVIOUS
<1>1. CASE Environment
  BY <1>1, EnvironmentInv
<1>2. ASSUME NEW r \in Requests, NEW app \in Apps, NEW q \in QueriesOf[r], Receive(r, app, q)
      PROVE  IInv'
  BY <1>2, ReceiveInv
<1>3. ASSUME NEW r \in Requests, Serve(r) PROVE IInv'
  BY <1>3, ServeInv
<1>4. CASE UNCHANGED vars
  BY <1>4, StutterInv
<1> QED
  BY <1>1, <1>2, <1>3, <1>4 DEF Next

\* The inductive invariant holds in every state of the federator.
THEOREM Invariance == Spec => []IInv
<1>1. Init => IInv
  BY InitInv
<1>2. IInv /\ [Next]_vars => IInv'
  BY StepInv
<1> QED
  BY <1>1, <1>2, PTL DEF Spec

(***************************************************************************)
(* Requests, grants and consents are always well formed, for any plans.    *)
(***************************************************************************)
THEOREM TypeCorrect == Spec => []TypeOK
<1>1. IInv => TypeOK
  BY IInvType
<1> QED
  BY <1>1, Invariance, PTL

(***************************************************************************)
(* The release rule: the checks of access.go come before the fetches of    *)
(* execute.go, so whatever a provider is asked for was granted and, where  *)
(* required, agreed to at some moment since the request came in, whatever  *)
(* is revoked, withdrawn, replaced or expires meanwhile.                   *)
(***************************************************************************)
THEOREM ReleasedWithin == Spec => []ReleasedWithinRequest
<1>1. IInv => ReleasedWithinRequest
  BY IInvReleases
<1> QED
  BY <1>1, Invariance, PTL
=============================================================================
