-------------------------- MODULE ConversationsProofs --------------------------
(***************************************************************************)
(* The properties of Conversations for any number of users, requests,      *)
(* subthreads and snapshots, any limits and whatever the language model    *)
(* adds.  The point of the argument: a request stores one exchange, and    *)
(* what it has read is a record that is never changed or, of a subthread,  *)
(* only gains exchanges.                                                   *)
(***************************************************************************)
EXTENDS Conversations, SequenceTheorems, FiniteSetTheorems, TLAPS

Exchange == [by: Request, seen: Nat, createdAt: Nat, chars: Nat]

ThreadRecord ==
    [user: User, status: {"ACTIVE", "ARCHIVED", "DELETED"}, selection: Nat,
     context: Nat, messageCount: Nat, exchanges: Seq(Exchange)]

\* The transaction of a creation, and that of a continuation, commits.
Creates(r) == \E chars \in ExchangeChars : FinishCreate(r, chars)

Continues(r) == \E chars \in ExchangeChars : FinishContinue(r, chars)

\* Notes and evidence are whatever they are.
SnapshotRecord(x) ==
    [user: User, thread: Nat, parent: Nat, root: Nat, rev: Nat,
     notes: {x.notes}, evidence: {x.evidence}]

IsSequence(s) == s \in Seq({s[i] : i \in DOMAIN s})

SnapshotsType ==
    /\ IsSequence(snapshots)
    /\ \A s \in DOMAIN snapshots : snapshots[s] \in SnapshotRecord(snapshots[s])

RequestRecord(q) ==
    [phase: {"unsent", "asked", "storing", "stored", "based", "judged", "done", "failed"},
     op: {"none", "create", "continue", "evolve", "pin"},
     user: User \cup {"none"}, thread: Nat, seen: Nat, createdAt: Nat, snapshot: Nat,
     evidence: {q.evidence}, child: Nat]

RequestsType ==
    /\ DOMAIN req = Request
    /\ req = [r \in Request |-> req[r]]
    /\ \A r \in Request : req[r] \in RequestRecord(req[r])

TypeOK == threads \in Seq(ThreadRecord) /\ SnapshotsType /\ RequestsType

-----------------------------------------------------------------------------
(* What a request knows *)

\* The evidence was the end of the subthread's messages at some time.
StoodOnce(t, evidence) ==
    \E n \in 0..Len(threads[t].exchanges) :
        evidence = EvidenceOf(SubSeq(threads[t].exchanges, 1, n))

PhasesOf(op) ==
    CASE op = "none"     -> {"unsent"}
      [] op = "create"   -> {"asked", "storing", "stored", "done", "failed"}
      [] op = "continue" -> {"asked", "storing", "done", "failed"}
      [] op = "evolve"   -> {"asked", "done", "failed"}
      [] op = "pin"      -> {"based", "judged", "done", "failed"}

\* What it names is there, and it has an answer only when it is done.
Known(r) ==
    LET q == req[r] IN
    /\ q.phase \in PhasesOf(q.op)
    /\ q.op = "none" => q = Unsent
    /\ q.op # "none" => q.user \in User
    /\ q.op \in {"create", "continue", "pin"} => q.thread \in DOMAIN threads
    /\ q.op = "evolve" => q.thread = NoThread
    /\ q.op \in {"evolve", "pin"} => q.snapshot \in DOMAIN snapshots
    /\ q.child # NoSnapshot => q.phase = "done" /\ q.child \in DOMAIN snapshots

\* A pin is based on a snapshot of its user and its subthread.
PinIsBased(r) ==
    LET q == req[r] IN
    q.op = "pin" =>
        /\ threads[q.thread].user = q.user
        /\ snapshots[q.snapshot].user = q.user
        /\ snapshots[q.snapshot].thread = q.thread
        /\ q.phase \in {"judged", "done"} => StoodOnce(q.thread, q.evidence)
        /\ q.child # NoSnapshot =>
              /\ snapshots[q.child].user = q.user
              /\ snapshots[q.child].thread = q.thread
              /\ snapshots[q.child].notes = snapshots[q.snapshot].notes
              /\ snapshots[q.child].evidence = q.evidence

\* A subthread is created by one request.
CreatorIsOne ==
    \A q, r \in Request :
        req[q].op = "create" /\ req[r].op = "create" /\ req[q].thread = req[r].thread
            => q = r

\* An exchange was stored by a request that does not wait any more.
ExchangesAreStored ==
    \A t \in DOMAIN threads : \A i \in DOMAIN threads[t].exchanges :
        LET q == req[threads[t].exchanges[i].by] IN
        /\ q.thread = t
        /\ q.op \in {"create", "continue"}
        /\ q.phase \in {"stored", "done"}

ConversationsInv ==
    /\ TypeOK
    /\ \A r \in Request : Known(r) /\ PinIsBased(r)
    /\ CreatorIsOne
    /\ ExchangesAreStored
    /\ CountIsExact
    /\ LineageIsSound

-----------------------------------------------------------------------------
(* Sequences of records *)

\* A sequence with one more element, whatever the elements are.
LEMMA Appended ==
    ASSUME NEW s, IsSequence(s), NEW e
    PROVE  /\ IsSequence(Append(s, e))
           /\ Len(s) \in Nat
           /\ DOMAIN s = 1..Len(s)
           /\ Len(Append(s, e)) = Len(s) + 1
           /\ DOMAIN Append(s, e) = 1..(Len(s) + 1)
           /\ Append(s, e)[Len(s) + 1] = e
           /\ \A i \in DOMAIN s : Append(s, e)[i] = s[i]
<1> DEFINE S == {s[i] : i \in DOMAIN s} \cup {e}
<1> HIDE DEF S
<1>1. s \in Seq(S) /\ e \in S
    BY SeqMonotonic DEF S, IsSequence
<1>2. Append(s, e) \in Seq(S)
    BY <1>1
<1>3. /\ Len(s) \in Nat /\ DOMAIN s = 1..Len(s)
      /\ Len(Append(s, e)) = Len(s) + 1
      /\ DOMAIN Append(s, e) = 1..(Len(s) + 1)
      /\ Append(s, e)[Len(s) + 1] = e
      /\ \A i \in DOMAIN s : Append(s, e)[i] = s[i]
    BY <1>1, AppendProperties, LenProperties
<1> QED
    BY <1>2, <1>3, SeqOfRange, RangeEquality DEF IsSequence

\* Where the subthreads, the snapshots and the exchanges are.
LEMMA Places ==
    ASSUME TypeOK
    PROVE  /\ Len(threads) \in Nat /\ DOMAIN threads = 1..Len(threads)
           /\ Len(snapshots) \in Nat /\ DOMAIN snapshots = 1..Len(snapshots)
           /\ \A t \in DOMAIN threads :
                 /\ threads[t] \in ThreadRecord
                 /\ threads[t].exchanges \in Seq(Exchange)
                 /\ Len(threads[t].exchanges) \in Nat
                 /\ DOMAIN threads[t].exchanges = 1..Len(threads[t].exchanges)
           /\ NoThread \notin DOMAIN threads
           /\ NoSnapshot \notin DOMAIN snapshots
<1>1. /\ Len(threads) \in Nat /\ DOMAIN threads = 1..Len(threads)
      /\ Len(snapshots) \in Nat /\ DOMAIN snapshots = 1..Len(snapshots)
    BY LenProperties DEF TypeOK, SnapshotsType, IsSequence
<1>2. \A t \in DOMAIN threads : threads[t] \in ThreadRecord
    BY <1>1 DEF TypeOK
<1>3. \A t \in DOMAIN threads : threads[t].exchanges \in Seq(Exchange)
    BY <1>2 DEF ThreadRecord
<1> QED
    BY <1>1, <1>2, <1>3, LenProperties DEF NoThread, NoSnapshot

\* One more snapshot.
LEMMA SnapshotAppended ==
    ASSUME TypeOK, NEW x, x \in SnapshotRecord(x), snapshots' = Append(snapshots, x)
    PROVE  SnapshotsType'
<1>1. \A s \in DOMAIN snapshots' : snapshots'[s] = x \/ (s \in DOMAIN snapshots /\ snapshots'[s] = snapshots[s])
    BY Appended DEF TypeOK, SnapshotsType
<1>2. IsSequence(snapshots')
    BY Appended DEF TypeOK, SnapshotsType
<1> QED
    BY <1>1, <1>2 DEF TypeOK, SnapshotsType

\* What a child takes over from its parent.
LEMMA ChildType ==
    ASSUME NEW x, x \in SnapshotRecord(x), NEW p \in Nat, NEW notes, NEW y,
           y = [x EXCEPT !.parent = p, !.rev = @ + 1, !.notes = notes]
    PROVE  /\ y \in SnapshotRecord(y)
           /\ y.parent = p /\ y.rev = x.rev + 1 /\ y.notes = notes
           /\ y.root = x.root /\ y.user = x.user /\ y.thread = x.thread
           /\ y.evidence = x.evidence
<1>1. y = [user |-> x.user, thread |-> x.thread, parent |-> p, root |-> x.root,
           rev |-> x.rev + 1, notes |-> notes, evidence |-> x.evidence]
    BY DEF SnapshotRecord
<1>2. x.user \in User /\ x.thread \in Nat /\ x.root \in Nat /\ x.rev \in Nat
    BY DEF SnapshotRecord
<1> QED
    BY <1>1, <1>2 DEF SnapshotRecord

\* The request of a step, as it becomes.
LEMMA RequestChanged ==
    ASSUME TypeOK, NEW r \in Request, NEW q, q \in RequestRecord(q),
           req' = [req EXCEPT ![r] = q]
    PROVE  /\ RequestsType'
           /\ req'[r] = q
           /\ \A s \in Request \ {r} : req'[s] = req[s]
BY DEF TypeOK, RequestsType

\* A request as it begins.
Begun(phase, op, u, t, n, s) ==
    [phase |-> phase, op |-> op, user |-> u, thread |-> t, seen |-> n, createdAt |-> 0,
     snapshot |-> s, evidence |-> <<>>, child |-> NoSnapshot]

LEMMA BegunType ==
    ASSUME NEW op \in {"create", "continue", "evolve", "pin"}, NEW u \in User,
           NEW phase \in {"asked", "based"}, NEW t \in Nat, NEW n \in Nat, NEW s \in Nat
    PROVE  Begun(phase, op, u, t, n, s) \in RequestRecord(Begun(phase, op, u, t, n, s))
BY DEF RequestRecord, Begun, NoSnapshot

\* A request that goes on.
LEMMA RequestUpdates ==
    ASSUME NEW q, q \in RequestRecord(q)
    PROVE  /\ \A x \in {"stored", "done", "failed"} :
                 [q EXCEPT !.phase = x] \in RequestRecord([q EXCEPT !.phase = x])
           /\ \A n \in Nat : [q EXCEPT !.phase = "done", !.child = n]
                                \in RequestRecord([q EXCEPT !.phase = "done", !.child = n])
           /\ \A n \in Nat : [q EXCEPT !.phase = "storing", !.createdAt = n]
                                \in RequestRecord([q EXCEPT !.phase = "storing", !.createdAt = n])
           /\ \A e : \A x \in {"judged", "failed"} :
                 [q EXCEPT !.evidence = e, !.phase = x]
                    \in RequestRecord([q EXCEPT !.evidence = e, !.phase = x])
<1>1. ASSUME NEW x \in {"stored", "done", "failed"}
      PROVE  [q EXCEPT !.phase = x] \in RequestRecord([q EXCEPT !.phase = x])
    BY DEF RequestRecord
<1>2. ASSUME NEW n \in Nat
      PROVE  [q EXCEPT !.phase = "done", !.child = n]
                \in RequestRecord([q EXCEPT !.phase = "done", !.child = n])
    BY DEF RequestRecord
<1>3. ASSUME NEW e, NEW x \in {"judged", "failed"}
      PROVE  [q EXCEPT !.evidence = e, !.phase = x]
                \in RequestRecord([q EXCEPT !.evidence = e, !.phase = x])
    BY DEF RequestRecord
<1>4. ASSUME NEW n \in Nat
      PROVE  [q EXCEPT !.phase = "storing", !.createdAt = n]
                \in RequestRecord([q EXCEPT !.phase = "storing", !.createdAt = n])
    BY DEF RequestRecord
<1> QED
    BY <1>1, <1>2, <1>3, <1>4

-----------------------------------------------------------------------------
(* Types *)

\* One exchange more.
LEMMA ExchangeStored ==
    ASSUME TypeOK, NEW t \in DOMAIN threads, NEW e \in Exchange, NEW n \in Nat,
           threads' = [threads EXCEPT ![t].exchanges = Append(@, e),
                                      ![t].messageCount = n]
    PROVE  /\ threads' \in Seq(ThreadRecord)
           /\ DOMAIN threads' = DOMAIN threads
           /\ \A x \in DOMAIN threads \ {t} : threads'[x] = threads[x]
           /\ threads'[t] = [threads[t] EXCEPT
                                !.exchanges = Append(@, e),
                                !.messageCount = n]
<1> DEFINE x == [threads[t] EXCEPT !.exchanges = Append(@, e),
                                   !.messageCount = n]
<1>1. Append(threads[t].exchanges, e) \in Seq(Exchange)
    BY AppendProperties, Places
<1>2. x \in ThreadRecord
    BY <1>1, Places DEF ThreadRecord
<1>3. threads' = [threads EXCEPT ![t] = x]
    BY Places
<1>4. threads \in Seq(ThreadRecord) /\ t \in 1..Len(threads)
    BY Places DEF TypeOK
<1> HIDE DEF x
<1>5. threads' \in Seq(ThreadRecord)
    <2>1. [threads EXCEPT ![t] = x] \in Seq(ThreadRecord)
        BY <1>2, <1>4, ExceptSeq
    <2> QED
        BY <1>3, <2>1
<1>6. DOMAIN threads' = DOMAIN threads /\ \A y \in DOMAIN threads \ {t} : threads'[y] = threads[y]
    BY <1>3
<1>7. threads'[t] = x
    BY <1>3
<1> QED
    BY <1>5, <1>6, <1>7 DEF x

\* The exchange that a request stores.
LEMMA ExchangeType ==
    ASSUME TypeOK, NEW r \in Request, NEW chars \in ExchangeChars
    PROVE  ExchangeOf(r, chars) \in Exchange /\ ExchangeOf(r, chars).by = r
<1>1. req[r] \in RequestRecord(req[r]) /\ chars \in Nat
    BY LengthsAreNaturals DEF TypeOK, RequestsType
<1> QED
    BY <1>1 DEF ExchangeOf, Exchange, RequestRecord

\* What the transaction of an exchange makes of its subthread.
LEMMA Storing ==
    ASSUME TypeOK, NEW r \in Request, Known(r), Creates(r) \/ Continues(r)
    PROVE  \E t \in DOMAIN threads, e \in Exchange, n \in Nat :
              /\ t = req[r].thread /\ e.by = r
              /\ threads' = [threads EXCEPT ![t].exchanges = Append(@, e), ![t].messageCount = n]
              /\ Creates(r) => n = 2
              /\ Continues(r) => n = threads[t].messageCount + 2
<1>1. PICK t \in DOMAIN threads : t = req[r].thread
    BY DEF Creates, FinishCreate, Continues, FinishContinue, Known
<1>2. threads[t] \in ThreadRecord
    BY <1>1, Places
<1>3. ~ (Creates(r) /\ Continues(r))
    BY DEF Creates, FinishCreate, Continues, FinishContinue
<1>4. CASE Creates(r)
    <2>1. PICK chars \in ExchangeChars : FinishCreate(r, chars)
        BY <1>4 DEF Creates
    <2>2. PICK e \in Exchange : e = ExchangeOf(r, chars) /\ e.by = r
        BY ExchangeType
    <2>3. threads' = [threads EXCEPT ![t].exchanges = Append(@, e), ![t].messageCount = 2]
        BY <1>1, <2>1, <2>2 DEF FinishCreate
    <2> QED
        BY <1>1, <1>3, <1>4, <2>2, <2>3
<1>5. CASE Continues(r)
    <2>1. PICK chars \in ExchangeChars : FinishContinue(r, chars)
        BY <1>5 DEF Continues
    <2>2. PICK e \in Exchange : e = ExchangeOf(r, chars) /\ e.by = r
        BY ExchangeType
    <2>3. PICK n \in Nat : n = threads[t].messageCount + 2
        BY <1>2 DEF ThreadRecord
    <2>4. threads' = [threads EXCEPT ![t] = [threads[t] EXCEPT !.exchanges = Append(@, e),
                                                               !.messageCount = @ + 2]]
        BY <1>1, <2>1, <2>2 DEF FinishContinue, WithExchange
    <2>5. threads' = [threads EXCEPT ![t].exchanges = Append(@, e), ![t].messageCount = n]
        BY <1>1, <1>2, <2>3, <2>4 DEF ThreadRecord
    <2> QED
        BY <1>1, <1>3, <1>5, <2>2, <2>3, <2>5
<1> QED
    BY <1>4, <1>5

\* Every action keeps the types of the subthreads.
LEMMA ThreadsTypePreserved ==
    ConversationsInv /\ [Next]_vars => threads' \in Seq(ThreadRecord)
<1> SUFFICES ASSUME ConversationsInv, [Next]_vars PROVE threads' \in Seq(ThreadRecord)
    OBVIOUS
<1>0. TypeOK /\ \A r \in Request : Known(r)
    BY DEF ConversationsInv
<1>1. ASSUME NEW r \in Request, NEW u \in User, NEW selection \in SelectionChars,
             NEW context \in ContextChars, BeginCreate(r, u, selection, context)
      PROVE  threads' \in Seq(ThreadRecord)
    <2>1. NewThread(u, selection, context) \in ThreadRecord
        BY LengthsAreNaturals DEF NewThread, ThreadRecord
    <2> QED
        BY <1>0, <1>1, <2>1, AppendProperties DEF BeginCreate, TypeOK
<1>2. ASSUME NEW r \in Request, Creates(r) \/ Continues(r)
      PROVE  threads' \in Seq(ThreadRecord)
    <2>1. PICK t \in DOMAIN threads, e \in Exchange, n \in Nat :
            /\ t = req[r].thread /\ e.by = r
            /\ threads' = [threads EXCEPT ![t].exchanges = Append(@, e), ![t].messageCount = n]
            /\ Creates(r) => n = 2
            /\ Continues(r) => n = threads[t].messageCount + 2
        BY <1>0, <1>2, Storing
    <2> QED
        BY <1>0, <2>1, ExchangeStored
<1>4. ASSUME NEW u \in User, NEW t \in DOMAIN threads, NEW status \in {"ARCHIVED", "DELETED"},
             SetStatus(u, t, status)
      PROVE  threads' \in Seq(ThreadRecord)
    <2>1. [threads[t] EXCEPT !.status = status] \in ThreadRecord
        BY <1>0, Places DEF ThreadRecord
    <2> QED
        BY <1>0, <1>4, <2>1, ExceptSeq, Places DEF SetStatus, TypeOK
<1>5. CASE UNCHANGED threads
    BY <1>0, <1>5 DEF TypeOK
<1> QED
    BY <1>1, <1>2, <1>4, <1>5 DEF Next, vars, Creates, Continues, BeginContinue, BeginStore,
       FailAsked, StoreFirstSnapshot, SkipFirstSnapshot, StoreManualSnapshot, BeginEvolve,
       StoreChild, BeginPin, ReadEvidence, StorePin

\* Every action keeps the types of the snapshots.
LEMMA SnapshotsTypePreserved ==
    ConversationsInv /\ [Next]_vars => SnapshotsType'
<1> SUFFICES ASSUME ConversationsInv, [Next]_vars PROVE SnapshotsType'
    OBVIOUS
<1>0. TypeOK /\ \A r \in Request : Known(r)
    BY DEF ConversationsInv
<1>1. ASSUME NEW u \in User, NEW t \in Nat, NEW notes, NEW evidence,
             snapshots' = Append(snapshots, RootSnapshot(u, t, notes, evidence))
      PROVE  SnapshotsType'
    <2> DEFINE x == RootSnapshot(u, t, notes, evidence)
    <2>1. x \in SnapshotRecord(x)
        BY <1>0, Places DEF RootSnapshot, SnapshotRecord, NoSnapshot
    <2> QED
        BY <1>0, <1>1, <2>1, SnapshotAppended
<1>2. ASSUME NEW r \in Request, StoreFirstSnapshot(r) PROVE SnapshotsType'
    <2>1. req[r].user \in User /\ req[r].thread \in Nat
        BY <1>0, <1>2 DEF StoreFirstSnapshot, Known, TypeOK, RequestsType, RequestRecord, Unsent
    <2> QED
        BY <1>1, <1>2, <2>1 DEF StoreFirstSnapshot
<1>3. ASSUME NEW r \in Request, NEW added \in Additions, StoreChild(r, added)
      PROVE  SnapshotsType'
    <2> DEFINE s == req[r].snapshot
               x == ChildOf(s, added)
    <2>1. s \in DOMAIN snapshots /\ s \in Nat
        BY <1>0, <1>3, Places DEF StoreChild, Known
    <2>2. snapshots[s] \in SnapshotRecord(snapshots[s])
        BY <1>0, <2>1 DEF TypeOK, SnapshotsType
    <2>3. x \in SnapshotRecord(x)
        BY <2>1, <2>2, ChildType DEF ChildOf
    <2>4. CASE snapshots' = Append(snapshots, x)
        BY <1>0, <2>3, <2>4, SnapshotAppended
    <2>5. CASE snapshots' = snapshots
        BY <1>0, <2>5 DEF TypeOK, SnapshotsType
    <2> QED
        BY <1>3, <2>4, <2>5 DEF StoreChild, UpsertChild
<1>4. ASSUME NEW r \in Request, StorePin(r) PROVE SnapshotsType'
    <2>1. req[r].user \in User /\ req[r].thread \in Nat
        BY <1>0, <1>4 DEF StorePin, Known, Unsent, TypeOK, RequestsType, RequestRecord
    <2> QED
        BY <1>1, <1>4, <2>1 DEF StorePin
<1>5. ASSUME NEW u \in User, NEW t \in DOMAIN threads \cup {NoThread}, NEW notes \in ManualNotes,
             StoreManualSnapshot(u, t, notes)
      PROVE  SnapshotsType'
    <2>1. t \in Nat
        BY <1>0, Places DEF NoThread
    <2> QED
        BY <1>1, <1>5, <2>1 DEF StoreManualSnapshot
<1>6. CASE UNCHANGED snapshots
    BY <1>0, <1>6 DEF TypeOK, SnapshotsType
<1> QED
    BY <1>2, <1>3, <1>4, <1>5, <1>6 DEF Next, vars, BeginCreate, Creates, FinishCreate,
       BeginContinue, Continues, FinishContinue, BeginStore, FailAsked, SetStatus,
       SkipFirstSnapshot, BeginEvolve, BeginPin, ReadEvidence

\* The time of a transaction is a number.
LEMMA StoreTimed ==
    ASSUME NEW r \in Request, BeginStore(r)
    PROVE  \E n \in Nat : req' = [req EXCEPT ![r].phase = "storing", ![r].createdAt = n]
<1> DEFINE S == {q \in Request : req[q].createdAt # 0}
<1>1. IsFiniteSet(S)
    BY FiniteRequests, FS_Subset
<1>2. Cardinality(S) \in Nat
    BY <1>1, FS_CardinalityType
<1>3. req' = [req EXCEPT ![r].phase = "storing", ![r].createdAt = 1 + Cardinality(S)]
    BY DEF BeginStore
<1> QED
    BY <1>2, <1>3

\* What a step makes of the requests.
LEMMA RequestSteps ==
    ASSUME ConversationsInv, NEW r \in Request
    PROVE  /\ \A u \in User, selection \in SelectionChars, context \in ContextChars :
                 BeginCreate(r, u, selection, context) =>
                 req' = [req EXCEPT ![r] =
                            Begun("asked", "create", u, Len(threads) + 1, 0, NoSnapshot)]
           /\ \A u \in User, t \in DOMAIN threads : BeginContinue(r, u, t) =>
                 \E n \in Nat :
                    req' = [req EXCEPT ![r] = Begun("asked", "continue", u, t, n, NoSnapshot)]
           /\ \A u \in User, t \in DOMAIN threads : BeginPin(r, u, t) =>
                 \E s \in SnapshotsFor(u, t) :
                    req' = [req EXCEPT ![r] = Begun("based", "pin", u, t, 0, s)]
           /\ \A u \in User, s \in DOMAIN snapshots : BeginEvolve(r, u, s) =>
                 req' = [req EXCEPT ![r] = Begun("asked", "evolve", u, NoThread, 0, s)]
<1>1. ASSUME NEW u \in User, NEW selection \in SelectionChars, NEW context \in ContextChars,
             BeginCreate(r, u, selection, context)
      PROVE  req' = [req EXCEPT ![r] =
                        Begun("asked", "create", u, Len(threads) + 1, 0, NoSnapshot)]
    <2>1. PICK q : /\ q = [Unsent EXCEPT !.phase = "asked", !.op = "create", !.user = u,
                                         !.thread = Len(threads) + 1]
                   /\ req' = [req EXCEPT ![r] = q]
        BY <1>1 DEF BeginCreate, Send
    <2>2. q = Begun("asked", "create", u, Len(threads) + 1, 0, NoSnapshot)
        BY <2>1 DEF Unsent, Begun, NoThread, NoSnapshot
    <2> QED
        BY <2>1, <2>2
<1>2. ASSUME NEW u \in User, NEW t \in DOMAIN threads, BeginContinue(r, u, t)
      PROVE  \E n \in Nat :
                req' = [req EXCEPT ![r] = Begun("asked", "continue", u, t, n, NoSnapshot)]
    <2> DEFINE n == IF Len(threads[t].exchanges) <= HistoryLimit
                    THEN Len(threads[t].exchanges) ELSE HistoryLimit
    <2>1. PICK q : /\ q = [Unsent EXCEPT !.phase = "asked", !.op = "continue", !.user = u,
                                         !.thread = t, !.seen = n]
                   /\ req' = [req EXCEPT ![r] = q]
        BY <1>2 DEF BeginContinue, Send
    <2>2. n \in Nat
        BY LimitsAreNaturals, Places DEF ConversationsInv
    <2>3. q = Begun("asked", "continue", u, t, n, NoSnapshot)
        BY <2>1 DEF Unsent, Begun, NoThread, NoSnapshot
    <2> QED
        BY <2>1, <2>2, <2>3
<1>3. ASSUME NEW u \in User, NEW t \in DOMAIN threads, BeginPin(r, u, t)
      PROVE  \E s \in SnapshotsFor(u, t) :
                req' = [req EXCEPT ![r] = Begun("based", "pin", u, t, 0, s)]
    <2>1. PICK s \in SnapshotsFor(u, t) :
            Send(r, [Unsent EXCEPT !.phase = "based", !.op = "pin", !.user = u, !.thread = t,
                                   !.snapshot = s])
        BY <1>3 DEF BeginPin
    <2>2. PICK q : /\ q = [Unsent EXCEPT !.phase = "based", !.op = "pin", !.user = u,
                                         !.thread = t, !.snapshot = s]
                   /\ req' = [req EXCEPT ![r] = q]
        BY <2>1 DEF Send
    <2>3. q = Begun("based", "pin", u, t, 0, s)
        BY <2>2 DEF Unsent, Begun, NoThread, NoSnapshot
    <2> QED
        BY <2>2, <2>3
<1>4. ASSUME NEW u \in User, NEW s \in DOMAIN snapshots, BeginEvolve(r, u, s)
      PROVE  req' = [req EXCEPT ![r] = Begun("asked", "evolve", u, NoThread, 0, s)]
    <2>1. PICK q : /\ q = [Unsent EXCEPT !.phase = "asked", !.op = "evolve", !.user = u,
                                         !.snapshot = s]
                   /\ req' = [req EXCEPT ![r] = q]
        BY <1>4 DEF BeginEvolve, Send
    <2>2. q = Begun("asked", "evolve", u, NoThread, 0, s)
        BY <2>1 DEF Unsent, Begun, NoThread, NoSnapshot
    <2> QED
        BY <2>1, <2>2
<1> QED
    BY <1>1, <1>2, <1>3, <1>4

\* Every action keeps the types of the requests.
LEMMA RequestsTypePreserved ==
    ConversationsInv /\ [Next]_vars => RequestsType'
<1> SUFFICES ASSUME ConversationsInv, [Next]_vars PROVE RequestsType'
    OBVIOUS
<1>0. /\ TypeOK
      /\ Len(threads) + 1 \in Nat /\ Len(snapshots) + 1 \in Nat
      /\ NoThread \in Nat /\ NoSnapshot \in Nat /\ 0 \in Nat
      /\ DOMAIN threads \subseteq Nat /\ DOMAIN snapshots \subseteq Nat
    BY Places DEF ConversationsInv, NoThread, NoSnapshot
<1>1. ASSUME NEW r \in Request, NEW u \in User, NEW selection \in SelectionChars,
             NEW context \in ContextChars, BeginCreate(r, u, selection, context)
      PROVE  RequestsType'
    BY <1>0, <1>1, RequestSteps, BegunType, RequestChanged
<1>2. ASSUME NEW r \in Request, NEW u \in User, NEW t \in DOMAIN threads, BeginContinue(r, u, t)
      PROVE  RequestsType'
    BY <1>0, <1>2, RequestSteps, BegunType, RequestChanged
<1>3. ASSUME NEW r \in Request, NEW u \in User, NEW t \in DOMAIN threads, BeginPin(r, u, t)
      PROVE  RequestsType'
    <2>1. SnapshotsFor(u, t) \subseteq Nat
        BY <1>0 DEF SnapshotsFor
    <2> QED
        BY <1>0, <1>3, <2>1, RequestSteps, BegunType, RequestChanged
<1>4. ASSUME NEW r \in Request, NEW u \in User, NEW s \in DOMAIN snapshots, BeginEvolve(r, u, s)
      PROVE  RequestsType'
    BY <1>0, <1>4, RequestSteps, BegunType, RequestChanged
<1>5. ASSUME NEW r \in Request,
             \/ \E x \in {"stored", "done", "failed"} : req' = [req EXCEPT ![r].phase = x]
             \/ \E n \in Nat : req' = [req EXCEPT ![r].phase = "done", ![r].child = n]
             \/ \E n \in Nat : req' = [req EXCEPT ![r].phase = "storing", ![r].createdAt = n]
             \/ \E x \in {"judged", "failed"} :
                   req' = [req EXCEPT ![r].evidence =
                                         EvidenceOf(threads[req[r].thread].exchanges),
                                      ![r].phase = x]
      PROVE  RequestsType'
    <2>1. req[r] \in RequestRecord(req[r]) /\ DOMAIN req = Request
        BY <1>0 DEF TypeOK, RequestsType
    <2>2. PICK q : q \in RequestRecord(q) /\ req' = [req EXCEPT ![r] = q]
        <3>1. CASE \E x \in {"stored", "done", "failed"} : req' = [req EXCEPT ![r].phase = x]
            BY <2>1, <3>1, RequestUpdates
        <3>2. CASE \E n \in Nat : req' = [req EXCEPT ![r].phase = "done", ![r].child = n]
            <4>1. PICK n \in Nat : req' = [req EXCEPT ![r].phase = "done", ![r].child = n]
                BY <3>2
            <4>2. req' = [req EXCEPT ![r] = [req[r] EXCEPT !.phase = "done", !.child = n]]
                BY <2>1, <4>1
            <4> QED
                BY <2>1, <4>2, RequestUpdates
        <3>3. CASE \E x \in {"judged", "failed"} :
                      req' = [req EXCEPT ![r].evidence =
                                            EvidenceOf(threads[req[r].thread].exchanges),
                                         ![r].phase = x]
            <4> DEFINE e == EvidenceOf(threads[req[r].thread].exchanges)
            <4> HIDE DEF e
            <4>1. PICK x \in {"judged", "failed"} :
                    req' = [req EXCEPT ![r].evidence = e, ![r].phase = x]
                BY <3>3 DEF e
            <4>2. req' = [req EXCEPT ![r] = [req[r] EXCEPT !.evidence = e, !.phase = x]]
                BY <2>1, <4>1
            <4> QED
                BY <2>1, <4>2, RequestUpdates
        <3>4. CASE \E n \in Nat : req' = [req EXCEPT ![r].phase = "storing", ![r].createdAt = n]
            <4>1. PICK n \in Nat : req' = [req EXCEPT ![r].phase = "storing", ![r].createdAt = n]
                BY <3>4
            <4>2. req' = [req EXCEPT ![r] = [req[r] EXCEPT !.phase = "storing", !.createdAt = n]]
                BY <2>1, <4>1
            <4> QED
                BY <2>1, <4>2, RequestUpdates
        <3> QED
            BY <1>5, <3>1, <3>2, <3>3, <3>4
    <2> QED
        BY <1>0, <2>2, RequestChanged
<1>6. ASSUME NEW r \in Request, NEW added \in Additions, StoreChild(r, added)
      PROVE  RequestsType'
    <2> DEFINE s == req[r].snapshot
               n == IF ChildrenOf(s) = {} THEN Len(snapshots) + 1
                    ELSE CHOOSE c \in ChildrenOf(s) : TRUE
    <2>1. n \in Nat
        BY <1>0 DEF ChildrenOf
    <2>2. req' = [req EXCEPT ![r].phase = "done", ![r].child = n]
        BY <1>6 DEF StoreChild
    <2> QED
        BY <1>5, <2>1, <2>2
<1>7. ASSUME NEW r \in Request, StorePin(r) PROVE RequestsType'
    BY <1>0, <1>5, <1>7 DEF StorePin
<1>10. ASSUME NEW r \in Request, BeginStore(r) PROVE RequestsType'
    <2>1. PICK n \in Nat : req' = [req EXCEPT ![r].phase = "storing", ![r].createdAt = n]
        BY <1>10, StoreTimed
    <2> QED
        BY <1>5, <2>1
<1>8. CASE UNCHANGED req
    BY <1>0, <1>8 DEF TypeOK, RequestsType
<1>9. ASSUME NEW r \in Request,
             Creates(r) \/ Continues(r) \/ FailAsked(r) \/ ReadEvidence(r)
                \/ StoreFirstSnapshot(r) \/ SkipFirstSnapshot(r)
      PROVE  RequestsType'
    BY <1>5, <1>9 DEF Creates, FinishCreate, Continues, FinishContinue, FailAsked, ReadEvidence,
       StoreFirstSnapshot, SkipFirstSnapshot
<1> QED
    BY <1>1, <1>2, <1>3, <1>4, <1>6, <1>7, <1>8, <1>9, <1>10
       DEF Next, vars, Creates, Continues, SetStatus, StoreManualSnapshot

\* Every action keeps the types.
LEMMA TypePreserved == ConversationsInv /\ [Next]_vars => TypeOK'
BY ThreadsTypePreserved, SnapshotsTypePreserved, RequestsTypePreserved DEF TypeOK

-----------------------------------------------------------------------------
(* What a step leaves as it was *)

\* What a transaction that stores an exchange does.
LEMMA StoresExchange ==
    ASSUME TypeOK, NEW r \in Request, Known(r), Creates(r) \/ Continues(r)
    PROVE  LET t == req[r].thread IN
           /\ t \in DOMAIN threads
           /\ DOMAIN threads' = DOMAIN threads
           /\ \A x \in DOMAIN threads \ {t} : threads'[x] = threads[x]
           /\ \E e \in Exchange :
                 /\ e.by = r
                 /\ threads'[t].exchanges = Append(threads[t].exchanges, e)
           /\ threads'[t].user = threads[t].user
           /\ threads'[t].status = threads[t].status
           /\ threads'[t].selection = threads[t].selection
           /\ Creates(r) => threads'[t].messageCount = 2
           /\ Continues(r) => threads'[t].messageCount = threads[t].messageCount + 2
<1>2. PICK t \in DOMAIN threads, e \in Exchange, n \in Nat :
         /\ t = req[r].thread /\ e.by = r
         /\ threads' = [threads EXCEPT ![t].exchanges = Append(@, e), ![t].messageCount = n]
         /\ Creates(r) => n = 2
         /\ Continues(r) => n = threads[t].messageCount + 2
    BY Storing
<1>3. threads[t] \in ThreadRecord
    BY Places
<1>4. threads'[t] = [threads[t] EXCEPT !.exchanges = Append(@, e), !.messageCount = n]
    BY <1>2, ExchangeStored
<1>5. /\ threads'[t].exchanges = Append(threads[t].exchanges, e)
      /\ threads'[t].user = threads[t].user
      /\ threads'[t].status = threads[t].status
      /\ threads'[t].selection = threads[t].selection
      /\ threads'[t].messageCount = n
    BY <1>3, <1>4 DEF ThreadRecord
<1>6. DOMAIN threads' = DOMAIN threads /\ \A x \in DOMAIN threads \ {t} : threads'[x] = threads[x]
    BY <1>2, ExchangeStored
<1> QED
    BY <1>2, <1>5, <1>6

\* Subthreads and snapshots are never removed; a subthread keeps its user and
\* its selection and gains at most one exchange, a snapshot keeps everything.
Grows ==
    /\ DOMAIN threads \subseteq DOMAIN threads'
    /\ \A t \in DOMAIN threads :
          /\ threads'[t].user = threads[t].user
          /\ threads'[t].selection = threads[t].selection
          /\ \/ threads'[t].exchanges = threads[t].exchanges
             \/ \E e \in Exchange : threads'[t].exchanges = Append(threads[t].exchanges, e)
    /\ DOMAIN snapshots \subseteq DOMAIN snapshots'
    /\ \A s \in DOMAIN snapshots : snapshots'[s] = snapshots[s]

LEMMA SnapshotsStay ==
    ASSUME TypeOK, NEW x, snapshots' = Append(snapshots, x)
    PROVE  /\ DOMAIN snapshots \subseteq DOMAIN snapshots'
           /\ \A s \in DOMAIN snapshots : snapshots'[s] = snapshots[s]
           /\ DOMAIN snapshots' = DOMAIN snapshots \cup {Len(snapshots) + 1}
           /\ snapshots'[Len(snapshots) + 1] = x
           /\ Len(snapshots) + 1 \notin DOMAIN snapshots
BY Appended DEF TypeOK, SnapshotsType

\* What happens to the subthreads when one is created and when one leaves
\* the active status.
LEMMA ThreadCreated ==
    ASSUME TypeOK, NEW r \in Request, NEW u \in User, NEW selection \in SelectionChars,
           NEW context \in ContextChars, BeginCreate(r, u, selection, context)
    PROVE  /\ DOMAIN threads' = DOMAIN threads \cup {Len(threads) + 1}
           /\ Len(threads) + 1 \notin DOMAIN threads
           /\ \A t \in DOMAIN threads : threads'[t] = threads[t]
           /\ threads'[Len(threads) + 1] = NewThread(u, selection, context)
<1>1. NewThread(u, selection, context) \in ThreadRecord
    BY LengthsAreNaturals DEF NewThread, ThreadRecord
<1>2. threads' = Append(threads, NewThread(u, selection, context)) /\ threads \in Seq(ThreadRecord)
    BY DEF BeginCreate, TypeOK
<1> QED
    BY <1>1, <1>2, AppendProperties, Places

LEMMA StatusSet ==
    ASSUME TypeOK, NEW u \in User, NEW t \in DOMAIN threads,
           NEW status \in {"ARCHIVED", "DELETED"}, SetStatus(u, t, status)
    PROVE  /\ DOMAIN threads' = DOMAIN threads
           /\ \A x \in DOMAIN threads :
                 /\ threads'[x].user = threads[x].user
                 /\ threads'[x].selection = threads[x].selection
                 /\ threads'[x].exchanges = threads[x].exchanges
                 /\ threads'[x].messageCount = threads[x].messageCount
                 /\ threads'[x].status # threads[x].status => threads'[x].status = status
<1>1. threads' = [threads EXCEPT ![t].status = status]
    BY DEF SetStatus
<1>2. threads[t] \in ThreadRecord
    BY Places
<1>3. threads'[t] = [threads[t] EXCEPT !.status = status]
    BY <1>1
<1>4. /\ threads'[t].user = threads[t].user
      /\ threads'[t].selection = threads[t].selection
      /\ threads'[t].exchanges = threads[t].exchanges
      /\ threads'[t].messageCount = threads[t].messageCount
      /\ threads'[t].status = status
    BY <1>2, <1>3 DEF ThreadRecord
<1>5. \A x \in DOMAIN threads \ {t} : threads'[x] = threads[x]
    BY <1>1
<1> QED
    BY <1>1, <1>4, <1>5

\* Every step does.
LEMMA StepGrows == ConversationsInv /\ [Next]_vars => Grows
<1> SUFFICES ASSUME ConversationsInv, [Next]_vars PROVE Grows
    OBVIOUS
<1>0. TypeOK /\ \A r \in Request : Known(r)
    BY DEF ConversationsInv
<1>1. /\ DOMAIN threads \subseteq DOMAIN threads'
      /\ \A t \in DOMAIN threads :
            /\ threads'[t].user = threads[t].user
            /\ threads'[t].selection = threads[t].selection
            /\ \/ threads'[t].exchanges = threads[t].exchanges
               \/ \E e \in Exchange : threads'[t].exchanges = Append(threads[t].exchanges, e)
    <2>1. CASE UNCHANGED threads
        BY <2>1
    <2>2. CASE \E r \in Request, u \in User, selection \in SelectionChars,
             context \in ContextChars : BeginCreate(r, u, selection, context)
        BY <1>0, <2>2, ThreadCreated
    <2>3. CASE \E r \in Request : Creates(r) \/ Continues(r)
        <3>1. PICK r \in Request : Creates(r) \/ Continues(r)
            BY <2>3
        <3>2. \A t \in DOMAIN threads : t = req[r].thread \/ threads'[t] = threads[t]
            BY <1>0, <3>1, StoresExchange
        <3> QED
            BY <1>0, <3>1, <3>2, StoresExchange
    <2>4. CASE \E u \in User, t \in DOMAIN threads, status \in {"ARCHIVED", "DELETED"} :
                  SetStatus(u, t, status)
        BY <1>0, <2>4, StatusSet
    <2> QED
        BY <2>1, <2>2, <2>3, <2>4 DEF Next, vars, Creates, Continues, BeginContinue, BeginPin,
           BeginEvolve, BeginStore, FailAsked, StoreFirstSnapshot, SkipFirstSnapshot,
           StoreManualSnapshot, StoreChild, ReadEvidence, StorePin
<1>2. /\ DOMAIN snapshots \subseteq DOMAIN snapshots'
      /\ \A s \in DOMAIN snapshots : snapshots'[s] = snapshots[s]
    <2>1. UNCHANGED snapshots \/ \E x : snapshots' = Append(snapshots, x)
        BY DEF Next, vars, BeginCreate, Creates, FinishCreate, BeginContinue, Continues,
           FinishContinue, BeginStore, FailAsked, SetStatus, StoreFirstSnapshot,
           SkipFirstSnapshot, StoreManualSnapshot, BeginEvolve, StoreChild, UpsertChild,
           BeginPin, ReadEvidence, StorePin
    <2> QED
        BY <1>0, <2>1, SnapshotsStay
<1> QED
    BY <1>1, <1>2 DEF Grows

\* The end of the messages at some time stays that.
LEMMA StoodStays ==
    ASSUME TypeOK, TypeOK', Grows, NEW t \in DOMAIN threads, NEW evidence,
           StoodOnce(t, evidence)
    PROVE  StoodOnce(t, evidence)'
<1> DEFINE x == threads[t].exchanges
           y == threads'[t].exchanges
<1>1. PICK n \in 0..Len(x) : evidence = EvidenceOf(SubSeq(x, 1, n))
    BY DEF StoodOnce
<1>2. x \in Seq(Exchange) /\ Len(x) \in Nat
    BY Places
<1>3. n \in 0..Len(y) /\ SubSeq(y, 1, n) = SubSeq(x, 1, n)
    <2>1. CASE y = x
        BY <2>1
    <2>2. ASSUME NEW e \in Exchange, y = Append(x, e)
          PROVE  n \in 0..Len(y) /\ SubSeq(y, 1, n) = SubSeq(x, 1, n)
        <3>1. Len(y) = Len(x) + 1 /\ \A i \in 1..Len(x) : y[i] = x[i]
            BY <1>2, <2>2, AppendProperties
        <3>2. SubSeq(x, 1, n) = [i \in 1..n |-> x[i]] /\ SubSeq(y, 1, n) = [i \in 1..n |-> y[i]]
            <4>1. y \in Seq(Exchange)
                BY <1>2, <2>2, AppendProperties
            <4> QED
                BY <1>2, <3>1, <4>1, SubSeqProperties
        <3> QED
            BY <1>2, <3>1, <3>2
    <2> QED
        BY <2>1, <2>2 DEF Grows
<1> QED
    BY <1>1, <1>3 DEF StoodOnce, Grows

\* What a request knows stays true while it waits.
LEMMA KnownStays ==
    ASSUME TypeOK, TypeOK', Grows, NEW r \in Request, Known(r), PinIsBased(r), req'[r] = req[r]
    PROVE  Known(r)' /\ PinIsBased(r)'
<1>1. Known(r)'
    BY DEF Known, Grows
<1>2. ASSUME req[r].op = "pin" PROVE PinIsBased(r)'
    <2>1. req[r].thread \in DOMAIN threads /\ req[r].snapshot \in DOMAIN snapshots
        BY <1>2 DEF Known
    <2>2. PICK t, e : t = req[r].thread /\ e = req[r].evidence
        OBVIOUS
    <2>3. StoodOnce(t, e) => StoodOnce(t, e)'
        BY <2>1, <2>2, StoodStays
    <2>4. StoodOnce(t, e)' => StoodOnce(req[r].thread, req[r].evidence)'
        BY <2>2 DEF StoodOnce
    <2> QED
        BY <1>2, <2>1, <2>2, <2>3, <2>4 DEF PinIsBased, Grows, Known
<1>3. req[r].op # "pin" => PinIsBased(r)'
    BY DEF PinIsBased
<1> QED
    BY <1>1, <1>2, <1>3

-----------------------------------------------------------------------------
(* What the requests know *)

SameBut(r, fields) ==
    /\ "phase" \in fields \/ req'[r].phase = req[r].phase
    /\ req'[r].op = req[r].op /\ req'[r].user = req[r].user
    /\ req'[r].thread = req[r].thread /\ req'[r].snapshot = req[r].snapshot
    /\ "evidence" \in fields \/ req'[r].evidence = req[r].evidence
    /\ "child" \in fields \/ req'[r].child = req[r].child
    /\ \A s \in Request \ {r} : req'[s] = req[s]

\* What changes in a request when it goes on.
LEMMA PhaseChanged ==
    ASSUME TypeOK, NEW r \in Request, NEW x, req' = [req EXCEPT ![r].phase = x]
    PROVE  SameBut(r, {"phase"}) /\ req'[r].phase = x
<1>1. req[r] \in RequestRecord(req[r]) /\ DOMAIN req = Request
    BY DEF TypeOK, RequestsType
<1>2. req'[r] = [req[r] EXCEPT !.phase = x] /\ \A s \in Request \ {r} : req'[s] = req[s]
    BY <1>1
<1>3. /\ req'[r].op = req[r].op /\ req'[r].user = req[r].user
      /\ req'[r].thread = req[r].thread /\ req'[r].snapshot = req[r].snapshot
      /\ req'[r].evidence = req[r].evidence /\ req'[r].child = req[r].child
      /\ req'[r].phase = x
    BY <1>1, <1>2 DEF RequestRecord
<1> QED
    BY <1>2, <1>3 DEF SameBut

LEMMA StoreBegun ==
    ASSUME TypeOK, NEW r \in Request, BeginStore(r)
    PROVE  SameBut(r, {"phase"}) /\ req'[r].phase = "storing" /\ req[r].phase = "asked"
<1>1. req[r] \in RequestRecord(req[r]) /\ DOMAIN req = Request
    BY DEF TypeOK, RequestsType
<1>2. PICK n \in Nat : req' = [req EXCEPT ![r].phase = "storing", ![r].createdAt = n]
    BY StoreTimed
<1>3. /\ req'[r] = [req[r] EXCEPT !.phase = "storing", !.createdAt = n]
      /\ \A s \in Request \ {r} : req'[s] = req[s]
    BY <1>1, <1>2
<1>4. /\ req'[r].op = req[r].op /\ req'[r].user = req[r].user
      /\ req'[r].thread = req[r].thread /\ req'[r].snapshot = req[r].snapshot
      /\ req'[r].evidence = req[r].evidence /\ req'[r].child = req[r].child
      /\ req'[r].phase = "storing"
    BY <1>1, <1>3 DEF RequestRecord
<1> QED
    BY <1>3, <1>4 DEF SameBut, BeginStore

LEMMA ChildAnswered ==
    ASSUME TypeOK, NEW r \in Request, NEW n,
           req' = [req EXCEPT ![r].phase = "done", ![r].child = n]
    PROVE  SameBut(r, {"phase", "child"}) /\ req'[r].phase = "done" /\ req'[r].child = n
<1>1. req[r] \in RequestRecord(req[r]) /\ DOMAIN req = Request
    BY DEF TypeOK, RequestsType
<1>2. /\ req'[r] = [req[r] EXCEPT !.phase = "done", !.child = n]
      /\ \A s \in Request \ {r} : req'[s] = req[s]
    BY <1>1
<1>3. /\ req'[r].op = req[r].op /\ req'[r].user = req[r].user
      /\ req'[r].thread = req[r].thread /\ req'[r].snapshot = req[r].snapshot
      /\ req'[r].evidence = req[r].evidence
      /\ req'[r].phase = "done" /\ req'[r].child = n
    BY <1>1, <1>2 DEF RequestRecord
<1> QED
    BY <1>2, <1>3 DEF SameBut

LEMMA EvidenceRead ==
    ASSUME TypeOK, NEW r \in Request, NEW e, NEW x,
           req' = [req EXCEPT ![r].evidence = e, ![r].phase = x]
    PROVE  SameBut(r, {"phase", "evidence"}) /\ req'[r].phase = x /\ req'[r].evidence = e
<1>1. req[r] \in RequestRecord(req[r]) /\ DOMAIN req = Request
    BY DEF TypeOK, RequestsType
<1>2. /\ req'[r] = [req[r] EXCEPT !.evidence = e, !.phase = x]
      /\ \A s \in Request \ {r} : req'[s] = req[s]
    BY <1>1
<1>3. /\ req'[r].op = req[r].op /\ req'[r].user = req[r].user
      /\ req'[r].thread = req[r].thread /\ req'[r].snapshot = req[r].snapshot
      /\ req'[r].child = req[r].child
      /\ req'[r].phase = x /\ req'[r].evidence = e
    BY <1>1, <1>2 DEF RequestRecord
<1> QED
    BY <1>2, <1>3 DEF SameBut

\* The evidence that is read stood once: it is that of now.
LEMMA ReadStands ==
    ASSUME TypeOK, NEW t \in DOMAIN threads
    PROVE  StoodOnce(t, EvidenceOf(threads[t].exchanges))
<1> DEFINE x == threads[t].exchanges
           n == Len(x)
<1>1. x \in Seq(Exchange) /\ n \in Nat
    BY Places
<1>2. SubSeq(x, 1, n) = x
    BY <1>1, SubSeqFull
<1>3. n \in 0..n
    BY <1>1
<1>4. EvidenceOf(x) = EvidenceOf(SubSeq(x, 1, n))
    BY <1>2
<1> HIDE DEF n
<1>5. \E k \in 0..n : EvidenceOf(x) = EvidenceOf(SubSeq(x, 1, k))
    BY <1>3, <1>4
<1> QED
    BY <1>5 DEF StoodOnce, n

\* Every action keeps what the requests know.
LEMMA KnownPreserved ==
    ConversationsInv /\ [Next]_vars => \A r \in Request : Known(r)' /\ PinIsBased(r)'
<1> SUFFICES ASSUME ConversationsInv, [Next]_vars
             PROVE  \A r \in Request : Known(r)' /\ PinIsBased(r)'
    OBVIOUS
<1>0. /\ TypeOK /\ TypeOK' /\ Grows
      /\ \A r \in Request : Known(r) /\ PinIsBased(r) /\ req[r] \in RequestRecord(req[r])
      /\ DOMAIN req = Request
    BY TypePreserved, StepGrows DEF ConversationsInv, TypeOK, RequestsType
<1>1. ASSUME NEW r \in Request, \A s \in Request \ {r} : req'[s] = req[s],
             Known(r)', PinIsBased(r)'
      PROVE  \A q \in Request : Known(q)' /\ PinIsBased(q)'
    <2> SUFFICES ASSUME NEW q \in Request, q # r PROVE Known(q)' /\ PinIsBased(q)'
        BY <1>1
    <2> QED
        BY <1>0, <1>1, KnownStays
<1>2. ASSUME NEW r \in Request, NEW u \in User, NEW selection \in SelectionChars,
             NEW context \in ContextChars, BeginCreate(r, u, selection, context)
      PROVE  \A q \in Request : Known(q)' /\ PinIsBased(q)'
    <2> DEFINE q == Begun("asked", "create", u, Len(threads) + 1, 0, NoSnapshot)
    <2>1. req' = [req EXCEPT ![r] = q]
        BY <1>2, RequestSteps
    <2>2. Len(threads) + 1 \in DOMAIN threads'
        BY <1>0, <1>2, ThreadCreated
    <2>3. req'[r] = q /\ \A s \in Request \ {r} : req'[s] = req[s]
        BY <1>0, <2>1
    <2>4. Known(r)'
        BY <2>2, <2>3 DEF Known, PhasesOf, Begun
    <2>5. PinIsBased(r)'
        BY <2>3 DEF PinIsBased, Begun
    <2> QED
        BY <1>1, <2>3, <2>4, <2>5
<1>3. ASSUME NEW r \in Request, NEW u \in User, NEW t \in DOMAIN threads, BeginContinue(r, u, t)
      PROVE  \A q \in Request : Known(q)' /\ PinIsBased(q)'
    <2>1. PICK n \in Nat : req' = [req EXCEPT ![r] = Begun("asked", "continue", u, t, n, NoSnapshot)]
        BY <1>3, RequestSteps
    <2> DEFINE q == Begun("asked", "continue", u, t, n, NoSnapshot)
    <2>2. t \in DOMAIN threads'
        BY <1>0 DEF Grows
    <2>3. req'[r] = q /\ \A s \in Request \ {r} : req'[s] = req[s]
        BY <1>0, <2>1
    <2>4. Known(r)'
        BY <2>2, <2>3 DEF Known, PhasesOf, Begun
    <2>5. PinIsBased(r)'
        BY <2>3 DEF PinIsBased, Begun
    <2> QED
        BY <1>1, <2>3, <2>4, <2>5
<1>4. ASSUME NEW r \in Request, NEW u \in User, NEW t \in DOMAIN threads, BeginPin(r, u, t)
      PROVE  \A q \in Request : Known(q)' /\ PinIsBased(q)'
    <2>1. PICK s \in SnapshotsFor(u, t) : req' = [req EXCEPT ![r] = Begun("based", "pin", u, t, 0, s)]
        BY <1>4, RequestSteps
    <2> DEFINE q == Begun("based", "pin", u, t, 0, s)
    <2>2. /\ t \in DOMAIN threads' /\ threads'[t].user = u
          /\ s \in DOMAIN snapshots' /\ snapshots'[s].user = u /\ snapshots'[s].thread = t
        BY <1>0, <1>4 DEF Grows, SnapshotsFor, BeginPin, Owns
    <2>3. req'[r] = q /\ \A x \in Request \ {r} : req'[x] = req[x]
        BY <1>0, <2>1
    <2>4. Known(r)'
        BY <2>2, <2>3 DEF Known, PhasesOf, Begun
    <2>5. PinIsBased(r)'
        BY <2>2, <2>3 DEF PinIsBased, Begun
    <2> QED
        BY <1>1, <2>3, <2>4, <2>5
<1>5. ASSUME NEW r \in Request, NEW u \in User, NEW s \in DOMAIN snapshots, BeginEvolve(r, u, s)
      PROVE  \A q \in Request : Known(q)' /\ PinIsBased(q)'
    <2> DEFINE q == Begun("asked", "evolve", u, NoThread, 0, s)
    <2>1. req' = [req EXCEPT ![r] = q]
        BY <1>5, RequestSteps
    <2>2. s \in DOMAIN snapshots'
        BY <1>0 DEF Grows
    <2>3. req'[r] = q /\ \A x \in Request \ {r} : req'[x] = req[x]
        BY <1>0, <2>1
    <2>4. Known(r)'
        BY <2>2, <2>3 DEF Known, PhasesOf, Begun
    <2>5. PinIsBased(r)'
        BY <2>3 DEF PinIsBased, Begun
    <2> QED
        BY <1>1, <2>3, <2>4, <2>5
<1>6. ASSUME NEW r \in Request, NEW x \in {"storing", "stored", "done", "failed"},
             SameBut(r, {"phase"}), req'[r].phase = x,
             req[r].phase \in {"asked", "storing", "stored"}, x \in PhasesOf(req[r].op)
      PROVE  \A q \in Request : Known(q)' /\ PinIsBased(q)'
    <2>1. SameBut(r, {"phase"}) /\ req'[r].phase = x
        BY <1>6
    <2>2. req[r].op \notin {"none", "pin"} /\ req[r].child = NoSnapshot
        BY <1>0, <1>6 DEF Known, PhasesOf
    <2>3. Known(r)'
        BY <1>0, <1>6, <2>1, <2>2 DEF Known, Grows, SameBut
    <2>4. PinIsBased(r)'
        BY <2>1, <2>2 DEF PinIsBased, SameBut
    <2> QED
        BY <1>1, <2>1, <2>3, <2>4 DEF SameBut
<1>7. ASSUME NEW r \in Request, NEW added \in Additions, StoreChild(r, added)
      PROVE  \A q \in Request : Known(q)' /\ PinIsBased(q)'
    <2> DEFINE s == req[r].snapshot
               n == IF ChildrenOf(s) = {} THEN Len(snapshots) + 1
                    ELSE CHOOSE c \in ChildrenOf(s) : TRUE
    <2>1. req' = [req EXCEPT ![r].phase = "done", ![r].child = n]
        BY <1>7 DEF StoreChild
    <2>2. n \in DOMAIN snapshots'
        <3>1. CASE ChildrenOf(s) = {}
            BY <1>0, <1>7, <3>1, SnapshotsStay DEF StoreChild, UpsertChild
        <3>2. CASE ChildrenOf(s) # {}
            BY <1>0, <3>2 DEF ChildrenOf, Grows
        <3> QED
            BY <3>1, <3>2
    <2> HIDE DEF n
    <2>3. SameBut(r, {"phase", "child"}) /\ req'[r].phase = "done" /\ req'[r].child = n
        BY <1>0, <2>1, ChildAnswered
    <2>4. req[r].op = "evolve"
        BY <1>7 DEF StoreChild
    <2>5. Known(r)'
        BY <1>0, <2>2, <2>3, <2>4 DEF Known, Grows, SameBut, PhasesOf
    <2>6. PinIsBased(r)'
        BY <2>3, <2>4 DEF PinIsBased, SameBut
    <2> QED
        BY <1>1, <2>3, <2>5, <2>6 DEF SameBut
<1>8. ASSUME NEW r \in Request, ReadEvidence(r)
      PROVE  \A q \in Request : Known(q)' /\ PinIsBased(q)'
    <2>1. PICK t, e, x : /\ t = req[r].thread /\ e = EvidenceOf(threads[t].exchanges)
                         /\ x = IF GateOpens(t, e) THEN "judged" ELSE "failed"
        OBVIOUS
    <2>2. req' = [req EXCEPT ![r].evidence = e, ![r].phase = x]
        BY <1>8, <2>1 DEF ReadEvidence
    <2>3. /\ SameBut(r, {"phase", "evidence"})
          /\ req'[r].phase = x /\ req'[r].evidence = e
        BY <1>0, <2>2, EvidenceRead
    <2>4. req[r].op = "pin" /\ req[r].child = NoSnapshot /\ req[r].phase = "based"
        BY <1>0, <1>8 DEF Known, PhasesOf, ReadEvidence, RequestRecord
    <2>5. t \in DOMAIN threads
        BY <1>0, <2>1, <2>4 DEF Known
    <2>6. Known(r)'
        BY <1>0, <2>1, <2>3, <2>4 DEF Known, Grows, SameBut, PhasesOf
    <2>7. x = "judged" => StoodOnce(t, e)'
        BY <1>0, <2>1, <2>5, ReadStands, StoodStays
    <2>8. x = "judged" => StoodOnce(req[r].thread, req[r].evidence)'
        BY <2>1, <2>3, <2>7 DEF StoodOnce, SameBut
    <2>9. x # "done"
        BY <2>1
    <2>10. PinIsBased(r)'
        BY <1>0, <2>3, <2>4, <2>8, <2>9 DEF PinIsBased, SameBut, Grows, Known
    <2> QED
        BY <1>1, <2>3, <2>6, <2>10 DEF SameBut
<1>9. ASSUME NEW r \in Request, StorePin(r)
      PROVE  \A q \in Request : Known(q)' /\ PinIsBased(q)'
    <2> DEFINE q == req[r]
               n == Len(snapshots) + 1
               y == RootSnapshot(q.user, q.thread, snapshots[q.snapshot].notes, q.evidence)
    <2>1. req' = [req EXCEPT ![r].phase = "done", ![r].child = n] /\ snapshots' = Append(snapshots, y)
        BY <1>9 DEF StorePin
    <2>2. q.op = "pin" /\ q.phase = "judged"
        BY <1>0, <1>9 DEF Known, PhasesOf, StorePin, RequestRecord
    <2>3. SameBut(r, {"phase", "child"}) /\ req'[r].phase = "done" /\ req'[r].child = n
        BY <1>0, <2>1, ChildAnswered
    <2>4. n \in DOMAIN snapshots' /\ snapshots'[n] = y
        BY <1>0, <2>1, SnapshotsStay
    <2>5. /\ y.user = q.user /\ y.thread = q.thread
          /\ y.notes = snapshots[q.snapshot].notes /\ y.evidence = q.evidence
        BY DEF RootSnapshot
    <2>6. Known(r)'
        <3> HIDE DEF n, y
        <3> QED
            BY <1>0, <2>2, <2>3, <2>4 DEF Known, Grows, SameBut, PhasesOf
    <2>7. StoodOnce(req[r].thread, req[r].evidence)'
        <3>1. PICK t, e : t = req[r].thread /\ e = req[r].evidence
            OBVIOUS
        <3>2. StoodOnce(t, e) /\ t \in DOMAIN threads
            BY <1>0, <2>2, <3>1 DEF PinIsBased, Known
        <3>3. StoodOnce(t, e)'
            BY <1>0, <3>2, StoodStays
        <3> QED
            BY <2>3, <3>1, <3>3 DEF StoodOnce, SameBut
    <2>8. PinIsBased(r)'
        <3> HIDE DEF n, y
        <3> QED
            BY <1>0, <2>2, <2>3, <2>4, <2>5, <2>7 DEF PinIsBased, SameBut, Grows, Known
    <2> QED
        BY <1>1, <2>3, <2>6, <2>8 DEF SameBut
<1>10. CASE UNCHANGED req
    BY <1>0, <1>10, KnownStays
<1>11. ASSUME NEW r \in Request,
              Creates(r) \/ Continues(r) \/ FailAsked(r) \/ StoreFirstSnapshot(r)
                 \/ SkipFirstSnapshot(r)
       PROVE  \A q \in Request : Known(q)' /\ PinIsBased(q)'
    <2>1. PICK x \in {"stored", "done", "failed"} :
             /\ req' = [req EXCEPT ![r].phase = x]
             /\ req[r].phase \in {"asked", "storing", "stored"} /\ x \in PhasesOf(req[r].op)
        BY <1>0, <1>11 DEF Creates, FinishCreate, Continues, FinishContinue, FailAsked,
           StoreFirstSnapshot, SkipFirstSnapshot, Known, PhasesOf, RequestRecord
    <2>2. SameBut(r, {"phase"}) /\ req'[r].phase = x
        BY <1>0, <2>1, PhaseChanged
    <2> QED
        BY <1>6, <2>1, <2>2
<1>12. ASSUME NEW r \in Request, BeginStore(r)
       PROVE  \A q \in Request : Known(q)' /\ PinIsBased(q)'
    <2>1. SameBut(r, {"phase"}) /\ req'[r].phase = "storing" /\ req[r].phase = "asked"
        BY <1>0, <1>12, StoreBegun
    <2>2. "storing" \in PhasesOf(req[r].op)
        BY <1>12 DEF BeginStore, PhasesOf
    <2> QED
        BY <1>6, <2>1, <2>2
<1> QED
    BY <1>2, <1>3, <1>4, <1>5, <1>7, <1>8, <1>9, <1>10, <1>11, <1>12
       DEF Next, vars, Creates, Continues, SetStatus, StoreManualSnapshot

-----------------------------------------------------------------------------
(* Creators, exchanges and counts *)

\* Requests go on, and what was stored stays stored.
GoOn ==
    \A r \in Request :
        /\ req'[r].op = req[r].op /\ req'[r].thread = req[r].thread
        /\ req[r].phase \in {"stored", "done"} => req'[r].phase \in {"stored", "done"}

\* A request begins, and no exchange is stored.
Begins(r) ==
    /\ req[r].op = "none"
    /\ \A s \in Request \ {r} : req'[s] = req[s]
    /\ req'[r].op = "create" => req'[r].thread = Len(threads) + 1
    /\ \A t \in DOMAIN threads : threads'[t] = threads[t]

LEMMA GoOnOrBegin ==
    ConversationsInv /\ [Next]_vars => GoOn \/ \E r \in Request : Begins(r)
<1> SUFFICES ASSUME ConversationsInv, [Next]_vars PROVE GoOn \/ \E r \in Request : Begins(r)
    OBVIOUS
<1>0. /\ TypeOK /\ DOMAIN req = Request
      /\ \A r \in Request : Known(r) /\ req[r] \in RequestRecord(req[r])
    BY DEF ConversationsInv, TypeOK, RequestsType
<1>1. ASSUME NEW r \in Request, req[r].phase = "unsent", NEW phase, NEW op, NEW u, NEW t, NEW n,
             NEW s, req' = [req EXCEPT ![r] = Begun(phase, op, u, t, n, s)],
             op = "create" => t = Len(threads) + 1,
             \A y \in DOMAIN threads : threads'[y] = threads[y]
      PROVE  Begins(r)
    <2>1. req'[r] = Begun(phase, op, u, t, n, s) /\ \A x \in Request \ {r} : req'[x] = req[x]
        BY <1>0, <1>1
    <2>2. req[r].op = "none"
        BY <1>0, <1>1 DEF Known, PhasesOf, RequestRecord
    <2> QED
        BY <1>1, <2>1, <2>2 DEF Begins, Begun
<1>2. ASSUME NEW r \in Request, NEW u \in User, NEW selection \in SelectionChars,
             NEW context \in ContextChars, BeginCreate(r, u, selection, context)
      PROVE  Begins(r)
    <2>1. req[r].phase = "unsent"
        BY <1>2 DEF BeginCreate
    <2> QED
        BY <1>0, <1>1, <1>2, <2>1, RequestSteps, ThreadCreated
<1>3. ASSUME NEW r \in Request, NEW u \in User, NEW t \in DOMAIN threads,
             BeginContinue(r, u, t) \/ BeginPin(r, u, t)
      PROVE  Begins(r)
    <2>1. req[r].phase = "unsent" /\ threads' = threads
        BY <1>3 DEF BeginContinue, BeginPin
    <2>2. CASE BeginContinue(r, u, t)
        <3>1. PICK n \in Nat :
                req' = [req EXCEPT ![r] = Begun("asked", "continue", u, t, n, NoSnapshot)]
            BY <2>2, RequestSteps
        <3> QED
            BY <1>1, <2>1, <3>1
    <2>3. CASE BeginPin(r, u, t)
        <3>1. PICK s \in SnapshotsFor(u, t) :
                req' = [req EXCEPT ![r] = Begun("based", "pin", u, t, 0, s)]
            BY <2>3, RequestSteps
        <3> QED
            BY <1>1, <2>1, <3>1
    <2> QED
        BY <1>3, <2>2, <2>3
<1>4. ASSUME NEW r \in Request, NEW u \in User, NEW s \in DOMAIN snapshots, BeginEvolve(r, u, s)
      PROVE  Begins(r)
    <2>1. req[r].phase = "unsent" /\ threads' = threads
        BY <1>4 DEF BeginEvolve
    <2>2. req' = [req EXCEPT ![r] = Begun("asked", "evolve", u, NoThread, 0, s)]
        BY <1>4, RequestSteps
    <2> QED
        BY <1>1, <2>1, <2>2
<1>5. ASSUME NEW r \in Request, NEW fields, SameBut(r, fields),
             req[r].phase \in {"stored", "done"} => req'[r].phase \in {"stored", "done"}
      PROVE  GoOn
    BY <1>5 DEF SameBut, GoOn
<1>6. ASSUME NEW r \in Request,
             \/ Creates(r) \/ Continues(r) \/ FailAsked(r)
             \/ StoreFirstSnapshot(r) \/ SkipFirstSnapshot(r)
      PROVE  GoOn
    <2>1. PICK x : /\ req' = [req EXCEPT ![r].phase = x]
                   /\ x \in {"stored", "done"} \/ req[r].phase \in {"asked", "storing"}
        BY <1>6 DEF Creates, FinishCreate, Continues, FinishContinue, FailAsked,
           StoreFirstSnapshot, SkipFirstSnapshot
    <2> QED
        BY <1>0, <1>5, <2>1, PhaseChanged
<1>7. ASSUME NEW r \in Request,
             \E n : req' = [req EXCEPT ![r].phase = "done", ![r].child = n]
      PROVE  GoOn
    BY <1>0, <1>5, <1>7, ChildAnswered
<1>8. ASSUME NEW r \in Request, ReadEvidence(r) PROVE GoOn
    <2>1. PICK e, x : req' = [req EXCEPT ![r].evidence = e, ![r].phase = x]
        BY <1>8 DEF ReadEvidence
    <2>2. req[r].phase = "based"
        BY <1>8 DEF ReadEvidence
    <2> QED
        BY <1>0, <1>5, <2>1, <2>2, EvidenceRead
<1>9. CASE UNCHANGED req
    BY <1>9 DEF GoOn
<1>10. ASSUME NEW r \in Request, BeginStore(r) PROVE GoOn
    <2>1. SameBut(r, {"phase"}) /\ req[r].phase = "asked"
        BY <1>0, <1>10, StoreBegun
    <2> QED
        BY <1>5, <2>1
<1> QED
    BY <1>2, <1>3, <1>4, <1>6, <1>7, <1>8, <1>9, <1>10
       DEF Next, vars, Creates, Continues, SetStatus, StoreManualSnapshot, StoreChild, StorePin

\* A subthread has one creator.
LEMMA CreatorPreserved == ConversationsInv /\ [Next]_vars => CreatorIsOne'
<1> SUFFICES ASSUME ConversationsInv, [Next]_vars PROVE CreatorIsOne'
    OBVIOUS
<1>1. CASE GoOn
    BY <1>1 DEF ConversationsInv, CreatorIsOne, GoOn
<1>2. ASSUME NEW r \in Request, Begins(r) PROVE CreatorIsOne'
    <2>1. \A q \in Request \ {r} : req[q].op = "create" => req[q].thread # Len(threads) + 1
        BY Places DEF ConversationsInv, Known
    <2> QED
        BY <1>2, <2>1 DEF Begins, ConversationsInv, CreatorIsOne
<1> QED
    BY <1>1, <1>2, GoOnOrBegin

\* What becomes of a subthread: it is new, it is left as it was but for its
\* status, or its waiting request stores an exchange.
LEMMA ThreadStep ==
    ASSUME ConversationsInv, [Next]_vars, NEW t \in DOMAIN threads'
    PROVE  \/ t \notin DOMAIN threads /\ threads'[t].exchanges = <<>> /\ threads'[t].messageCount = 0
           \/ /\ t \in DOMAIN threads
              /\ threads'[t].exchanges = threads[t].exchanges
              /\ threads'[t].messageCount = threads[t].messageCount
           \/ /\ t \in DOMAIN threads
              /\ \E r \in Request, e \in Exchange :
                    /\ Creates(r) \/ Continues(r)
                    /\ req[r].thread = t /\ e.by = r
                    /\ threads'[t].exchanges = Append(threads[t].exchanges, e)
                    /\ Creates(r) => threads'[t].messageCount = 2
                    /\ Continues(r) =>
                          threads'[t].messageCount = threads[t].messageCount + 2
<1>0. TypeOK /\ \A r \in Request : Known(r)
    BY DEF ConversationsInv
<1>1. CASE UNCHANGED threads
    BY <1>1
<1>2. ASSUME NEW r \in Request, NEW u \in User, NEW selection \in SelectionChars,
             NEW context \in ContextChars, BeginCreate(r, u, selection, context)
      PROVE  \/ /\ t \notin DOMAIN threads
                /\ threads'[t].exchanges = <<>> /\ threads'[t].messageCount = 0
             \/ t \in DOMAIN threads /\ threads'[t] = threads[t]
    <2>1. NewThread(u, selection, context).exchanges = <<>> /\ NewThread(u, selection, context).messageCount = 0
        BY DEF NewThread
    <2>2. \/ t \notin DOMAIN threads /\ threads'[t] = NewThread(u, selection, context)
          \/ t \in DOMAIN threads /\ threads'[t] = threads[t]
        BY <1>0, <1>2, ThreadCreated
    <2> QED
        BY <2>1, <2>2
<1>3. ASSUME NEW r \in Request, Creates(r) \/ Continues(r), t # req[r].thread
      PROVE  t \in DOMAIN threads /\ threads'[t] = threads[t]
    BY <1>0, <1>3, StoresExchange
<1>4. ASSUME NEW r \in Request, Creates(r) \/ Continues(r), t = req[r].thread
      PROVE  /\ t \in DOMAIN threads
             /\ \E e \in Exchange :
                    /\ e.by = r
                    /\ threads'[t].exchanges = Append(threads[t].exchanges, e)
                    /\ Creates(r) => threads'[t].messageCount = 2
                    /\ Continues(r) =>
                          threads'[t].messageCount = threads[t].messageCount + 2
    BY <1>0, <1>4, StoresExchange
<1>5. ASSUME NEW u \in User, NEW x \in DOMAIN threads, NEW status \in {"ARCHIVED", "DELETED"},
             SetStatus(u, x, status)
      PROVE  /\ t \in DOMAIN threads
             /\ threads'[t].exchanges = threads[t].exchanges
             /\ threads'[t].messageCount = threads[t].messageCount
    BY <1>0, <1>5, StatusSet
<1>6. \/ UNCHANGED threads
      \/ \E r \in Request, u \in User, selection \in SelectionChars,
             context \in ContextChars : BeginCreate(r, u, selection, context)
      \/ \E r \in Request : Creates(r) \/ Continues(r)
      \/ \E u \in User, x \in DOMAIN threads, status \in {"ARCHIVED", "DELETED"} :
            SetStatus(u, x, status)
    BY DEF Next, vars, Creates, Continues, BeginContinue, BeginPin, BeginEvolve,
       BeginStore, FailAsked, StoreFirstSnapshot, SkipFirstSnapshot, StoreManualSnapshot, StoreChild,
       ReadEvidence, StorePin
<1>7. ASSUME NEW r \in Request, Creates(r) \/ Continues(r)
      PROVE  \/ /\ t \in DOMAIN threads
                /\ threads'[t].exchanges = threads[t].exchanges
                /\ threads'[t].messageCount = threads[t].messageCount
             \/ /\ t \in DOMAIN threads
                /\ \E e \in Exchange :
                      /\ Creates(r) \/ Continues(r)
                      /\ req[r].thread = t /\ e.by = r
                      /\ threads'[t].exchanges = Append(threads[t].exchanges, e)
                      /\ Creates(r) => threads'[t].messageCount = 2
                      /\ Continues(r) =>
                            threads'[t].messageCount = threads[t].messageCount + 2
    <2>1. CASE t = req[r].thread
        BY <1>4, <1>7, <2>1
    <2>2. CASE t # req[r].thread
        BY <1>3, <1>7, <2>2
    <2> QED
        BY <2>1, <2>2
<1>8. CASE \E r \in Request, u \in User, selection \in SelectionChars,
             context \in ContextChars : BeginCreate(r, u, selection, context)
    BY <1>2, <1>8
<1>9. CASE \E r \in Request : Creates(r) \/ Continues(r)
    <2>1. PICK r \in Request : Creates(r) \/ Continues(r)
        BY <1>9
    <2> QED
        BY <1>7, <2>1
<1>10. CASE \E u \in User, x \in DOMAIN threads, status \in {"ARCHIVED", "DELETED"} :
               SetStatus(u, x, status)
    BY <1>5, <1>10
<1> QED
    BY <1>1, <1>6, <1>8, <1>9, <1>10

\* A request that stores an exchange goes on, and so do the others.
LEMMA Stores ==
    ASSUME TypeOK, NEW r \in Request, Creates(r) \/ Continues(r)
    PROVE  /\ req[r].op \in {"create", "continue"} /\ req[r].phase = "storing"
           /\ Continues(r) => req[r].op = "continue"
           /\ Creates(r) => req[r].op = "create"
           /\ req'[r].phase \in {"stored", "done"}
           /\ SameBut(r, {"phase"})
<1>1. PICK x \in {"stored", "done"} : req' = [req EXCEPT ![r].phase = x]
    BY DEF Creates, FinishCreate, Continues, FinishContinue
<1>2. SameBut(r, {"phase"}) /\ req'[r].phase = x
    BY <1>1, PhaseChanged
<1> QED
    BY <1>2 DEF Creates, FinishCreate, Continues, FinishContinue

\* Exchanges are those of requests that were waiting and do not any more.
LEMMA ExchangesPreserved == ConversationsInv /\ [Next]_vars => ExchangesAreStored'
<1> SUFFICES ASSUME ConversationsInv, [Next]_vars,
                    NEW t \in DOMAIN threads', NEW i \in DOMAIN threads'[t].exchanges
             PROVE  LET q == req'[threads'[t].exchanges[i].by] IN
                    /\ q.thread = t
                    /\ q.op \in {"create", "continue"}
                    /\ q.phase \in {"stored", "done"}
    BY DEF ExchangesAreStored
<1>0. TypeOK /\ ExchangesAreStored
    BY DEF ConversationsInv
<1>1. ASSUME NEW x \in Request, req[x].thread = t, req[x].op \in {"create", "continue"},
             req[x].phase \in {"stored", "done"}
      PROVE  /\ req'[x].thread = t
             /\ req'[x].op \in {"create", "continue"}
             /\ req'[x].phase \in {"stored", "done"}
    <2>1. CASE GoOn
        BY <1>1, <2>1 DEF GoOn
    <2>2. ASSUME NEW r \in Request, Begins(r) PROVE req'[x] = req[x]
        BY <1>1, <2>2 DEF Begins
    <2> QED
        BY <1>1, <2>1, <2>2, GoOnOrBegin
<1>2. ASSUME t \in DOMAIN threads, NEW j \in DOMAIN threads[t].exchanges,
             NEW x, x = threads[t].exchanges[j].by
      PROVE  /\ req'[x].thread = t
             /\ req'[x].op \in {"create", "continue"}
             /\ req'[x].phase \in {"stored", "done"}
    <2>1. threads[t].exchanges[j] \in Exchange
        BY <1>0, <1>2, Places
    <2>2. x \in Request
        BY <1>2, <2>1 DEF Exchange
    <2>3. /\ req[x].thread = t /\ req[x].op \in {"create", "continue"}
          /\ req[x].phase \in {"stored", "done"}
        BY <1>0, <1>2 DEF ExchangesAreStored
    <2> QED
        BY <1>1, <2>2, <2>3
<1>3. CASE t \notin DOMAIN threads /\ threads'[t].exchanges = <<>>
    BY <1>3
<1>4. CASE t \in DOMAIN threads /\ threads'[t].exchanges = threads[t].exchanges
    BY <1>2, <1>4
<1>5. ASSUME t \in DOMAIN threads, NEW r \in Request, NEW e \in Exchange,
             Creates(r) \/ Continues(r), req[r].thread = t, e.by = r,
             threads'[t].exchanges = Append(threads[t].exchanges, e)
      PROVE  LET q == req'[threads'[t].exchanges[i].by] IN
             /\ q.thread = t
             /\ q.op \in {"create", "continue"}
             /\ q.phase \in {"stored", "done"}
    <2>1. threads[t].exchanges \in Seq(Exchange)
        BY <1>0, <1>5, Places
    <2>2. \/ i \in DOMAIN threads[t].exchanges /\ threads'[t].exchanges[i] = threads[t].exchanges[i]
          \/ threads'[t].exchanges[i] = e
        BY <1>5, <2>1, AppendProperties, LenProperties
    <2>3. /\ req'[r].thread = t
          /\ req'[r].op \in {"create", "continue"}
          /\ req'[r].phase \in {"stored", "done"}
        BY <1>0, <1>5, Stores DEF SameBut
    <2> QED
        BY <1>2, <1>5, <2>2, <2>3
<1> QED
    BY <1>3, <1>4, <1>5, ThreadStep

\* The places of the exchanges that created a subthread.
Creating(t) == {i \in DOMAIN threads[t].exchanges : req[threads[t].exchanges[i].by].op = "create"}

FirstOf(creating) == IF creating = {} THEN 1 ELSE CHOOSE i \in creating : TRUE

\* The count of messages stays exact.
LEMMA CountPreserved == ConversationsInv /\ [Next]_vars => CountIsExact'
<1> SUFFICES ASSUME ConversationsInv, [Next]_vars, NEW t \in DOMAIN threads'
             PROVE  threads'[t].messageCount
                       = 2 * (Len(threads'[t].exchanges) - FirstOf(Creating(t)') + 1)
    BY DEF CountIsExact, Creating, FirstOf
<1>0. TypeOK /\ ExchangesAreStored /\ CreatorIsOne /\ TypeOK'
    BY TypePreserved DEF ConversationsInv
<1>1. ASSUME t \in DOMAIN threads
      PROVE  threads[t].messageCount
                = 2 * (Len(threads[t].exchanges) - FirstOf(Creating(t)) + 1)
    BY <1>1 DEF ConversationsInv, CountIsExact, Creating, FirstOf
<1>2. ASSUME t \in DOMAIN threads, NEW i \in DOMAIN threads[t].exchanges
      PROVE  /\ threads[t].exchanges[i].by \in Request
             /\ req'[threads[t].exchanges[i].by].op = req[threads[t].exchanges[i].by].op
    <2>1. threads[t].exchanges[i] \in Exchange
        BY <1>0, <1>2, Places
    <2>2. PICK x \in Request : x = threads[t].exchanges[i].by
        BY <2>1 DEF Exchange
    <2>3. req[x].op # "none"
        BY <1>0, <1>2, <2>2 DEF ExchangesAreStored
    <2>4. req'[x].op = req[x].op
        BY <2>3, GoOnOrBegin DEF GoOn, Begins
    <2> QED
        BY <2>2, <2>4
<1>3. CASE /\ t \notin DOMAIN threads
           /\ threads'[t].exchanges = <<>> /\ threads'[t].messageCount = 0
    <2>1. Creating(t)' = {}
        BY <1>3 DEF Creating
    <2> QED
        BY <1>3, <2>1 DEF FirstOf
<1>4. CASE /\ t \in DOMAIN threads
           /\ threads'[t].exchanges = threads[t].exchanges
           /\ threads'[t].messageCount = threads[t].messageCount
    <2>1. Creating(t)' = Creating(t)
        BY <1>2, <1>4 DEF Creating
    <2> QED
        BY <1>1, <1>4, <2>1
<1>5. ASSUME t \in DOMAIN threads, NEW r \in Request, NEW e \in Exchange,
             req[r].thread = t, e.by = r, Creates(r) \/ Continues(r),
             threads'[t].exchanges = Append(threads[t].exchanges, e),
             Creates(r) => threads'[t].messageCount = 2,
             Continues(r) => threads'[t].messageCount = threads[t].messageCount + 2
      PROVE  threads'[t].messageCount
                = 2 * (Len(threads'[t].exchanges) - FirstOf(Creating(t)') + 1)
    <2> DEFINE x == threads[t].exchanges
               y == threads'[t].exchanges
    <2>1. x \in Seq(Exchange) /\ Len(x) \in Nat /\ DOMAIN x = 1..Len(x)
        BY <1>0, <1>5, Places
    <2>2. /\ Len(y) = Len(x) + 1 /\ DOMAIN y = 1..(Len(x) + 1)
          /\ y[Len(x) + 1] = e /\ \A i \in DOMAIN x : y[i] = x[i]
        BY <1>5, <2>1, AppendProperties, LenProperties
    <2>3. req'[r].op = req[r].op
        BY <1>0, <1>5, Stores DEF SameBut
    <2>4. CASE Creates(r)
        <3>1. Creating(t) = {}
            <4> SUFFICES ASSUME NEW i \in Creating(t) PROVE FALSE
                OBVIOUS
            <4>1. PICK q \in Request : q = x[i].by
                BY <1>2, <1>5 DEF Creating
            <4>2. req[q].op = "create" /\ req[q].thread = t /\ req[q].phase # "storing"
                BY <1>0, <1>5, <4>1 DEF Creating, ExchangesAreStored
            <4>3. q = r
                BY <1>0, <1>5, <2>4, <4>2, Stores DEF CreatorIsOne
            <4> QED
                BY <1>0, <1>5, <4>2, <4>3, Stores
        <3>2. Creating(t)' = {Len(x) + 1}
            <4>1. \A i \in DOMAIN x : req'[y[i].by].op # "create"
                BY <1>2, <1>5, <2>2, <3>1 DEF Creating
            <4>2. req'[y[Len(x) + 1].by].op = "create"
                BY <1>0, <1>5, <2>2, <2>3, <2>4, Stores
            <4>3. Creating(t)' = {i \in 1..(Len(x) + 1) : req'[y[i].by].op = "create"}
                BY <2>2 DEF Creating
            <4> HIDE DEF x, y
            <4> QED
                BY <2>1, <4>1, <4>2, <4>3
        <3>3. FirstOf(Creating(t)') = Len(x) + 1
            BY <3>2 DEF FirstOf
        <3> QED
            BY <1>5, <2>1, <2>2, <2>4, <3>3
    <2>5. CASE Continues(r)
        <3>1. Creating(t)' = Creating(t)
            <4>1. \A i \in DOMAIN x : req'[y[i].by].op = req[x[i].by].op
                BY <1>2, <1>5, <2>2
            <4>2. req'[y[Len(x) + 1].by].op # "create"
                BY <1>0, <1>5, <2>2, <2>3, <2>5, Stores
            <4>3. Creating(t)' = {i \in 1..(Len(x) + 1) : req'[y[i].by].op = "create"}
                BY <2>2 DEF Creating
            <4>4. Creating(t) = {i \in 1..Len(x) : req[x[i].by].op = "create"}
                BY <2>1 DEF Creating
            <4> HIDE DEF x, y
            <4> QED
                BY <2>1, <4>1, <4>2, <4>3, <4>4
        <3>2. FirstOf(Creating(t)) \in Nat
            BY <2>1 DEF FirstOf, Creating
        <3> QED
            BY <1>1, <1>5, <2>1, <2>2, <2>5, <3>1, <3>2
    <2> QED
        BY <1>5, <2>4, <2>5
<1> QED
    BY <1>3, <1>4, <1>5, ThreadStep

-----------------------------------------------------------------------------
(* Lineages *)

\* uniqLimit keeps at most as many notes as it says.
LEMMA NotesLimited == ASSUME NEW notes PROVE Len(UniqLimit(notes)) <= NoteLimit
<1> DEFINE distinct == FoldLeft(LAMBDA seen, n : IF n \in ToSet(seen) THEN seen
                                                 ELSE Append(seen, n),
                                <<>>, notes)
<1>1. UniqLimit(notes) = IF Len(distinct) <= NoteLimit THEN distinct
                         ELSE SubSeq(distinct, 1, NoteLimit)
    BY DEF UniqLimit
<1> HIDE DEF distinct
<1>2. Len(SubSeq(distinct, 1, NoteLimit)) = NoteLimit /\ NoteLimit \in Nat
    BY LimitsAreNaturals
<1> QED
    BY <1>1, <1>2

\* What a step adds to the snapshots: a root, or the only child of one.
LEMMA SnapshotStep ==
    ASSUME ConversationsInv, [Next]_vars
    PROVE  \/ UNCHANGED snapshots
           \/ \E u, t, notes, e : snapshots' = Append(snapshots, RootSnapshot(u, t, notes, e))
           \/ \E s \in DOMAIN snapshots, added \in Additions :
                 ChildrenOf(s) = {} /\ snapshots' = Append(snapshots, ChildOf(s, added))
<1>1. ASSUME NEW r \in Request, NEW added \in Additions, StoreChild(r, added)
      PROVE  \/ UNCHANGED snapshots
             \/ \E s \in DOMAIN snapshots :
                   ChildrenOf(s) = {} /\ snapshots' = Append(snapshots, ChildOf(s, added))
    <2>1. req[r].snapshot \in DOMAIN snapshots
        BY <1>1 DEF StoreChild, ConversationsInv, Known
    <2>2. snapshots' = UpsertChild(req[r].snapshot, added)
        BY <1>1 DEF StoreChild
    <2> QED
        BY <2>1, <2>2 DEF UpsertChild
<1>2. ASSUME NEW r \in Request, StoreFirstSnapshot(r) \/ StorePin(r)
      PROVE  \E u, t, notes, e : snapshots' = Append(snapshots, RootSnapshot(u, t, notes, e))
    BY <1>2 DEF StoreFirstSnapshot, StorePin
<1>3. ASSUME NEW u \in User, NEW t \in DOMAIN threads \cup {NoThread}, NEW notes \in ManualNotes,
             StoreManualSnapshot(u, t, notes)
      PROVE  \E x, y, n, e : snapshots' = Append(snapshots, RootSnapshot(x, y, n, e))
    BY <1>3 DEF StoreManualSnapshot
<1> QED
    BY <1>1, <1>2, <1>3 DEF Next, vars, BeginCreate, Creates, FinishCreate, BeginContinue,
       Continues, FinishContinue, BeginStore, FailAsked, SetStatus, SkipFirstSnapshot, BeginEvolve, BeginPin,
       ReadEvidence

\* One snapshot of a sound lineage.
Lineage(s) ==
    LET x == snapshots[s] IN
    /\ x.parent = NoSnapshot => x.rev = 0 /\ x.root = s
    /\ x.parent # NoSnapshot =>
          LET p == snapshots[x.parent] IN
          /\ x.parent < s
          /\ x.rev = p.rev + 1 /\ x.root = p.root /\ x.user = p.user
          /\ x.thread = p.thread /\ x.evidence = p.evidence
          /\ Len(x.notes) <= NoteLimit
          /\ ChildrenOf(x.parent) = {s}

LEMMA LineageIsOfEach == LineageIsSound <=> \A s \in DOMAIN snapshots : Lineage(s)
BY DEF LineageIsSound, Lineage

\* The lineages stay sound.
LEMMA LineagePreserved == ConversationsInv /\ [Next]_vars => LineageIsSound'
<1> SUFFICES ASSUME ConversationsInv, [Next]_vars,
                    NEW s \in DOMAIN snapshots'
             PROVE  Lineage(s)'
    BY LineageIsOfEach DEF LineageIsSound, Lineage
<1>0. /\ TypeOK /\ \A x \in DOMAIN snapshots : Lineage(x)
      /\ Len(snapshots) \in Nat /\ DOMAIN snapshots = 1..Len(snapshots)
      /\ NoSnapshot = 0
      /\ \A x \in DOMAIN snapshots : snapshots[x] \in SnapshotRecord(snapshots[x])
    BY LineageIsOfEach, Places DEF ConversationsInv, NoSnapshot, TypeOK, SnapshotsType
<1>1. CASE UNCHANGED snapshots
    BY <1>0, <1>1 DEF Lineage, ChildrenOf
<1> DEFINE n == Len(snapshots) + 1
<1>2. ASSUME NEW y, snapshots' = Append(snapshots, y)
      PROVE  /\ DOMAIN snapshots' = 1..n
             /\ snapshots'[n] = y
             /\ \A x \in DOMAIN snapshots : snapshots'[x] = snapshots[x]
             /\ \A p : p # y.parent => ChildrenOf(p)' = ChildrenOf(p)
             /\ ChildrenOf(y.parent)' = ChildrenOf(y.parent) \cup {n}
    <2>1. /\ DOMAIN snapshots' = DOMAIN snapshots \cup {n} /\ n \notin DOMAIN snapshots
          /\ snapshots'[n] = y /\ \A x \in DOMAIN snapshots : snapshots'[x] = snapshots[x]
        BY <1>0, <1>2, SnapshotsStay
    <2>2. DOMAIN snapshots' = 1..n
        BY <1>0, <2>1
    <2> HIDE DEF n
    <2> QED
        BY <2>1, <2>2 DEF ChildrenOf
\* A snapshot that was there keeps its lineage: the new one is not a child of
\* its parent.
<1>3. ASSUME NEW y, snapshots' = Append(snapshots, y), s \in DOMAIN snapshots,
             y.parent # NoSnapshot => ChildrenOf(y.parent) = {}
      PROVE  Lineage(s)'
    <2>1. snapshots'[s] = snapshots[s] /\ Lineage(s)
        BY <1>0, <1>2, <1>3
    <2>2. CASE snapshots[s].parent = NoSnapshot
        BY <2>1, <2>2 DEF Lineage
    <2>3. CASE snapshots[s].parent # NoSnapshot
        <3> DEFINE p == snapshots[s].parent
        <3>0. p \in Nat /\ s \in 1..Len(snapshots) /\ p < s /\ ChildrenOf(p) = {s}
            <4>1. p \in Nat
                BY <1>0, <1>3 DEF SnapshotRecord
            <4> QED
                BY <1>0, <1>3, <2>1, <2>3, <4>1 DEF Lineage
        <3>1. p \in DOMAIN snapshots /\ ChildrenOf(p) = {s}
            <4> HIDE DEF p
            <4>1. p # 0
                BY <1>0, <2>3 DEF p
            <4> QED
                BY <1>0, <3>0, <4>1
        <3>2. snapshots'[p] = snapshots[p] /\ ChildrenOf(p)' = ChildrenOf(p)
            BY <1>2, <1>3, <2>3, <3>1
        <3>3. ChildrenOf(snapshots[s].parent)' = {s}
            BY <2>1, <3>1, <3>2 DEF ChildrenOf
        <3> QED
            BY <2>1, <2>3, <3>2, <3>3 DEF Lineage
    <2> QED
        BY <2>2, <2>3
<1>4. ASSUME NEW u, NEW t, NEW notes, NEW e,
             snapshots' = Append(snapshots, RootSnapshot(u, t, notes, e))
      PROVE  Lineage(s)'
    <2> DEFINE y == RootSnapshot(u, t, notes, e)
    <2>1. y.parent = NoSnapshot /\ y.rev = 0 /\ y.root = n
        BY DEF RootSnapshot
    <2> HIDE DEF y
    <2>2. snapshots' = Append(snapshots, y)
        BY <1>4 DEF y
    <2>3. CASE s \in DOMAIN snapshots
        BY <1>3, <2>1, <2>2, <2>3
    <2>4. CASE s = n
        BY <1>2, <2>1, <2>2, <2>4 DEF Lineage
    <2> QED
        BY <1>0, <1>2, <2>2, <2>3, <2>4
<1>5. ASSUME NEW p \in DOMAIN snapshots, NEW added \in Additions, ChildrenOf(p) = {},
             snapshots' = Append(snapshots, ChildOf(p, added))
      PROVE  Lineage(s)'
    <2> DEFINE y == ChildOf(p, added)
               x == snapshots[p]
    <2>1. /\ y.parent = p /\ y.rev = x.rev + 1 /\ y.root = x.root /\ y.user = x.user
          /\ y.thread = x.thread /\ y.evidence = x.evidence
          /\ y.notes = UniqLimit(NotesOf(p) \o added)
        <3>1. PICK z, notes : /\ z = y /\ notes = UniqLimit(NotesOf(p) \o added)
                              /\ z = [x EXCEPT !.parent = p, !.rev = @ + 1, !.notes = notes]
            BY DEF ChildOf
        <3>2. p \in Nat /\ x \in SnapshotRecord(x)
            BY <1>0
        <3> HIDE DEF x, y
        <3>3. z = [x EXCEPT !.parent = p, !.rev = @ + 1, !.notes = notes]
            BY <3>1
        <3>4. /\ z.parent = p /\ z.rev = x.rev + 1 /\ z.notes = notes
              /\ z.root = x.root /\ z.user = x.user /\ z.thread = x.thread
              /\ z.evidence = x.evidence
            BY <3>2, <3>3 DEF SnapshotRecord
        <3> QED
            BY <3>1, <3>4
    <2>2. Len(y.notes) <= NoteLimit
        BY <2>1, NotesLimited
    <2> HIDE DEF y
    <2>3. snapshots' = Append(snapshots, y)
        BY <1>5 DEF y
    <2>4. CASE s \in DOMAIN snapshots
        BY <1>3, <1>5, <2>1, <2>3, <2>4
    <2>5. CASE s = n
        <3>1. snapshots'[n] = y /\ snapshots'[p] = x /\ ChildrenOf(p)' = {n}
            BY <1>2, <1>5, <2>1, <2>3
        <3>2. p < n /\ p # NoSnapshot
            BY <1>0
        <3>3. ChildrenOf(snapshots[s].parent)' = {s}
            BY <2>1, <2>5, <3>1 DEF ChildrenOf
        <3> QED
            BY <2>1, <2>2, <2>5, <3>1, <3>2, <3>3 DEF Lineage
    <2> QED
        BY <1>0, <1>2, <2>3, <2>4, <2>5
<1> QED
    BY <1>1, <1>4, <1>5, SnapshotStep

-----------------------------------------------------------------------------
(* The theorems *)

LEMMA InitInvariant == Init => ConversationsInv
<1> SUFFICES ASSUME Init PROVE ConversationsInv
    OBVIOUS
<1>1. threads = <<>> /\ snapshots = <<>> /\ req = [r \in Request |-> Unsent]
    BY DEF Init
<1>2. DOMAIN threads = {} /\ DOMAIN snapshots = {}
    BY <1>1
<1>3. TypeOK
    <2>1. Unsent \in RequestRecord(Unsent)
        BY DEF Unsent, RequestRecord, NoThread, NoSnapshot
    <2>2. RequestsType
        BY <1>1, <2>1 DEF RequestsType
    <2>3. IsSequence(snapshots) /\ threads \in Seq(ThreadRecord)
        BY <1>1, EmptySeq DEF IsSequence
    <2> QED
        BY <1>2, <2>2, <2>3 DEF TypeOK, SnapshotsType
<1>4. /\ Unsent.phase = "unsent" /\ Unsent.op = "none" /\ Unsent.child = NoSnapshot
    BY DEF Unsent
<1>5. \A r \in Request : req[r] = Unsent
    BY <1>1
<1>6. \A r \in Request : Known(r) /\ PinIsBased(r)
    <2> SUFFICES ASSUME NEW r \in Request PROVE Known(r) /\ PinIsBased(r)
        OBVIOUS
    <2>1. req[r] = Unsent /\ req[r].phase = "unsent" /\ req[r].op = "none" /\ req[r].child = NoSnapshot
        BY <1>4, <1>5
    <2> QED
        BY <2>1 DEF Known, PinIsBased, PhasesOf
<1>7. CreatorIsOne
    BY <1>4, <1>5 DEF CreatorIsOne
<1> QED
    BY <1>2, <1>3, <1>6, <1>7 DEF ConversationsInv, ExchangesAreStored, CountIsExact,
       LineageIsSound

LEMMA StepInvariant == ConversationsInv /\ [Next]_vars => ConversationsInv'
BY TypePreserved, KnownPreserved, CreatorPreserved, ExchangesPreserved, CountPreserved,
   LineagePreserved DEF ConversationsInv

\* The inductive invariant: the types, what the requests know of subthreads
\* and snapshots, that a subthread has one creator, that exchanges are of
\* requests that stored them, the counts and the lineages.
THEOREM ConversationsInvariant == Spec => []ConversationsInv
<1>1. Init => ConversationsInv
    BY InitInvariant
<1>2. ConversationsInv /\ [Next]_vars => ConversationsInv'
    BY StepInvariant
<1> QED
    BY <1>1, <1>2, PTL DEF Spec

\* Whoever continues a subthread while it is created and in whatever order the
\* transactions come, messageCount is the number of the messages from the
\* creating exchange on.
THEOREM CountStaysExact == Spec => []CountIsExact
<1>1. ConversationsInv => CountIsExact
    BY DEF ConversationsInv
<1> QED
    BY <1>1, ConversationsInvariant, PTL

\* However many requests evolve whichever snapshots at the same time, the
\* snapshots form chains of one user, one subthread and one evidence.
THEOREM LineageStaysSound == Spec => []LineageIsSound
<1>1. ConversationsInv => LineageIsSound
    BY DEF ConversationsInv
<1> QED
    BY <1>1, ConversationsInvariant, PTL

\* A pin is of the snapshot that it was based on and of what the subthread
\* held when the evidence was read.
THEOREM PinnedStaysOfItsThread == Spec => []PinnedIsOfItsThread
<1>1. ConversationsInv => PinnedIsOfItsThread
    <2> SUFFICES ASSUME ConversationsInv, NEW r \in Request,
                        req[r].op = "pin", req[r].child # NoSnapshot
                 PROVE  LET pin == snapshots[req[r].child]
                            base == snapshots[req[r].snapshot]
                            x == threads[pin.thread].exchanges
                        IN  /\ pin.user = threads[pin.thread].user
                            /\ pin.user = base.user /\ pin.thread = base.thread
                            /\ pin.notes = base.notes
                            /\ \E n \in 0..Len(x) : pin.evidence = EvidenceOf(SubSeq(x, 1, n))
        BY DEF PinnedIsOfItsThread
    <2>1. Known(r) /\ PinIsBased(r)
        BY DEF ConversationsInv
    <2>2. req[r].phase = "done"
        BY <2>1 DEF Known
    <2>3. StoodOnce(req[r].thread, req[r].evidence)
        BY <2>1, <2>2 DEF PinIsBased
    <2> DEFINE pin == snapshots[req[r].child]
               base == snapshots[req[r].snapshot]
    <2>4. /\ pin.thread = req[r].thread /\ pin.user = req[r].user
          /\ pin.evidence = req[r].evidence /\ pin.notes = base.notes
          /\ base.user = req[r].user /\ base.thread = req[r].thread
          /\ threads[req[r].thread].user = req[r].user
        BY <2>1 DEF PinIsBased
    <2> HIDE DEF pin, base
    <2>5. StoodOnce(pin.thread, pin.evidence)
        BY <2>3, <2>4
    <2> QED
        BY <2>4, <2>5 DEF StoodOnce, pin, base
<1> QED
    BY <1>1, ConversationsInvariant, PTL

\* It waits for its answer, or stores it.
WaitsFor(q) == q.phase \in {"asked", "storing"}

\* Where a step of the requests leads: who is done stays so, and who waits in
\* a subthread waited there before, or the subthread was active or new.
LEMMA WaitsAndDone ==
    ASSUME ConversationsInv, [Next]_vars, NEW r \in Request
    PROVE  /\ req[r].phase = "done" => req'[r] = req[r]
           /\ WaitsFor(req'[r]) /\ req'[r].thread \in DOMAIN threads =>
                 \/ WaitsFor(req[r]) /\ req[r].thread = req'[r].thread
                 \/ threads[req'[r].thread].status = "ACTIVE"
<1> DEFINE Goal == /\ req[r].phase = "done" => req'[r] = req[r]
                   /\ WaitsFor(req'[r]) /\ req'[r].thread \in DOMAIN threads =>
                         \/ WaitsFor(req[r]) /\ req[r].thread = req'[r].thread
                         \/ threads[req'[r].thread].status = "ACTIVE"
<1>0. TypeOK /\ DOMAIN req = Request
    BY DEF ConversationsInv, TypeOK, RequestsType
<1>1. CASE req'[r] = req[r]
    BY <1>1
<1>2. ASSUME NEW q \in Request, NEW phase, NEW op, NEW u, NEW t, NEW n, NEW s,
             req[q].phase = "unsent",
             req' = [req EXCEPT ![q] = Begun(phase, op, u, t, n, s)],
             \/ phase \notin {"asked", "storing"} \/ t \notin DOMAIN threads \/ threads[t].status = "ACTIVE"
      PROVE  Goal
    <2>1. CASE q = r
        <3>1. req'[r].phase = phase /\ req'[r].thread = t
            BY <1>0, <1>2, <2>1 DEF Begun
        <3> QED
            BY <1>2, <2>1, <3>1 DEF WaitsFor
    <2>2. CASE q # r
        BY <1>0, <1>1, <1>2, <2>2
    <2> QED
        BY <2>1, <2>2
<1>3. ASSUME NEW q \in Request, NEW fields, SameBut(q, fields),
             req[q].phase # "done", WaitsFor(req'[q]) => WaitsFor(req[q])
      PROVE  Goal
    BY <1>1, <1>3 DEF SameBut
<1> HIDE DEF Goal
<1>4. ASSUME NEW q \in Request, NEW u \in User, NEW selection \in SelectionChars,
             NEW context \in ContextChars, BeginCreate(q, u, selection, context)
      PROVE  Goal
    <2>1. req' = [req EXCEPT ![q] = Begun("asked", "create", u, Len(threads) + 1, 0, NoSnapshot)]
        BY <1>4, RequestSteps
    <2>2. req[q].phase = "unsent" /\ Len(threads) + 1 \notin DOMAIN threads
        BY <1>0, <1>4, Places DEF BeginCreate
    <2> QED
        BY <1>2, <2>1, <2>2
<1>5. ASSUME NEW q \in Request, NEW u \in User, NEW t \in DOMAIN threads,
             BeginContinue(q, u, t) \/ BeginPin(q, u, t)
      PROVE  Goal
    <2>1. req[q].phase = "unsent"
        BY <1>5 DEF BeginContinue, BeginPin
    <2>2. CASE BeginContinue(q, u, t)
        <3>1. PICK n \in Nat :
                req' = [req EXCEPT ![q] = Begun("asked", "continue", u, t, n, NoSnapshot)]
            BY <2>2, RequestSteps
        <3>2. threads[t].status = "ACTIVE"
            BY <2>2 DEF BeginContinue, Readable
        <3> QED
            BY <1>2, <2>1, <3>1, <3>2
    <2>3. CASE BeginPin(q, u, t)
        <3>1. PICK s \in SnapshotsFor(u, t) :
                req' = [req EXCEPT ![q] = Begun("based", "pin", u, t, 0, s)]
            BY <2>3, RequestSteps
        <3> QED
            BY <1>2, <2>1, <3>1
    <2> QED
        BY <1>5, <2>2, <2>3
<1>6. ASSUME NEW q \in Request, NEW u \in User, NEW s \in DOMAIN snapshots, BeginEvolve(q, u, s)
      PROVE  Goal
    <2>1. req' = [req EXCEPT ![q] = Begun("asked", "evolve", u, NoThread, 0, s)]
        BY <1>6, RequestSteps
    <2>2. req[q].phase = "unsent" /\ NoThread \notin DOMAIN threads
        BY <1>0, <1>6, Places DEF BeginEvolve
    <2> QED
        BY <1>2, <2>1, <2>2
<1>7. ASSUME NEW q \in Request,
             \/ Creates(q) \/ Continues(q) \/ FailAsked(q)
             \/ StoreFirstSnapshot(q) \/ SkipFirstSnapshot(q)
      PROVE  Goal
    <2>1. PICK x \in {"stored", "done", "failed"} :
            req' = [req EXCEPT ![q].phase = x] /\ req[q].phase \in {"asked", "storing", "stored"}
        BY <1>7 DEF Creates, FinishCreate, Continues, FinishContinue, FailAsked,
           StoreFirstSnapshot, SkipFirstSnapshot
    <2>2. SameBut(q, {"phase"}) /\ req'[q].phase = x
        BY <1>0, <2>1, PhaseChanged
    <2>3. req[q].phase # "done" /\ ~ WaitsFor(req'[q])
        BY <2>1, <2>2 DEF WaitsFor
    <2> QED
        BY <1>3, <2>2, <2>3
<1>8. ASSUME NEW q \in Request,
             \/ StorePin(q)
             \/ \E added \in Additions : StoreChild(q, added)
      PROVE  Goal
    <2>1. PICK n : req' = [req EXCEPT ![q].phase = "done", ![q].child = n]
        BY <1>8 DEF StorePin, StoreChild
    <2>2. SameBut(q, {"phase", "child"}) /\ req'[q].phase = "done"
        BY <1>0, <2>1, ChildAnswered
    <2>3. req[q].phase # "done"
        BY <1>8 DEF StorePin, StoreChild
    <2>4. ~ WaitsFor(req'[q])
        BY <2>2 DEF WaitsFor
    <2> QED
        BY <1>3, <2>2, <2>3, <2>4
<1>9. ASSUME NEW q \in Request, ReadEvidence(q) PROVE Goal
    <2>1. PICK e, x : req' = [req EXCEPT ![q].evidence = e, ![q].phase = x] /\ x \in {"judged", "failed"}
        BY <1>9 DEF ReadEvidence
    <2>2. SameBut(q, {"phase", "evidence"}) /\ req'[q].phase = x
        BY <1>0, <2>1, EvidenceRead
    <2>3. req[q].phase # "done" /\ ~ WaitsFor(req'[q])
        BY <1>9, <2>1, <2>2 DEF ReadEvidence, WaitsFor
    <2> QED
        BY <1>3, <2>2, <2>3
<1>10. ASSUME UNCHANGED req PROVE Goal
    BY <1>10 DEF Goal
<1>13. ASSUME NEW q \in Request, BeginStore(q) PROVE Goal
    <2>1. SameBut(q, {"phase"}) /\ req[q].phase = "asked"
        BY <1>0, <1>13, StoreBegun
    <2>2. WaitsFor(req[q])
        BY <2>1 DEF WaitsFor
    <2> QED
        BY <1>3, <2>1, <2>2
<1>11. \/ \E q \in Request, u \in User, selection \in SelectionChars,
             context \in ContextChars : BeginCreate(q, u, selection, context)
       \/ \E q \in Request, u \in User, t \in DOMAIN threads :
             BeginContinue(q, u, t) \/ BeginPin(q, u, t)
       \/ \E q \in Request, u \in User, s \in DOMAIN snapshots : BeginEvolve(q, u, s)
       \/ \E q \in Request :
             \/ Creates(q) \/ Continues(q) \/ FailAsked(q)
             \/ StoreFirstSnapshot(q) \/ SkipFirstSnapshot(q)
       \/ \E q \in Request :
             StorePin(q) \/ \E added \in Additions : StoreChild(q, added)
       \/ \E q \in Request : ReadEvidence(q)
       \/ \E q \in Request : BeginStore(q)
       \/ UNCHANGED req
    BY DEF Next, vars, Creates, Continues, SetStatus, StoreManualSnapshot
<1>12. Goal
    <2>1. CASE \E q \in Request, u \in User, selection \in SelectionChars,
             context \in ContextChars : BeginCreate(q, u, selection, context)
        BY <1>4, <2>1
    <2>2. CASE \E q \in Request, u \in User, t \in DOMAIN threads :
                  BeginContinue(q, u, t) \/ BeginPin(q, u, t)
        BY <1>5, <2>2
    <2>3. CASE \E q \in Request, u \in User, s \in DOMAIN snapshots : BeginEvolve(q, u, s)
        BY <1>6, <2>3
    <2>4. CASE \E q \in Request :
                  \/ Creates(q) \/ Continues(q) \/ FailAsked(q)
                  \/ StoreFirstSnapshot(q) \/ SkipFirstSnapshot(q)
        BY <1>7, <2>4
    <2>5. CASE \E q \in Request :
                  StorePin(q) \/ \E added \in Additions : StoreChild(q, added)
        <3>1. PICK q \in Request : StorePin(q) \/ \E added \in Additions : StoreChild(q, added)
            BY <2>5
        <3> QED
            BY <1>8, <3>1
    <2>6. CASE \E q \in Request : ReadEvidence(q)
        BY <1>9, <2>6
    <2>7. CASE \E q \in Request : BeginStore(q)
        BY <1>13, <2>7
    <2> QED
        BY <1>10, <1>11, <2>1, <2>2, <2>3, <2>4, <2>5, <2>6, <2>7
<1> QED
    BY <1>12 DEF Goal

\* A subthread that was left stays left.
LEMMA StatusStays ==
    ASSUME ConversationsInv, [Next]_vars, NEW t \in DOMAIN threads, threads[t].status # "ACTIVE"
    PROVE  threads'[t].status # "ACTIVE"
<1>0. TypeOK /\ \A r \in Request : Known(r)
    BY DEF ConversationsInv
<1>1. CASE UNCHANGED threads
    BY <1>1
<1>2. ASSUME NEW r \in Request, NEW u \in User, NEW selection \in SelectionChars,
             NEW context \in ContextChars, BeginCreate(r, u, selection, context)
      PROVE  threads'[t].status # "ACTIVE"
    BY <1>0, <1>2, ThreadCreated
<1>3. ASSUME NEW r \in Request, Creates(r) \/ Continues(r)
      PROVE  threads'[t].status # "ACTIVE"
    <2>1. CASE t = req[r].thread
        BY <1>0, <1>3, <2>1, StoresExchange
    <2>2. CASE t # req[r].thread
        BY <1>0, <1>3, <2>2, StoresExchange
    <2> QED
        BY <2>1, <2>2
<1>4. ASSUME NEW u \in User, NEW x \in DOMAIN threads, NEW status \in {"ARCHIVED", "DELETED"},
             SetStatus(u, x, status)
      PROVE  threads'[t].status # "ACTIVE"
    BY <1>0, <1>4, StatusSet
<1> QED
    BY <1>1, <1>2, <1>3, <1>4 DEF Next, vars, Creates, Continues, BeginContinue, BeginPin,
       BeginEvolve, BeginStore, FailAsked, StoreFirstSnapshot, SkipFirstSnapshot,
       StoreManualSnapshot, StoreChild, ReadEvidence, StorePin

\* A subthread that was archived or deleted is left for good: it gains no
\* exchanges but those of the requests that waited when it was left.
THEOREM LeftIsLeftForGood == Spec => LeavingIsFinal
<1> DEFINE A == \A t \in DOMAIN threads :
                   threads[t].status # "ACTIVE" =>
                      /\ threads'[t].status # "ACTIVE"
                      /\ Waiting(t)' \subseteq Waiting(t)
                      /\ \A i \in DOMAIN threads'[t].exchanges :
                            \/ i \in DOMAIN threads[t].exchanges
                            \/ threads'[t].exchanges[i].by \in Waiting(t)
<1>1. ConversationsInv /\ [Next]_vars => A
    <2> SUFFICES ASSUME ConversationsInv, [Next]_vars, NEW t \in DOMAIN threads,
                        threads[t].status # "ACTIVE"
                 PROVE  /\ threads'[t].status # "ACTIVE"
                        /\ Waiting(t)' \subseteq Waiting(t)
                        /\ \A i \in DOMAIN threads'[t].exchanges :
                              \/ i \in DOMAIN threads[t].exchanges
                              \/ threads'[t].exchanges[i].by \in Waiting(t)
        OBVIOUS
    <2>1. threads'[t].status # "ACTIVE"
        BY StatusStays
    <2>2. Waiting(t)' \subseteq Waiting(t)
        BY WaitsAndDone DEF Waiting, WaitsFor
    <2>3. ASSUME NEW i \in DOMAIN threads'[t].exchanges, i \notin DOMAIN threads[t].exchanges
          PROVE  threads'[t].exchanges[i].by \in Waiting(t)
        <3>0. TypeOK /\ t \in DOMAIN threads'
            BY StepGrows DEF Grows, ConversationsInv
        <3>1. PICK r \in Request, e \in Exchange :
                /\ Creates(r) \/ Continues(r)
                /\ req[r].thread = t /\ e.by = r
                /\ threads'[t].exchanges = Append(threads[t].exchanges, e)
            BY <2>3, <3>0, ThreadStep
        <3>2. threads'[t].exchanges[i] = e
            <4>1. threads[t].exchanges \in Seq(Exchange)
                BY <3>0, Places
            <4> QED
                BY <2>3, <3>1, <4>1, AppendProperties, LenProperties
        <3>3. req[r].phase = "storing"
            BY <3>0, <3>1, Stores
        <3> QED
            BY <3>1, <3>2, <3>3 DEF Waiting
    <2> QED
        BY <2>1, <2>2, <2>3
<1>2. Spec => [][A]_vars
    BY <1>1, ConversationsInvariant, PTL DEF Spec
<1> QED
    BY <1>2 DEF LeavingIsFinal

\* What a snapshot holds, and which one a request was answered with, stands.
THEOREM SnapshotsStandForGood == Spec => SnapshotsStand
<1> DEFINE A == /\ IsPrefix(snapshots, snapshots')
                /\ \A r \in Request :
                      req[r].child # NoSnapshot => req'[r].child = req[r].child
<1>1. ConversationsInv /\ [Next]_vars => A
    <2> SUFFICES ASSUME ConversationsInv, [Next]_vars PROVE A
        OBVIOUS
    <2>0. TypeOK /\ \A r \in Request : Known(r)
        BY DEF ConversationsInv
    <2>1. IsPrefix(snapshots, snapshots')
        <3>1. Len(snapshots) \in Nat /\ DOMAIN snapshots = 1..Len(snapshots)
            BY <2>0, Places
        <3>2. Len(snapshots) <= Len(snapshots')
            <4>1. UNCHANGED snapshots \/ \E x : snapshots' = Append(snapshots, x)
                BY SnapshotStep
            <4> QED
                BY <2>0, <3>1, <4>1, Appended DEF TypeOK, SnapshotsType
        <3>3. SubSeq(snapshots, 1, Len(snapshots)) = SubSeq(snapshots', 1, Len(snapshots))
            <4>1. \A i \in 1..Len(snapshots) : snapshots'[i] = snapshots[i]
                BY <3>1, StepGrows DEF Grows
            <4>2. ASSUME NEW s PROVE SubSeq(s, 1, Len(snapshots)) = [i \in 1..Len(snapshots) |-> s[i]]
                BY <3>1
            <4> QED
                BY <4>1, <4>2
        <3> QED
            BY <3>2, <3>3 DEF IsPrefix
    <2>2. \A r \in Request : req[r].child # NoSnapshot => req'[r].child = req[r].child
        BY <2>0, WaitsAndDone DEF Known
    <2> QED
        BY <2>1, <2>2
<1>2. Spec => [][A]_vars
    BY <1>1, ConversationsInvariant, PTL DEF Spec
<1> QED
    BY <1>2 DEF SnapshotsStand
=============================================================================
