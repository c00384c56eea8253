----------------------------- MODULE Conversations -----------------------------
(***************************************************************************)
(* Conversations beside a conversation: the subthreads of SubthreadService *)
(* and the state snapshots that are taken of them, evolved and pinned.     *)
(*                                                                         *)
(* A request is split where the code awaits the language model or the      *)
(* database again: what it read before may have changed when it writes.    *)
(* Requests that are refused change nothing and are left out.  Two         *)
(* messages, a question and its answer, are always stored together, with   *)
(* the time at which their transaction began: they are one exchange here.   *)
(* Of texts the length is kept, where it decides; models and token counts   *)
(* are left out.                                                           *)
(***************************************************************************)
EXTENDS Naturals, SequencesExt, FiniteSets

CONSTANTS
    User,
    Request,
    Note,           \* a conclusion, an assumption or an open question
    NoteLimit,      \* uniqLimit: 50, and 20 for open questions
    HistoryLimit,   \* exchanges that continueSubthread reads: 25
    EvidenceLimit,  \* exchanges that a pin keeps: 3
    MinSelection,   \* characters of the selection that a pin asks for: 200
    MinEvidence,    \* characters of all its evidence: 500
    SelectionChars, \* lengths of a selection,
    ContextChars,   \* of the context messages that are evidence, the first 8,
    ExchangeChars,  \* and of a question with its answer
    Additions,      \* what the language model may add to a snapshot
    ManualNotes,    \* what a client may put in a snapshot by hand
    MaxThreads,     \* bound
    MaxSnapshots    \* bound

ASSUME LimitsAreNaturals ==
    {NoteLimit, HistoryLimit, EvidenceLimit, MinSelection, MinEvidence,
     MaxThreads, MaxSnapshots} \subseteq Nat

ASSUME LengthsAreNaturals ==
    SelectionChars \cup ContextChars \cup ExchangeChars \subseteq Nat

ASSUME FiniteRequests == IsFiniteSet(Request)

ASSUME AdditionsAreNotes == Additions \cup ManualNotes \subseteq Seq(Note)

VARIABLES
    threads,    \* the subthreads, in the order of their creation
    snapshots,  \* the snapshots, in the order of their creation
    req         \* what each request has read and what it waits for

vars == <<threads, snapshots, req>>

NoThread == 0
NoSnapshot == 0

Unsent ==
    [phase |-> "unsent", op |-> "none", user |-> "none", thread |-> NoThread,
     seen |-> 0, createdAt |-> 0, snapshot |-> NoSnapshot, evidence |-> <<>>,
     child |-> NoSnapshot]

-----------------------------------------------------------------------------
(* Subthreads *)

NewThread(u, selection, context) ==
    [user |-> u, status |-> "ACTIVE", selection |-> selection, context |-> context,
     messageCount |-> 0, exchanges |-> <<>>]

Owns(u, t) == t \in DOMAIN threads /\ threads[t].user = u

Send(r, record) ==
    req' = [req EXCEPT ![r] = record]

\* createSubthread up to its call of the language model: the subthread is
\* there before its first message is.
BeginCreate(r, u, selection, context) ==
    /\ req[r].phase = "unsent"
    /\ Len(threads) < MaxThreads
    /\ threads' = Append(threads, NewThread(u, selection, context))
    /\ Send(r, [Unsent EXCEPT !.phase = "asked", !.op = "create", !.user = u,
                              !.thread = Len(threads) + 1])
    /\ UNCHANGED snapshots

\* The answer is there and the transaction that stores it begins: its time is
\* the createdAt of both messages.  The clock is the number of transactions.
BeginStore(r) ==
    /\ req[r].op \in {"create", "continue"} /\ req[r].phase = "asked"
    /\ req' = [req EXCEPT ![r].phase = "storing",
                          ![r].createdAt = 1 + Cardinality({q \in Request : req[q].createdAt # 0})]
    /\ UNCHANGED <<threads, snapshots>>

ExchangeOf(r, chars) ==
    [by |-> r, seen |-> req[r].seen, createdAt |-> req[r].createdAt, chars |-> chars]

\* The commit of the first exchange.  It sets the count.
FinishCreate(r, chars) ==
    LET t == req[r].thread IN
    /\ req[r].op = "create" /\ req[r].phase = "storing"
    /\ threads' = [threads EXCEPT ![t].exchanges = Append(@, ExchangeOf(r, chars)),
                                  ![t].messageCount = 2]
    /\ req' = [req EXCEPT ![r].phase = "stored"]
    /\ UNCHANGED snapshots

\* Mutant of Readable: a subthread is found in whatever status it is.
ReadableInAnyStatus(u, t) == Owns(u, t)

Readable(u, t) == Owns(u, t) /\ threads[t].status = "ACTIVE"

\* continueSubthread up to its call of the language model, which is shown
\* the oldest messages (orderBy createdAt asc, take 50).
BeginContinue(r, u, t) ==
    /\ req[r].phase = "unsent"
    /\ Readable(u, t)
    /\ Send(r, [Unsent EXCEPT
                  !.phase = "asked", !.op = "continue", !.user = u, !.thread = t,
                  !.seen = IF Len(threads[t].exchanges) <= HistoryLimit
                           THEN Len(threads[t].exchanges) ELSE HistoryLimit])
    /\ UNCHANGED <<threads, snapshots>>

\* Mutant of WithExchange: the count is that of the messages that were read.
WithExchangeCountedBefore(t, r, chars) ==
    [threads[t] EXCEPT !.exchanges = Append(@, ExchangeOf(r, chars)),
                       !.messageCount = 2 * req[r].seen + 2]

\* The subthread after the transaction that stores a later exchange.  It
\* increments the count, whatever the status is by now.
WithExchange(t, r, chars) ==
    [threads[t] EXCEPT !.exchanges = Append(@, ExchangeOf(r, chars)),
                       !.messageCount = @ + 2]

FinishContinue(r, chars) ==
    LET t == req[r].thread IN
    /\ req[r].op = "continue" /\ req[r].phase = "storing"
    /\ threads' = [threads EXCEPT ![t] = WithExchange(t, r, chars)]
    /\ req' = [req EXCEPT ![r].phase = "done"]
    /\ UNCHANGED snapshots

\* The language model or the transaction fails.
FailAsked(r) ==
    /\ req[r].phase \in {"asked", "storing"}
    /\ req' = [req EXCEPT ![r].phase = "failed"]
    /\ UNCHANGED <<threads, snapshots>>

\* archiveSubthread, deleteSubthread: from any status.
SetStatus(u, t, status) ==
    /\ Owns(u, t)
    /\ threads' = [threads EXCEPT ![t].status = status]
    /\ UNCHANGED <<snapshots, req>>

-----------------------------------------------------------------------------
(* Snapshots *)

\* A snapshot without parent is its own root.
RootSnapshot(u, t, notes, evidence) ==
    [user |-> u, thread |-> t, parent |-> NoSnapshot, root |-> Len(snapshots) + 1,
     rev |-> 0, notes |-> notes, evidence |-> evidence]

CanStore == Len(snapshots) < MaxSnapshots

\* createFromSubthread, after the first exchange.
StoreFirstSnapshot(r) ==
    /\ req[r].op = "create" /\ req[r].phase = "stored"
    /\ CanStore
    /\ snapshots' = Append(snapshots,
                           RootSnapshot(req[r].user, req[r].thread, <<>>, <<>>))
    /\ req' = [req EXCEPT ![r].phase = "done"]
    /\ UNCHANGED threads

\* Its failure is only logged.
SkipFirstSnapshot(r) ==
    /\ req[r].op = "create" /\ req[r].phase = "stored"
    /\ req' = [req EXCEPT ![r].phase = "done"]
    /\ UNCHANGED <<threads, snapshots>>

\* createManualSnapshot: the client's content, beside any subthread there is.
StoreManualSnapshot(u, t, notes) ==
    /\ CanStore
    /\ t \in DOMAIN threads \cup {NoThread}
    /\ snapshots' = Append(snapshots, RootSnapshot(u, t, notes, <<>>))
    /\ UNCHANGED <<threads, req>>

\* uniqLimit: every note once, the oldest first, the newest cut off.
UniqLimit(notes) ==
    LET distinct == FoldLeft(LAMBDA seen, n : IF n \in ToSet(seen) THEN seen
                                              ELSE Append(seen, n),
                             <<>>, notes)
    IN  IF Len(distinct) <= NoteLimit THEN distinct
        ELSE SubSeq(distinct, 1, NoteLimit)

\* continueFromSnapshot and evolveSnapshot up to their last call of the
\* language model.  They differ in what a failure is answered with.
BeginEvolve(r, u, s) ==
    /\ req[r].phase = "unsent"
    /\ s \in DOMAIN snapshots
    /\ snapshots[s].user = u
    /\ Send(r, [Unsent EXCEPT !.phase = "asked", !.op = "evolve", !.user = u,
                              !.snapshot = s])
    /\ UNCHANGED <<threads, snapshots>>

\* readV1Fields: the conclusions, assumptions and open questions.
NotesOf(s) == snapshots[s].notes

\* Mutant of ChildOf: the root of a child is its parent.
ChildOfParentAsRoot(s, added) ==
    [snapshots[s] EXCEPT !.parent = s, !.root = s, !.rev = @ + 1,
                         !.notes = UniqLimit(NotesOf(s) \o added)]

\* The child of a snapshot.  It keeps the evidence its parent was pinned with.
ChildOf(s, added) ==
    [snapshots[s] EXCEPT !.parent = s, !.rev = @ + 1,
                         !.notes = UniqLimit(NotesOf(s) \o added)]

ChildrenOf(s) == {c \in DOMAIN snapshots : snapshots[c].parent = s}

\* Mutant of UpsertChild: the upsert overwrites the content it finds.
UpsertChildOverwriting(s, added) ==
    IF ChildrenOf(s) = {} THEN Append(snapshots, ChildOf(s, added))
    ELSE [c \in DOMAIN snapshots |-> IF c \in ChildrenOf(s) THEN ChildOf(s, added)
                                     ELSE snapshots[c]]

\* createChildSnapshotIdempotent: a second child is not stored.
UpsertChild(s, added) ==
    IF ChildrenOf(s) = {} THEN Append(snapshots, ChildOf(s, added)) ELSE snapshots

StoreChild(r, added) ==
    LET s == req[r].snapshot IN
    /\ req[r].op = "evolve" /\ req[r].phase = "asked"
    /\ CanStore
    /\ snapshots' = UpsertChild(s, added)
    /\ req' = [req EXCEPT ![r].phase = "done",
                          ![r].child = IF ChildrenOf(s) = {} THEN Len(snapshots) + 1
                                       ELSE CHOOSE c \in ChildrenOf(s) : TRUE]
    /\ UNCHANGED threads

-----------------------------------------------------------------------------
(* Pins: POST /subthreads/:id/snapshots *)

\* Mutant of SnapshotsFor: the snapshots of a subthread, whosesoever they are.
SnapshotsForAnyone(u, t) == {s \in DOMAIN snapshots : snapshots[s].thread = t}

SnapshotsFor(u, t) ==
    {s \in DOMAIN snapshots : snapshots[s].thread = t /\ snapshots[s].user = u}

\* The latest snapshot is read; without one the pin is refused.
BeginPin(r, u, t) ==
    /\ req[r].phase = "unsent"
    /\ Owns(u, t)
    /\ \E s \in SnapshotsFor(u, t) :
          /\ \A other \in SnapshotsFor(u, t) : other <= s
          /\ Send(r, [Unsent EXCEPT !.phase = "based", !.op = "pin", !.user = u,
                                    !.thread = t, !.snapshot = s])
    /\ UNCHANGED <<threads, snapshots>>

\* buildEvidencePack: the last messages by createdAt, which need not be those
\* that were committed last.
EvidenceOf(exchanges) ==
    LET n == Len(exchanges)
        byTime == SortSeq(exchanges, LAMBDA x, y : x.createdAt < y.createdAt)
    IN  SubSeq(byTime, IF n <= EvidenceLimit THEN 1 ELSE n - EvidenceLimit + 1, n)

CharsOf(evidence) == FoldLeft(LAMBDA n, x : n + x.chars, 0, evidence)

\* qualityGate: enough of the selection, and enough of it all, the context
\* messages included.
GateOpens(t, evidence) ==
    /\ threads[t].selection >= MinSelection
    /\ threads[t].selection + threads[t].context + CharsOf(evidence) >= MinEvidence

\* Then the messages are read and judged.
ReadEvidence(r) ==
    LET t == req[r].thread
        evidence == EvidenceOf(threads[t].exchanges)
    IN  /\ req[r].phase = "based"
        /\ req' = [req EXCEPT ![r].evidence = evidence,
                              ![r].phase = IF GateOpens(t, evidence) THEN "judged"
                                           ELSE "failed"]
        /\ UNCHANGED <<threads, snapshots>>

StorePin(r) ==
    LET q == req[r] IN
    /\ q.phase = "judged"
    /\ CanStore
    /\ snapshots' = Append(snapshots, RootSnapshot(q.user, q.thread,
                                                   snapshots[q.snapshot].notes,
                                                   q.evidence))
    /\ req' = [req EXCEPT ![r].phase = "done", ![r].child = Len(snapshots) + 1]
    /\ UNCHANGED threads

-----------------------------------------------------------------------------

Init ==
    /\ threads = <<>>
    /\ snapshots = <<>>
    /\ req = [r \in Request |-> Unsent]

Next ==
    \/ \E r \in Request, u \in User, selection \in SelectionChars, context \in ContextChars :
          BeginCreate(r, u, selection, context)
    \/ \E r \in Request, u \in User, t \in DOMAIN threads :
          BeginContinue(r, u, t) \/ BeginPin(r, u, t)
    \/ \E r \in Request, u \in User, s \in DOMAIN snapshots : BeginEvolve(r, u, s)
    \/ \E r \in Request : BeginStore(r) \/ FailAsked(r)
    \/ \E r \in Request, chars \in ExchangeChars :
          FinishCreate(r, chars) \/ FinishContinue(r, chars)
    \/ \E r \in Request : StoreFirstSnapshot(r) \/ SkipFirstSnapshot(r)
    \/ \E r \in Request, added \in Additions : StoreChild(r, added)
    \/ \E r \in Request : ReadEvidence(r) \/ StorePin(r)
    \/ \E u \in User, t \in DOMAIN threads, status \in {"ARCHIVED", "DELETED"} :
          SetStatus(u, t, status)
    \/ \E u \in User, t \in DOMAIN threads \cup {NoThread}, notes \in ManualNotes :
          StoreManualSnapshot(u, t, notes)

Spec == Init /\ [][Next]_vars

-----------------------------------------------------------------------------
(* Properties *)

\* messageCount counts the messages from the subthread's creating exchange
\* on: continuations that overtake the creation, which the subthread is open
\* to before its first answer is there, are forgotten by the absolute count
\* that the creation writes, and no others are lost when continuations race.
CountIsExact ==
    \A t \in DOMAIN threads :
        LET x == threads[t].exchanges
            creating == {i \in DOMAIN x : req[x[i].by].op = "create"}
            first == IF creating = {} THEN 1 ELSE CHOOSE i \in creating : TRUE
        IN  threads[t].messageCount = 2 * (Len(x) - first + 1)

Waiting(t) ==
    {r \in Request : req[r].phase \in {"asked", "storing"} /\ req[r].thread = t}

\* A subthread that was archived or deleted is never active again, and no
\* conversation starts in it: it can only gain the exchanges of requests that
\* were waiting for their answer or storing it when it left the active status.
LeavingIsFinal ==
    [][\A t \in DOMAIN threads :
          threads[t].status # "ACTIVE" =>
             /\ threads'[t].status # "ACTIVE"
             /\ Waiting(t)' \subseteq Waiting(t)
             /\ \A i \in DOMAIN threads'[t].exchanges :
                   \/ i \in DOMAIN threads[t].exchanges
                   \/ threads'[t].exchanges[i].by \in Waiting(t)]_vars

\* The snapshots form chains: rev is the number of steps from the root that
\* all of a chain name, whoever evolves whichever snapshot at the same time,
\* no snapshot has two children, and a chain stays with one user, one
\* subthread and the evidence of its root.
LineageIsSound ==
    \A s \in DOMAIN snapshots :
        LET x == snapshots[s] IN
        /\ x.parent = NoSnapshot => x.rev = 0 /\ x.root = s
        /\ x.parent # NoSnapshot =>
              LET p == snapshots[x.parent] IN
              /\ x.parent < s
              /\ <<x.rev, x.root, x.user, x.thread, x.evidence>>
                    = <<p.rev + 1, p.root, p.user, p.thread, p.evidence>>
              /\ Len(x.notes) <= NoteLimit
              /\ ChildrenOf(x.parent) = {s}

\* What a snapshot holds never changes once it was answered to someone, also
\* when a second continuation of its parent, or a retried one, arrives.
SnapshotsStand ==
    [][/\ IsPrefix(snapshots, snapshots')
       /\ \A r \in Request :
             req[r].child # NoSnapshot => req'[r].child = req[r].child]_vars

\* A pinned snapshot holds the notes of a snapshot of the same user and the
\* same subthread, and as evidence the latest messages of that subthread as they
\* stood at some time, whatever was stored while the pin was under way and in
\* whatever order.  (A pin may hold none: the selection and the context messages
\* alone can be evidence enough.)
PinnedIsOfItsThread ==
    \A r \in Request :
        req[r].op = "pin" /\ req[r].child # NoSnapshot =>
            LET pin == snapshots[req[r].child]
                base == snapshots[req[r].snapshot]
                x == threads[pin.thread].exchanges
            IN  /\ pin.user = threads[pin.thread].user
                /\ pin.user = base.user /\ pin.thread = base.thread
                /\ pin.notes = base.notes
                /\ \E n \in 0..Len(x) : pin.evidence = EvidenceOf(SubSeq(x, 1, n))
=============================================================================
