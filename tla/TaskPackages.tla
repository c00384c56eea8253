----------------------------- MODULE TaskPackages -----------------------------
(***************************************************************************)
(* TaskPackageService: packages, their numbered revisions and the pointer  *)
(* to the current one. createRevision is an interactive transaction at     *)
(* READ COMMITTED: each of its statements sees what is committed when it    *)
(* runs, its own changes are invisible until the commit, and another insert *)
(* of the same (packageId, rev) or (packageId, revisionHash) waits for that *)
(* commit. The loser of such a race gets a unique violation and tries once  *)
(* more. The row of the package is locked as well: by an insert, whose      *)
(* foreign key refers to it, and by an update of the pointer, which has a   *)
(* unique index of its own. One action is one awaited statement, or the     *)
(* part of it up to the next lock.                                          *)
(***************************************************************************)
EXTENDS Integers, Sequences, FiniteSets

CONSTANTS
    Client,
    User,
    Package,     \* packageId
    Payload,     \* canonical payload; its revisionHash is as good as itself
    Requests,    \* what clients ask for
    MaxRevisions, \* bound: revisions that are ever stored
    None,        \* null
    Unset        \* parentRevisionId left out of the request

\* The id of a revision is a fresh uuid; the model numbers the rows in the order
\* of their commits.
RevisionId == 1..MaxRevisions

ASSUME Sentinels ==
    /\ MaxRevisions \in Nat
    /\ None \notin User \cup Nat
    /\ Unset \notin Nat \cup {None}

ASSUME FiniteClients == IsFiniteSet(Client)

VARIABLES
    owner,    \* TaskPackage.userId, None while there is no such package
    current,  \* TaskPackage.currentRevisionId
    rows,     \* TaskPackageRevision: committed rows, the id is the index
    pc,       \* the statement that the request of the client makes next
    job,      \* what the client asked for
    tx,       \* local variables of the handler
    answer,   \* what the client was told
    begun     \* history: the number of revisions when the request began

vars == <<owner, current, rows, pc, job, tx, answer, begun>>
requestVars == <<pc, job, tx, answer, begun>>
stored == <<owner, current, rows>>

-----------------------------------------------------------------------------
Row == [packageId: Package, rev: Nat, revisionHash: Payload,
        parent: RevisionId \cup {None}]

CreateJob == [op: {"create"}, user: User, packageId: Package, payload: Payload,
              parent: RevisionId \cup {None, Unset}, setCurrent: BOOLEAN]
SetJob == [op: {"set"}, user: User, packageId: Package, id: RevisionId]
ImportJob == [op: {"import"}, user: User, packageId: Package, payload: Payload]
NoJob == [op |-> "none"]

ASSUME RequestsType == Requests \subseteq CreateJob \cup SetJob \cup ImportJob

Local == [attempt: 0..1, current: RevisionId \cup {None}, nextRev: Nat,
          parent: RevisionId \cup {None}]
NoLocal == [attempt |-> 0, current |-> None, nextRev |-> 0, parent |-> None]

Statements == {"checkOwner", "begin", "findByHash", "useExisting", "commitExisting",
               "readMax", "checkParent", "insert", "reference", "setPointer", "commit",
               "recover", "recoverCurrent", "findTarget", "updateCurrent"}

Answers == {"ok", "NOT_FOUND", "FORBIDDEN", "INVALID_INPUT",
            "CONFLICT_RETRY_EXHAUSTED"}

ASSUME NoneIsNoAnswer == None \notin Answers

TypeOK ==
    /\ owner \in [Package -> User \cup {None}]
    /\ current \in [Package -> RevisionId \cup {None}]
    /\ rows \in Seq(Row) /\ Len(rows) <= MaxRevisions
    /\ pc \in [Client -> Statements \cup {"idle", "done"}]
    /\ job \in [Client -> CreateJob \cup SetJob \cup {NoJob}]
    /\ tx \in [Client -> Local]
    /\ answer \in [Client -> Answers \cup {None}]
    /\ begun \in [Client -> Nat]

-----------------------------------------------------------------------------
\* The committed revisions of a package.
RevisionsOf(p) == {r \in DOMAIN rows : rows[r].packageId = p}

WithHash(p, h) == {r \in RevisionsOf(p) : rows[r].revisionHash = h}

\* One more than the highest committed rev; 0 for a package without revisions.
NextRev(p) ==
    CHOOSE n \in 0..Len(rows) :
        /\ \A r \in RevisionsOf(p) : rows[r].rev < n
        /\ n > 0 => \E r \in RevisionsOf(p) : rows[r].rev = n - 1

\* The row that the transaction of c inserts.
NewRow(c) ==
    [packageId |-> job[c].packageId, rev |-> tx[c].nextRev,
     revisionHash |-> job[c].payload, parent |-> tx[c].parent]

\* Rows that are stored or that a request may yet store.
Reserved == Len(rows) + Cardinality({c \in Client : job[c].op = "create"
                                                 /\ pc[c] # "done"})

Goto(c, s) ==
    /\ pc' = [pc EXCEPT ![c] = s]
    /\ UNCHANGED <<answer, tx>>

\* The same, with new values of the handler's local variables.
GotoWith(c, s, local) ==
    /\ pc' = [pc EXCEPT ![c] = s]
    /\ tx' = [tx EXCEPT ![c] = local]
    /\ UNCHANGED answer

\* Statements of a transaction that has inserted its row and not yet committed:
\* the row is in the indexes.
Inserted == {"reference", "setPointer", "commit"}

\* Locks on the row of a package, held until the commit. The foreign key of an
\* insert takes it FOR KEY SHARE. An update of currentRevisionId takes it FOR
\* UPDATE if it moves the pointer, since the column has a unique index, and FOR
\* NO KEY UPDATE, which lets foreign keys pass, if it does not.
Refers(d, p) == pc[d] \in Inserted \ {"reference"} /\ job[d].packageId = p

Updates(d, p) ==
    /\ pc[d] = "commitExisting" \/ (pc[d] = "commit" /\ job[d].setCurrent)
    /\ job[d].packageId = p

Moves(d, p) ==
    Updates(d, p) /\ (pc[d] = "commitExisting" => current[p] \notin WithHash(p, job[d].payload))

\* Mutant of MayPoint: the update is not made within the transaction and waits for
\* the insert of its own request.
MayPointOutside(c, r) ==
    LET p == job[c].packageId IN
    /\ \A d \in Client \ {c} : ~Updates(d, p)
    /\ r # current[p] => \A d \in Client : ~Refers(d, p)

\* The update of the pointer to r waits for other updates and, if it moves the
\* pointer, for the inserts of other transactions.
MayPoint(c, r) ==
    LET p == job[c].packageId IN
    \A d \in Client \ {c} :
        /\ ~Updates(d, p)
        /\ r # current[p] => ~Refers(d, p)

\* The handler ends, its local variables with it.
Reply(c, a) ==
    /\ pc' = [pc EXCEPT ![c] = "done"]
    /\ answer' = [answer EXCEPT ![c] = a]
    /\ tx' = [tx EXCEPT ![c] = NoLocal]

-----------------------------------------------------------------------------
(* createFromSnapshot and importPackage: one transaction on rows that nobody
   else can name, so one step; currentRevisionId points to rev 0 *)

CreatePackage(j) ==
    /\ j.op = "import"
    /\ owner[j.packageId] = None
    /\ Reserved < MaxRevisions
    /\ owner' = [owner EXCEPT ![j.packageId] = j.user]
    /\ current' = [current EXCEPT ![j.packageId] = Len(rows) + 1]
    /\ rows' = Append(rows, [packageId |-> j.packageId, rev |-> 0,
                             revisionHash |-> j.payload, parent |-> None])
    /\ UNCHANGED requestVars

-----------------------------------------------------------------------------
(* Requests *)

Submit(c, j) ==
    /\ pc[c] = "idle"
    /\ j.op # "import"
    /\ j.op = "create" => Reserved < MaxRevisions
    /\ job' = [job EXCEPT ![c] = j]
    /\ begun' = [begun EXCEPT ![c] = Cardinality(RevisionsOf(j.packageId))]
    /\ Goto(c, "checkOwner")
    /\ UNCHANGED stored

\* The client is done with its request, or the request is gone.
Leave(c) ==
    /\ pc' = [pc EXCEPT ![c] = "idle"]
    /\ job' = [job EXCEPT ![c] = NoJob]
    /\ tx' = [tx EXCEPT ![c] = NoLocal]
    /\ answer' = [answer EXCEPT ![c] = None]
    /\ begun' = [begun EXCEPT ![c] = 0]

Receive(c) ==
    /\ pc[c] = "done"
    /\ Leave(c)
    /\ UNCHANGED stored

\* A restart, a lost connection or the transaction timeout: what the
\* transaction has not committed is gone, and the client learns nothing.
Interrupt(c) ==
    /\ pc[c] \in Statements
    /\ Leave(c)
    /\ UNCHANGED stored

\* createRevision and setCurrentRevision look the package up first.
CheckOwner(c) ==
    LET p == job[c].packageId IN
    /\ pc[c] = "checkOwner"
    /\ IF owner[p] = None THEN Reply(c, "NOT_FOUND")
       ELSE IF owner[p] # job[c].user THEN Reply(c, "FORBIDDEN")
       ELSE IF job[c].op = "create" THEN Goto(c, "begin")
       ELSE Goto(c, "findTarget")
    /\ UNCHANGED <<stored, job, begun>>

-----------------------------------------------------------------------------
(* createRevision, one attempt *)

\* The transaction reads the package again; its current revision is the default
\* parent, as of now.
Begin(c) ==
    LET p == job[c].packageId IN
    /\ pc[c] = "begin"
    /\ IF owner[p] = None THEN Reply(c, "NOT_FOUND")
       ELSE IF owner[p] # job[c].user THEN Reply(c, "FORBIDDEN")
       ELSE GotoWith(c, "findByHash", [tx[c] EXCEPT !.current = current[p]])
    /\ UNCHANGED <<stored, job, begun>>

FindByHash(c) ==
    LET existing == WithHash(job[c].packageId, job[c].payload) IN
    /\ pc[c] = "findByHash"
    /\ IF existing = {} THEN Goto(c, "readMax")
       ELSE IF job[c].setCurrent THEN Goto(c, "useExisting")
       ELSE Reply(c, "ok")
    /\ UNCHANGED <<stored, job, begun>>

\* The update of the package row to the revision with the payload's hash.
UseExisting(c) ==
    /\ pc[c] = "useExisting"
    /\ \E r \in WithHash(job[c].packageId, job[c].payload) : MayPoint(c, r)
    /\ Goto(c, "commitExisting")
    /\ UNCHANGED <<stored, job, begun>>

\* Its commit or, after a lost race, the update as a statement on its own.
CommitExisting(c) ==
    LET p == job[c].packageId IN
    /\ pc[c] \in {"commitExisting", "recoverCurrent"}
    /\ \E r \in WithHash(p, job[c].payload) :
          /\ pc[c] = "recoverCurrent" => MayPoint(c, r)
          /\ current' = [current EXCEPT ![p] = r]
    /\ Reply(c, "ok")
    /\ UNCHANGED <<owner, rows, job, begun>>

\* Mutant of ReadMax: an omitted parent is taken as it is.
ReadMaxUnset(c) ==
    /\ pc[c] = "readMax"
    /\ GotoWith(c, IF job[c].parent = None THEN "insert" ELSE "checkParent",
                [attempt |-> tx[c].attempt, current |-> None,
                 nextRev |-> NextRev(job[c].packageId), parent |-> job[c].parent])
    /\ UNCHANGED <<stored, job, begun>>

ReadMax(c) ==
    LET parent == IF job[c].parent = Unset THEN tx[c].current ELSE job[c].parent
    IN
    /\ pc[c] = "readMax"
    /\ GotoWith(c, IF parent = None THEN "insert" ELSE "checkParent",
                [attempt |-> tx[c].attempt, current |-> None,
                 nextRev |-> NextRev(job[c].packageId), parent |-> parent])
    /\ UNCHANGED <<stored, job, begun>>

\* Mutant of CheckParent: the parent may be a revision of any package.
CheckParentAnywhere(c) ==
    /\ pc[c] = "checkParent"
    /\ IF tx[c].parent \notin DOMAIN rows THEN Reply(c, "INVALID_INPUT")
       ELSE Goto(c, "insert")
    /\ UNCHANGED <<stored, job, begun>>

CheckParent(c) ==
    LET parent == tx[c].parent IN
    /\ pc[c] = "checkParent"
    /\ IF parent \notin DOMAIN rows \/ rows[parent].packageId # job[c].packageId
       THEN Reply(c, "INVALID_INPUT")
       ELSE Goto(c, "insert")
    /\ UNCHANGED <<stored, job, begun>>

\* Mutants of Collides: one of the two unique indexes is missing.
CollidesByHash(c, r) ==
    r.packageId = job[c].packageId /\ r.revisionHash = job[c].payload
CollidesByRev(c, r) ==
    r.packageId = job[c].packageId /\ r.rev = tx[c].nextRev

\* The insert collides with the row r, or waits for the transaction that has
\* inserted and not yet committed a row with which it would.
Collides(c, r) ==
    /\ r.packageId = job[c].packageId
    /\ r.rev = tx[c].nextRev \/ r.revisionHash = job[c].payload

Waits(c) ==
    \E d \in Client \ {c} : pc[d] \in Inserted /\ Collides(c, NewRow(d))

\* Mutant of RevConflict: no second attempt.
RevConflictAtOnce(c) == Reply(c, "CONFLICT_RETRY_EXHAUSTED")

\* A second conflict on the number ends the request.
RevConflict(c) ==
    IF tx[c].attempt = 0
    THEN GotoWith(c, "begin", [NoLocal EXCEPT !.attempt = 1])
    ELSE Reply(c, "CONFLICT_RETRY_EXHAUSTED")

\* Which of the two unique indexes reports the conflict, when both do, depends
\* on the order PostgreSQL checks them in.
Insert(c) ==
    LET hits == {r \in RevisionsOf(job[c].packageId) : Collides(c, rows[r])} IN
    /\ pc[c] = "insert"
    /\ ~Waits(c)
    /\ \/ /\ hits = {}
          /\ Goto(c, "reference")
       \/ /\ \E r \in hits : rows[r].revisionHash = job[c].payload
          /\ Goto(c, "recover")
       \/ /\ \E r \in hits : rows[r].rev = tx[c].nextRev
          /\ RevConflict(c)
    /\ UNCHANGED <<stored, job, begun>>

\* The rest of the insert, the check of its foreign key, waits for an update that
\* moves the pointer of the package.
Reference(c) ==
    /\ pc[c] = "reference"
    /\ \A d \in Client \ {c} : ~Moves(d, job[c].packageId)
    /\ Goto(c, IF job[c].setCurrent THEN "setPointer" ELSE "commit")
    /\ UNCHANGED <<stored, job, begun>>

\* With setCurrent, the update of the package row to the new revision, which is
\* not the current one yet.
SetPointer(c) ==
    /\ pc[c] = "setPointer"
    /\ MayPoint(c, Len(rows) + 1)
    /\ Goto(c, "commit")
    /\ UNCHANGED <<stored, job, begun>>

\* Mutant of Commit: every new revision becomes the current one.
CommitAsCurrent(c) ==
    /\ pc[c] = "commit"
    /\ rows' = Append(rows, NewRow(c))
    /\ current' = [current EXCEPT ![job[c].packageId] = Len(rows) + 1]
    /\ Reply(c, "ok")
    /\ UNCHANGED <<owner, job, begun>>

\* From here on the row, and the pointer to it, are visible.
Commit(c) ==
    LET p == job[c].packageId IN
    /\ pc[c] = "commit"
    /\ rows' = Append(rows, NewRow(c))
    /\ current' = [current EXCEPT ![p] = IF job[c].setCurrent THEN Len(rows) + 1 ELSE @]
    /\ Reply(c, "ok")
    /\ UNCHANGED <<owner, job, begun>>

\* After a conflict on the hash, outside the transaction: the revision with the
\* same payload that won the race.
Recover(c) ==
    LET existing == WithHash(job[c].packageId, job[c].payload) IN
    /\ pc[c] = "recover"
    /\ IF existing = {} THEN RevConflict(c)
       ELSE IF job[c].setCurrent THEN Goto(c, "recoverCurrent")
       ELSE Reply(c, "ok")
    /\ UNCHANGED <<stored, job, begun>>

-----------------------------------------------------------------------------
(* setCurrentRevision *)

\* Mutant of FindTarget: the package of the revision is not compared.
FindTargetAnywhere(c) ==
    /\ pc[c] = "findTarget"
    /\ IF job[c].id \notin DOMAIN rows THEN Reply(c, "NOT_FOUND")
       ELSE Goto(c, "updateCurrent")
    /\ UNCHANGED <<stored, job, begun>>

FindTarget(c) ==
    LET target == job[c].id IN
    /\ pc[c] = "findTarget"
    /\ IF target \notin DOMAIN rows THEN Reply(c, "NOT_FOUND")
       ELSE IF rows[target].packageId # job[c].packageId THEN Reply(c, "INVALID_INPUT")
       ELSE Goto(c, "updateCurrent")
    /\ UNCHANGED <<stored, job, begun>>

UpdateCurrent(c) ==
    /\ pc[c] = "updateCurrent"
    /\ MayPoint(c, job[c].id)
    /\ current' = [current EXCEPT ![job[c].packageId] = job[c].id]
    /\ Reply(c, "ok")
    /\ UNCHANGED <<owner, rows, job, begun>>

-----------------------------------------------------------------------------
Init ==
    /\ owner = [p \in Package |-> None]
    /\ current = [p \in Package |-> None]
    /\ rows = <<>>
    /\ pc = [c \in Client |-> "idle"]
    /\ job = [c \in Client |-> NoJob]
    /\ tx = [c \in Client |-> NoLocal]
    /\ answer = [c \in Client |-> None]
    /\ begun = [c \in Client |-> 0]

Handle(c) ==
    \/ CheckOwner(c)
    \/ Begin(c)
    \/ FindByHash(c)
    \/ UseExisting(c)
    \/ CommitExisting(c)
    \/ ReadMax(c)
    \/ CheckParent(c)
    \/ Insert(c)
    \/ Reference(c)
    \/ SetPointer(c)
    \/ Commit(c)
    \/ Recover(c)
    \/ FindTarget(c)
    \/ UpdateCurrent(c)

Next ==
    \/ \E j \in Requests : CreatePackage(j)
    \/ \E c \in Client :
          \/ \E j \in Requests : Submit(c, j)
          \/ Receive(c)
          \/ Interrupt(c)
          \/ Handle(c)

Spec == Init /\ [][Next]_vars

\* Statements that lock the row of the package.
LockPackage(c) ==
    \/ UseExisting(c)
    \/ CommitExisting(c)
    \/ Reference(c)
    \/ SetPointer(c)
    \/ UpdateCurrent(c)

\* The database answers every statement that does not wait for a lock, and the
\* event loop resumes the handler. Who waits for the lock on a row is queued: a
\* lock that becomes free again and again is not for ever given to others.
FairSpec ==
    Spec /\ \A c \in Client : WF_vars(Handle(c)) /\ SF_vars(LockPackage(c))

-----------------------------------------------------------------------------
\* The revisions of a package are numbered 0, 1, 2, ... without a gap and no
\* number twice, whatever transactions overlap, are retried or are cut off.
RevsAreDense ==
    \A p \in Package :
        LET revs == RevisionsOf(p) IN
        /\ {rows[r].rev : r \in revs} = 0..(Cardinality(revs) - 1)

\* The parent of a revision is an earlier revision of the same package, though
\* the number is read before the parent is looked up: a parent committed in
\* between makes the insert fail. So lineage walks end.
LineageDescends ==
    \A r \in DOMAIN rows :
        LET parent == rows[r].parent IN
        parent # None =>
            /\ parent \in RevisionsOf(rows[r].packageId)
            /\ rows[parent].rev < rows[r].rev

\* A package always has a current revision, and it is one of its own.
CurrentIsOwn ==
    \A p \in Package :
        owner[p] # None => current[p] \in RevisionsOf(p)

\* CONFLICT_RETRY_EXHAUSTED is told only to a request that lost twice: two other
\* revisions of the package were committed while it ran.
ExhaustedLostTwice ==
    \A c \in Client :
        answer[c] = "CONFLICT_RETRY_EXHAUSTED" =>
            Cardinality(RevisionsOf(job[c].packageId)) >= begun[c] + 2

\* A create request told "ok" finds its payload among the revisions of its
\* package exactly once, also when it lost the race to an equal payload.
CreatedOnce ==
    \A c \in Client :
        answer[c] = "ok" /\ job[c].op = "create" =>
            Cardinality(WithHash(job[c].packageId, job[c].payload)) = 1

\* The request asked for the pointer and is told that it has been moved.
Pointed(c) ==
    /\ pc[c] # "done" /\ pc'[c] = "done" /\ answer'[c] = "ok"
    /\ job[c].op = "create" => job[c].setCurrent

\* The current revision of a package moves only in the step that answers a
\* request of its owner that asked for it ("Default behavior keeps
\* currentRevision unchanged"), and whoever asked and is told "ok", the loser of
\* a race to an equal payload too, finds it at the revision asked for.
CurrentMovesOnRequest ==
    [][/\ \A p \in Package :
             owner[p] # None /\ current'[p] # current[p] =>
                \E c \in Client :
                    Pointed(c) /\ job[c].packageId = p /\ job[c].user = owner[p]
       /\ \A c \in Client :
             Pointed(c) =>
                IF job[c].op = "set" THEN current'[job[c].packageId] = job[c].id
                ELSE current'[job[c].packageId] \in WithHash(job[c].packageId, job[c].payload)'
      ]_vars

\* Once transactions are no longer cut off, every request is answered: no two
\* wait for each other for ever, and the retry ends. (Transactions that insert and
\* abort again and again could keep a third one waiting.)
Answered ==
    <>[][\A c \in Client : ~Interrupt(c)]_vars =>
        \A c \in Client : pc[c] \in Statements ~> pc[c] \in {"done", "idle"}
=============================================================================
