----------------------------- MODULE RecordLedger -----------------------------
(***************************************************************************)
(* The content-addressed ledger of the server: ArtifactStoreService,       *)
(* RevisionService and ExecutionService over one PostgreSQL database.      *)
(*                                                                         *)
(* Each client has at most one request in the server. A handler is a Node  *)
(* coroutine: what it does between two awaits is one action here, and      *)
(* between two actions of one handler any other handler may run. pc[c]     *)
(* names the storage call that the handler of client c awaits. A single    *)
(* prisma call or a $transaction is atomic; a whole handler is not.        *)
(***************************************************************************)
EXTENDS ClosedDag, Functions

CONSTANT Client

VARIABLES
    pc,      \* the storage call the client's handler is about to make
    job,     \* what the client asked for
    next,    \* index of the artifact the handler's loop checks next
    loaded,  \* the execution a replay has read
    answer   \* what the client was told

reqVars == <<pc, job, next, loaded, answer>>
ledgerVars == <<artifacts, revisions, executions, reqVars>>

-----------------------------------------------------------------------------
(* Requests *)

ArtifactJob == [op: {"artifact"}, doc: Doc, claim: Bundle \cup {None}]
RevisionJob == [op: {"revision"}, revision: Revision]
ExecutionJob == [op: {"execution"}, id: ExecutionId, run: Run]
ReplayJob == [op: {"replay"}, id: ExecutionId, call: Call,
              result: Result \cup {None}]
NoJob == [op |-> "none"]

Job == ArtifactJob \cup RevisionJob \cup ExecutionJob \cup ReplayJob

Storage == {"findArtifact", "upsertArtifact",
            "findParent", "findRevision", "insertRevision",
            "findRunRevision", "insertExecution", "findExecution",
            "artifactExists"}

Answer == {"ok", "ERR_ARTIFACT_HASH_MISMATCH", "ERR_ARTIFACT_CONFLICT",
           "ERR_REVISION_PARENT_NOT_FOUND",
           "ERR_REVISION_PARENT_PACKAGE_MISMATCH", "ERR_ARTIFACT_NOT_FOUND",
           "ERR_REVISION_NOT_FOUND", "ERR_EXECUTION_NOT_FOUND",
           "ERR_EXECUTION_NON_DETERMINISTIC", "ERR_EXECUTION_REPLAY_MISMATCH",
           "P2002",        \* a unique constraint of the schema refused the row
           "interrupted"}  \* a restart, a lost connection: the client learns nothing

ASSUME NoneIsNoAnswer == None \notin Answer

LedgerTypeOK ==
    /\ TypeOK
    /\ pc \in [Client -> Storage \cup {"idle", "done"}]
    /\ job \in [Client -> Job \cup {NoJob}]
    /\ next \in [Client -> Nat]
    /\ loaded \in [Client -> Run \cup {None}]
    /\ answer \in [Client -> Answer \cup {None}]

\* The run that the handler of c records, or the one it has read for a replay.
RunOf(c) == IF job[c].op = "replay" THEN loaded[c] ELSE job[c].run

\* The bundles that the handler looks up, in the order of its loop, and the
\* package it looks them up in.
Needs(c) ==
    IF job[c].op = "revision" THEN RevisionNode[job[c].revision].artifacts
    ELSE RunOf(c).inputs \o RunOf(c).outputs
NeedsPackage(c) ==
    IF job[c].op = "revision" THEN RevisionNode[job[c].revision].packageId
    ELSE RunOf(c).packageId

(***************************************************************************)
(* Control flow: the handler of c goes on to the storage call s, or        *)
(* answers a. Both leave the database alone.                               *)
(***************************************************************************)
Goto(c, s) ==
    /\ pc' = [pc EXCEPT ![c] = s]
    /\ UNCHANGED answer

Reply(c, a) ==
    /\ pc' = [pc EXCEPT ![c] = "done"]
    /\ answer' = [answer EXCEPT ![c] = a]

\* replayExecution, synchronous after its last storage call: the call must be
\* the recorded one, and outputs and status, when given, the recorded ones.
ReplayVerdict(c) ==
    IF job[c].call # loaded[c].call THEN "ERR_EXECUTION_NON_DETERMINISTIC"
    ELSE IF job[c].result \notin {None, loaded[c].result}
         THEN "ERR_EXECUTION_REPLAY_MISMATCH"
         ELSE "ok"

\* What a handler does once its loop has found every artifact.
AfterLoop(c) ==
    \/ job[c].op = "revision"  /\ Goto(c, "findRevision")
    \/ job[c].op = "execution" /\ Goto(c, "insertExecution")
    \/ job[c].op = "replay"    /\ Reply(c, ReplayVerdict(c))

\* Mutant of Loop: the loop stops one artifact early.
LoopOffByOne(c, i) ==
    /\ next' = [next EXCEPT ![c] = i]
    /\ IF i < Len(Needs(c)) THEN Goto(c, "artifactExists") ELSE AfterLoop(c)

\* The artifact loop of handler c stands at index i: it makes the next lookup,
\* or falls through to what follows the loop.
Loop(c, i) ==
    /\ next' = [next EXCEPT ![c] = i]
    /\ IF i <= Len(Needs(c)) THEN Goto(c, "artifactExists") ELSE AfterLoop(c)

-----------------------------------------------------------------------------
(* Requests arrive and leave *)

\* A document submitted with a bundleHash is refused unless the hash is the
\* computed one, before any storage call.
HashRefused(j) ==
    j.op = "artifact" /\ j.claim \notin {None, j.doc.bundleHash}

\* The first storage call of a handler.
FirstCall(j) ==
    CASE j.op = "artifact"  -> "findArtifact"
      [] j.op = "revision"  -> IF RevisionNode[j.revision].parent # None
                               THEN "findParent" ELSE "artifactExists"
      [] j.op = "execution" -> "findRunRevision"
      [] OTHER              -> "findExecution"

Submit(c, j) ==
    /\ pc[c] = "idle"
    /\ job' = [job EXCEPT ![c] = j]
    /\ next' = [next EXCEPT ![c] = 1]
    /\ IF HashRefused(j) THEN Reply(c, "ERR_ARTIFACT_HASH_MISMATCH")
                         ELSE Goto(c, FirstCall(j))
    /\ UNCHANGED <<artifacts, revisions, executions, loaded>>

\* The client has its answer and may ask for something else, or for the same.
Receive(c) ==
    /\ pc[c] = "done"
    /\ pc' = [pc EXCEPT ![c] = "idle"]
    /\ job' = [job EXCEPT ![c] = NoJob]
    /\ next' = [next EXCEPT ![c] = 0]
    /\ loaded' = [loaded EXCEPT ![c] = None]
    /\ answer' = [answer EXCEPT ![c] = None]
    /\ UNCHANGED <<artifacts, revisions, executions>>

\* The process stops, the database connection fails or the answer is lost on
\* its way. A restart is this step for every client: a handler keeps nothing
\* outside its request.
Interrupt(c) ==
    /\ pc[c] # "idle"
    /\ answer[c] # "interrupted"
    /\ Reply(c, "interrupted")
    /\ UNCHANGED <<artifacts, revisions, executions, job, next, loaded>>

-----------------------------------------------------------------------------
(* ArtifactStoreService.storeArtifactBundle *)

FindArtifact(c) ==
    LET doc == job[c].doc
        existing == artifacts[KeyOf(doc)]
    IN
    /\ pc[c] = "findArtifact"
    /\ IF existing = None THEN Goto(c, "upsertArtifact")
       ELSE IF existing.payload # doc.payload
            THEN Reply(c, "ERR_ARTIFACT_CONFLICT")
            ELSE Reply(c, "ok")
    /\ UNCHANGED <<artifacts, revisions, executions, job, next, loaded>>

\* Mutant of UpsertArtifact: the returned row is not compared.
UpsertArtifactUnchecked(c) ==
    LET doc == job[c].doc
        persisted == IF artifacts[KeyOf(doc)] = None
                     THEN doc ELSE artifacts[KeyOf(doc)]
    IN
    /\ pc[c] = "upsertArtifact"
    /\ artifacts' = [artifacts EXCEPT ![KeyOf(doc)] = persisted]
    /\ Reply(c, "ok")
    /\ UNCHANGED <<revisions, executions, job, next, loaded>>

\* Mutant of UpsertArtifact: the upsert has the document as its update.
UpsertArtifactOverwrites(c) ==
    /\ pc[c] = "upsertArtifact"
    /\ artifacts' = [artifacts EXCEPT ![KeyOf(job[c].doc)] = job[c].doc]
    /\ Reply(c, "ok")
    /\ UNCHANGED <<revisions, executions, job, next, loaded>>

\* upsert with an empty update returns the row that is there, whoever wrote it,
\* and the handler compares that row's payload with its own.
UpsertArtifact(c) ==
    LET doc == job[c].doc
        persisted == IF artifacts[KeyOf(doc)] = None
                     THEN doc ELSE artifacts[KeyOf(doc)]
    IN
    /\ pc[c] = "upsertArtifact"
    /\ artifacts' = [artifacts EXCEPT ![KeyOf(doc)] = persisted]
    /\ IF persisted.payload # doc.payload
       THEN Reply(c, "ERR_ARTIFACT_CONFLICT")
       ELSE Reply(c, "ok")
    /\ UNCHANGED <<revisions, executions, job, next, loaded>>

-----------------------------------------------------------------------------
(* RevisionService.createRevision *)

\* Mutant of FindParent: a missing parent is let through.
FindParentUnchecked(c) ==
    LET node == RevisionNode[job[c].revision] IN
    /\ pc[c] = "findParent"
    /\ IF RevisionNode[node.parent].packageId # node.packageId
       THEN Reply(c, "ERR_REVISION_PARENT_PACKAGE_MISMATCH") /\ UNCHANGED next
       ELSE Loop(c, 1)
    /\ UNCHANGED <<artifacts, revisions, executions, job, loaded>>

FindParent(c) ==
    LET node == RevisionNode[job[c].revision] IN
    /\ pc[c] = "findParent"
    /\ IF node.parent \notin revisions
       THEN Reply(c, "ERR_REVISION_PARENT_NOT_FOUND") /\ UNCHANGED next
       ELSE IF RevisionNode[node.parent].packageId # node.packageId
            THEN Reply(c, "ERR_REVISION_PARENT_PACKAGE_MISMATCH") /\ UNCHANGED next
            ELSE Loop(c, 1)
    /\ UNCHANGED <<artifacts, revisions, executions, job, loaded>>

\* One turn of the loop over the artifacts, in all three handlers.
ArtifactExists(c) ==
    /\ pc[c] = "artifactExists"
    /\ IF artifacts[<<NeedsPackage(c), Needs(c)[next[c]]>>] = None
       THEN Reply(c, "ERR_ARTIFACT_NOT_FOUND") /\ UNCHANGED next
       ELSE Loop(c, next[c] + 1)
    /\ UNCHANGED <<artifacts, revisions, executions, job, loaded>>

\* Mutant of FindRevision: the stored revision is not looked for.
FindRevisionSkipped(c) ==
    /\ pc[c] = "findRevision"
    /\ Goto(c, "insertRevision")
    /\ UNCHANGED <<artifacts, revisions, executions, job, next, loaded>>

FindRevision(c) ==
    /\ pc[c] = "findRevision"
    /\ IF job[c].revision \in revisions THEN Reply(c, "ok")
                                        ELSE Goto(c, "insertRevision")
    /\ UNCHANGED <<artifacts, revisions, executions, job, next, loaded>>

\* One transaction inserts the node and its artifact rows, whose primary key is
\* (revisionHash, bundleHash): a bundle listed twice is refused with the node.
InsertRevision(c) ==
    LET r == job[c].revision IN
    /\ pc[c] = "insertRevision"
    /\ IF r \in revisions \/ ~IsInjective(RevisionNode[r].artifacts)
       THEN Reply(c, "P2002") /\ UNCHANGED revisions
       ELSE Reply(c, "ok") /\ revisions' = revisions \cup {r}
    /\ UNCHANGED <<artifacts, executions, job, next, loaded>>

-----------------------------------------------------------------------------
(* ExecutionService.recordExecution *)

\* Mutant of FindRunRevision: recording does not look the revision up.
FindRunRevisionReplayOnly(c) ==
    /\ pc[c] = "findRunRevision"
    /\ IF job[c].op = "replay" /\ RunOf(c).revision \notin revisions
       THEN Reply(c, "ERR_REVISION_NOT_FOUND") /\ UNCHANGED next
       ELSE Loop(c, 1)
    /\ UNCHANGED <<artifacts, revisions, executions, job, loaded>>

FindRunRevision(c) ==
    /\ pc[c] = "findRunRevision"
    /\ IF RunOf(c).revision \notin revisions
       THEN Reply(c, "ERR_REVISION_NOT_FOUND") /\ UNCHANGED next
       ELSE Loop(c, 1)
    /\ UNCHANGED <<artifacts, revisions, executions, job, loaded>>

\* Mutant of InsertExecution: the request is stored, not the run it carries.
InsertExecutionRequest(c) ==
    LET e == job[c].id IN
    /\ pc[c] = "insertExecution"
    /\ IF executions[e] # None
       THEN Reply(c, "P2002") /\ UNCHANGED executions
       ELSE Reply(c, "ok") /\ executions' = [executions EXCEPT ![e] = job[c]]
    /\ UNCHANGED <<artifacts, revisions, job, next, loaded>>

\* A nested create: the record and its input and output rows in one statement
\* group; their primary keys are (executionId, bundleHash).
InsertExecution(c) ==
    LET e == job[c].id
        run == job[c].run
    IN
    /\ pc[c] = "insertExecution"
    /\ IF executions[e] # None \/ ~IsInjective(run.inputs) \/ ~IsInjective(run.outputs)
       THEN Reply(c, "P2002") /\ UNCHANGED executions
       ELSE Reply(c, "ok") /\ executions' = [executions EXCEPT ![e] = run]
    /\ UNCHANGED <<artifacts, revisions, job, next, loaded>>

(* ExecutionService.replayExecution: FindExecution, then FindRunRevision and
   ArtifactExists on what was read, then ReplayVerdict *)

FindExecution(c) ==
    LET e == job[c].id IN
    /\ pc[c] = "findExecution"
    /\ IF executions[e] = None
       THEN Reply(c, "ERR_EXECUTION_NOT_FOUND") /\ UNCHANGED loaded
       ELSE /\ loaded' = [loaded EXCEPT ![c] = executions[e]]
            /\ Goto(c, "findRunRevision")
    /\ UNCHANGED <<artifacts, revisions, executions, job, next>>

-----------------------------------------------------------------------------
LedgerInit ==
    /\ Init
    /\ pc = [c \in Client |-> "idle"]
    /\ job = [c \in Client |-> NoJob]
    /\ next = [c \in Client |-> 0]
    /\ loaded = [c \in Client |-> None]
    /\ answer = [c \in Client |-> None]

\* The handler of client c takes its next step.
Handle(c) ==
    \/ FindArtifact(c)
    \/ UpsertArtifact(c)
    \/ FindParent(c)
    \/ ArtifactExists(c)
    \/ FindRevision(c)
    \/ InsertRevision(c)
    \/ FindRunRevision(c)
    \/ InsertExecution(c)
    \/ FindExecution(c)

LedgerNext ==
    \E c \in Client :
        \/ \E j \in Job : Submit(c, j)
        \/ Receive(c)
        \/ Interrupt(c)
        \/ Handle(c)

LedgerSpec == LedgerInit /\ [][LedgerNext]_ledgerVars

\* The event loop resumes every awaited call; nothing makes a client submit,
\* nothing makes a failure happen.
FairLedgerSpec == LedgerSpec /\ \A c \in Client : WF_ledgerVars(Handle(c))

-----------------------------------------------------------------------------
(* Properties; Closed and ParentChainsEnd of ClosedDag are invariants too *)

\* A client that is told "ok" finds in the ledger what it asked to store: the
\* payload it sent, the revision, the run under the id it used; and a replay
\* told "ok" repeated the call of the recorded run and its result. It holds
\* whatever other handlers stored since, and for a hash that collides.
OkIsTrue ==
    \A c \in Client : answer[c] = "ok" =>
        /\ job[c].op = "artifact" =>
              /\ artifacts[KeyOf(job[c].doc)] # None
              /\ artifacts[KeyOf(job[c].doc)].payload = job[c].doc.payload
        /\ job[c].op = "revision" => job[c].revision \in revisions
        /\ job[c].op = "execution" => executions[job[c].id] = job[c].run
        /\ job[c].op = "replay" =>
              /\ executions[job[c].id] # None
              /\ executions[job[c].id].call = job[c].call
              /\ job[c].result \in {None, executions[job[c].id].result}

\* The replay of a recorded execution fails only on what the caller supplies:
\* what the record names was stored before it and is never missing again, so
\* the lookups of replayExecution never fail.
ReplayBlamesCaller ==
    \A c \in Client : job[c].op = "replay" =>
        answer[c] \notin {"ERR_REVISION_NOT_FOUND", "ERR_ARTIFACT_NOT_FOUND", "P2002"}

\* Storing a revision again, after an interruption or because another client
\* did, ends with "ok": createRevision returns the stored one. Only two
\* overlapping first creations may refuse one of the two.
RetryIsOk ==
    \A c \in Client, r \in Revision :
        (/\ pc[c] = FirstCall([op |-> "revision", revision |-> r])
         /\ job[c] = [op |-> "revision", revision |-> r]
         /\ next[c] = 1
         /\ r \in revisions)
        ~> (pc[c] = "done" /\ answer[c] \in {"ok", "interrupted"})
=============================================================================
