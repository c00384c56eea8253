-------------------------- MODULE RecordLedgerProofs --------------------------
(***************************************************************************)
(* The handlers of RecordLedger, one awaited call at a time and interrupted *)
(* anywhere, implement ClosedDag, for any number of clients and any         *)
(* records. The point of the argument: what a handler has looked up before  *)
(* it writes is still there when it writes, because nothing is removed.     *)
(*                                                                         *)
(* First ClosedDag itself, for every value of its constants: closure, the   *)
(* end of parent chains, and records that never change. That the hash       *)
(* function makes the parent relation acyclic is not assumed.               *)
(***************************************************************************)
EXTENDS RecordLedger, TLAPS

-----------------------------------------------------------------------------
(* The abstract ledger *)

\* The records that are stored before a step are stored after it, unchanged.
Grows ==
    /\ \A k \in ArtifactKey : artifacts[k] # None => artifacts'[k] = artifacts[k]
    /\ revisions \subseteq revisions'
    /\ \A e \in ExecutionId : executions[e] # None => executions'[e] = executions[e]

\* A document's key is a key of the artifact store.
LEMMA KeyType == \A doc \in Doc : KeyOf(doc) \in ArtifactKey
BY DocType DEF KeyOf, ArtifactKey

\* Every step keeps the types.
LEMMA TypePreserved == TypeOK /\ [Next]_vars => TypeOK'
<1> SUFFICES ASSUME TypeOK, [Next]_vars PROVE TypeOK'
    OBVIOUS
<1>1. ASSUME NEW doc \in Doc, StoreArtifact(doc) PROVE TypeOK'
    BY <1>1, KeyType DEF TypeOK, StoreArtifact
<1>2. ASSUME NEW r \in Revision, StoreRevision(r) PROVE TypeOK'
    BY <1>2 DEF TypeOK, StoreRevision
<1>3. ASSUME NEW e \in ExecutionId, NEW run \in Run, StoreExecution(e, run)
      PROVE  TypeOK'
    BY <1>3 DEF TypeOK, StoreExecution
<1>4. CASE UNCHANGED vars
    BY <1>4 DEF TypeOK, vars
<1> QED
    BY <1>1, <1>2, <1>3, <1>4 DEF Next

\* Nothing is changed or removed by a step.
LEMMA StepGrows == TypeOK /\ [Next]_vars => Grows
<1> SUFFICES ASSUME TypeOK, [Next]_vars PROVE Grows
    OBVIOUS
<1>1. ASSUME NEW doc \in Doc, StoreArtifact(doc) PROVE Grows
    BY <1>1, KeyType DEF TypeOK, StoreArtifact, Grows
<1>2. ASSUME NEW r \in Revision, StoreRevision(r) PROVE Grows
    BY <1>2 DEF StoreRevision, Grows
<1>3. ASSUME NEW e \in ExecutionId, NEW run \in Run, StoreExecution(e, run)
      PROVE  Grows
    BY <1>3 DEF TypeOK, StoreExecution, Grows
<1>4. CASE UNCHANGED vars
    BY <1>4 DEF Grows, vars
<1> QED
    BY <1>1, <1>2, <1>3, <1>4 DEF Next

\* What is stored stays stored while the ledger grows.
LEMMA AllStoredStable ==
    ASSUME NEW p \in Package, NEW s \in Seq(Bundle), Grows, AllStored(p, s)
    PROVE  AllStored(p, s)'
<1> SUFFICES ASSUME NEW i \in 1..Len(s) PROVE artifacts'[<<p, s[i]>>] # None
    BY DEF AllStored
<1>1. <<p, s[i]>> \in ArtifactKey
    BY DEF ArtifactKey
<1>2. artifacts[<<p, s[i]>>] # None
    BY DEF AllStored
<1> QED
    BY <1>1, <1>2 DEF Grows

\* A closed revision stays closed, and so does a closed run.
LEMMA ClosedStable ==
    ASSUME Grows
    PROVE  /\ \A r \in Revision : RevisionClosed(r) => RevisionClosed(r)'
           /\ \A run \in Run : RunClosed(run) => RunClosed(run)'
<1>1. ASSUME NEW r \in Revision, RevisionClosed(r) PROVE RevisionClosed(r)'
    <2>1. /\ RevisionNode[r].packageId \in Package
          /\ RevisionNode[r].artifacts \in Seq(Bundle)
        BY RevisionNodeType
    <2>2. AllStored(RevisionNode[r].packageId, RevisionNode[r].artifacts)'
        BY <1>1, <2>1, AllStoredStable DEF RevisionClosed
    <2> QED
        BY <1>1, <2>2 DEF RevisionClosed, Grows
<1>2. ASSUME NEW run \in Run, RunClosed(run) PROVE RunClosed(run)'
    <2>1. /\ run.packageId \in Package
          /\ run.inputs \in Seq(Bundle) /\ run.outputs \in Seq(Bundle)
        BY RunType
    <2>2. AllStored(run.packageId, run.inputs)' /\ AllStored(run.packageId, run.outputs)'
        BY <1>2, <2>1, AllStoredStable DEF RunClosed
    <2> QED
        BY <1>2, <2>2 DEF RunClosed, Grows
<1> QED
    BY <1>1, <1>2

\* Closure is inductive: the one record a step adds is closed by its guard.
LEMMA ClosedPreserved == TypeOK /\ Closed /\ [Next]_vars => Closed'
<1> SUFFICES ASSUME TypeOK, Closed, [Next]_vars PROVE Closed'
    OBVIOUS
<1>1. Grows /\ TypeOK'
    BY StepGrows, TypePreserved
<1>2. ASSUME NEW r \in revisions' PROVE RevisionClosed(r)'
    <2>1. r \in Revision
        BY <1>1 DEF TypeOK
    <2>2. RevisionClosed(r)
        BY <2>1 DEF Next, vars, StoreArtifact, StoreRevision, StoreExecution, Closed
    <2> QED
        BY <1>1, <2>1, <2>2, ClosedStable
<1>3. ASSUME NEW e \in ExecutionId, executions'[e] # None
      PROVE  RunClosed(executions[e])'
    <2>1. executions'[e] \in Run
        BY <1>1, <1>3 DEF TypeOK
    <2>2. RunClosed(executions'[e])
        <3>1. CASE executions'[e] = executions[e]
            BY <1>3, <3>1 DEF Closed
        <3>2. CASE executions'[e] # executions[e]
            <4>1. PICK f \in ExecutionId, run \in Run : StoreExecution(f, run)
                BY <3>2 DEF Next, vars, StoreArtifact, StoreRevision
            <4>2. executions'[e] = run
                BY <3>2, <4>1 DEF StoreExecution, TypeOK
            <4> QED
                BY <4>1, <4>2 DEF StoreExecution
        <3> QED
            BY <3>1, <3>2
    <2> QED
        BY <1>1, <2>1, <2>2, ClosedStable DEF RunClosed, AllStored
<1> QED
    BY <1>2, <1>3 DEF Closed

\* A revision added last is the parent of none that is stored, so it cannot
\* close a cycle.
LEMMA ChainsPreserved ==
    TypeOK /\ Closed /\ ParentChainsEnd /\ [Next]_vars => ParentChainsEnd'
<1> SUFFICES ASSUME TypeOK, Closed, ParentChainsEnd, [Next]_vars,
                    NEW S \in SUBSET revisions', S # {}
             PROVE  \E r \in S : RevisionNode[r].parent \notin S
    BY DEF ParentChainsEnd
<1>1. CASE revisions' = revisions
    BY <1>1 DEF ParentChainsEnd
<1>2. CASE revisions' # revisions
    <2>1. PICK new \in Revision : StoreRevision(new)
        BY <1>2 DEF Next, vars, StoreArtifact, StoreExecution
    <2>2. \A r \in S \ {new} : r \in revisions
        BY <2>1 DEF StoreRevision
    <2>3. CASE S \ {new} = {}
        <3>1. RevisionNode[new].parent # new
            BY <2>1, NoneIsNoRecord DEF StoreRevision, RevisionClosed
        <3> QED
            BY <2>3, <3>1
    <2>4. CASE S \ {new} # {}
        <3>1. PICK r \in S \ {new} : RevisionNode[r].parent \notin S \ {new}
            BY <2>2, <2>4 DEF ParentChainsEnd
        <3>2. RevisionNode[r].parent # new
            BY <2>1, <2>2, NoneIsNoRecord DEF Closed, RevisionClosed, StoreRevision
        <3> QED
            BY <3>1, <3>2
    <2> QED
        BY <2>3, <2>4
<1> QED
    BY <1>1, <1>2

DagInv == TypeOK /\ Closed /\ ParentChainsEnd

\* In every reachable state of the abstract ledger the records are typed and
\* closed and every parent chain ends, for any content of the revisions.
THEOREM DagInvariant == Spec => [](TypeOK /\ Closed /\ ParentChainsEnd)
<1>1. Init => DagInv
    BY DEF Init, DagInv, TypeOK, Closed, ParentChainsEnd
<1>2. DagInv /\ [Next]_vars => DagInv'
    BY TypePreserved, ClosedPreserved, ChainsPreserved DEF DagInv
<1> QED
    BY <1>1, <1>2, PTL DEF Spec, DagInv

\* A stored artifact, revision or execution is never changed or removed.
THEOREM DagAppendOnly == Spec => AppendOnly
<1>1. TypeOK /\ [Next]_vars => [Grows]_vars
    BY StepGrows
<1>2. Spec => []TypeOK
    BY DagInvariant, PTL
<1> QED
    BY <1>1, <1>2, PTL DEF Spec, AppendOnly, Grows

-----------------------------------------------------------------------------
(* The handlers *)

\* What the handler of c knows from its previous storage calls: its artifacts
\* up to the n-th are stored.
Checked(c, n) ==
    \A i \in 1..n : artifacts[<<NeedsPackage(c), Needs(c)[i]>>] # None

\* The handler stands at a call that belongs to its kind of request.
RightCall(c) ==
    /\ pc[c] \in {"findArtifact", "upsertArtifact"} => job[c] \in ArtifactJob
    /\ pc[c] \in {"findParent", "findRevision", "insertRevision"}
          => job[c] \in RevisionJob
    /\ pc[c] = "insertExecution" => job[c] \in ExecutionJob
    /\ pc[c] = "findExecution" => job[c] \in ReplayJob
    /\ pc[c] = "findRunRevision" => job[c] \in ExecutionJob \cup ReplayJob
    /\ pc[c] = "artifactExists"
          => job[c] \in RevisionJob \cup ExecutionJob \cup ReplayJob

\* The record that the handler's own record hangs on has been found.
Anchored(c) ==
    /\ job[c] \in RevisionJob =>
          LET node == RevisionNode[job[c].revision] IN
          node.parent # None =>
             /\ node.parent \in revisions
             /\ RevisionNode[node.parent].packageId = node.packageId
    /\ job[c] \in ExecutionJob => job[c].run.revision \in revisions

\* A replay works on the record as it is stored.
Loaded(c) ==
    job[c] \in ReplayJob =>
        loaded[c] # None /\ loaded[c] = executions[job[c].id]

AnchorFound(c) ==
    /\ pc[c] \in {"artifactExists", "findRevision", "insertRevision", "insertExecution"}
          => Anchored(c)
    /\ pc[c] \in {"findRunRevision", "artifactExists"} => Loaded(c)

ArtifactsFound(c) ==
    /\ pc[c] = "artifactExists" =>
          next[c] \in 1..Len(Needs(c)) /\ Checked(c, next[c] - 1)
    /\ pc[c] \in {"findRevision", "insertRevision", "insertExecution"} =>
          Checked(c, Len(Needs(c)))

\* OkIsTrue and ReplayBlamesCaller, for one client.
TrueAnswer(c) ==
    /\ pc[c] # "done" => answer[c] = None
    /\ answer[c] = "ok" =>
        /\ job[c].op = "artifact" =>
              /\ artifacts[KeyOf(job[c].doc)] # None
              /\ artifacts[KeyOf(job[c].doc)].payload = job[c].doc.payload
        /\ job[c].op = "revision" => job[c].revision \in revisions
        /\ job[c].op = "execution" => executions[job[c].id] = job[c].run
        /\ job[c].op = "replay" =>
              /\ executions[job[c].id] # None
              /\ executions[job[c].id].call = job[c].call
              /\ job[c].result \in {None, executions[job[c].id].result}
    /\ job[c].op = "replay" =>
          answer[c] \notin {"ERR_REVISION_NOT_FOUND", "ERR_ARTIFACT_NOT_FOUND", "P2002"}

HandlerInv(c) ==
    /\ pc[c] # "idle" => job[c] \in Job
    /\ RightCall(c)
    /\ AnchorFound(c)
    /\ ArtifactsFound(c)
    /\ TrueAnswer(c)

LedgerInv ==
    /\ LedgerTypeOK
    /\ Closed
    /\ \A c \in Client : HandlerInv(c)

-----------------------------------------------------------------------------
(* Facts about requests *)

\* The kind of a request is told by its op.
LEMMA JobKinds ==
    /\ \A j \in ArtifactJob : j.op = "artifact" /\ j.doc \in Doc
    /\ \A j \in RevisionJob : j.op = "revision" /\ j.revision \in Revision
    /\ \A j \in ExecutionJob :
          j.op = "execution" /\ j.id \in ExecutionId /\ j.run \in Run
    /\ \A j \in ReplayJob : j.op = "replay" /\ j.id \in ExecutionId
    /\ NoJob.op = "none"
    /\ \A j \in Job : /\ j.op = "artifact" => j \in ArtifactJob
                      /\ j.op = "revision" => j \in RevisionJob
                      /\ j.op = "execution" => j \in ExecutionJob
                      /\ j.op = "replay" => j \in ReplayJob
                      /\ j.op \in {"artifact", "revision", "execution", "replay"}
BY DEF ArtifactJob, RevisionJob, ExecutionJob, ReplayJob, NoJob, Job

\* A handler with an artifact loop.
Looping(c) ==
    /\ job[c] \in RevisionJob \cup ExecutionJob \cup ReplayJob
    /\ job[c] \in ReplayJob => loaded[c] # None

\* What the loop looks up are bundles of one package.
LEMMA NeedsType ==
    ASSUME LedgerTypeOK, NEW c \in Client, Looping(c)
    PROVE  Needs(c) \in Seq(Bundle) /\ NeedsPackage(c) \in Package
<1>1. CASE job[c] \in RevisionJob
    <2>1. job[c].op = "revision" /\ job[c].revision \in Revision
        BY <1>1, JobKinds
    <2>2. /\ RevisionNode[job[c].revision].artifacts \in Seq(Bundle)
          /\ RevisionNode[job[c].revision].packageId \in Package
        BY <2>1, RevisionNodeType
    <2> QED
        BY <2>1, <2>2 DEF Needs, NeedsPackage, RunOf
<1>2. CASE job[c] \in ExecutionJob
    <2>1. job[c].op = "execution" /\ job[c].run \in Run
        BY <1>2, JobKinds
    <2>2. /\ job[c].run.inputs \in Seq(Bundle) /\ job[c].run.outputs \in Seq(Bundle)
          /\ job[c].run.packageId \in Package
        BY <2>1, RunType
    <2> QED
        BY <2>1, <2>2 DEF Needs, NeedsPackage, RunOf
<1>3. CASE job[c] \in ReplayJob
    <2>1. job[c].op = "replay" /\ loaded[c] \in Run
        BY <1>3, JobKinds DEF Looping, LedgerTypeOK
    <2>2. /\ loaded[c].inputs \in Seq(Bundle) /\ loaded[c].outputs \in Seq(Bundle)
          /\ loaded[c].packageId \in Package
        BY <2>1, RunType
    <2> QED
        BY <2>1, <2>2 DEF Needs, NeedsPackage, RunOf
<1> QED
    BY <1>1, <1>2, <1>3 DEF Looping

\* Artifacts that a handler has found stay found.
LEMMA CheckedStable ==
    ASSUME LedgerTypeOK, Grows, NEW c \in Client, Looping(c),
           job'[c] = job[c], loaded'[c] = loaded[c],
           NEW n \in Int, n <= Len(Needs(c)), Checked(c, n)
    PROVE  Needs(c)' = Needs(c) /\ Checked(c, n)'
<1>1. Needs(c)' = Needs(c) /\ NeedsPackage(c)' = NeedsPackage(c)
    BY DEF Needs, NeedsPackage, RunOf
<1>2. ASSUME NEW i \in 1..n
      PROVE  artifacts'[<<NeedsPackage(c), Needs(c)[i]>>] # None
    <2>1. <<NeedsPackage(c), Needs(c)[i]>> \in ArtifactKey
        BY NeedsType DEF ArtifactKey
    <2>2. artifacts[<<NeedsPackage(c), Needs(c)[i]>>] # None
        BY DEF Checked
    <2> QED
        BY <2>1, <2>2 DEF Grows
<1> QED
    BY <1>1, <1>2 DEF Checked

\* A client's own state, and the handlers that a step of c leaves alone.
Same(d) ==
    /\ pc'[d] = pc[d] /\ job'[d] = job[d] /\ next'[d] = next[d]
    /\ loaded'[d] = loaded[d] /\ answer'[d] = answer[d]

\* While the ledger grows, a handler that does not move keeps what it knows.
LEMMA IdleHandler ==
    ASSUME LedgerTypeOK, Grows, NEW d \in Client, Same(d), HandlerInv(d)
    PROVE  HandlerInv(d)'
<1>0. pc[d] # "idle" => job[d] \in Job
    BY DEF HandlerInv
<1>1. (pc[d] # "idle" => job[d] \in Job)' /\ RightCall(d)'
    BY DEF Same, HandlerInv, RightCall
<1>2. AnchorFound(d)'
    <2>1. Anchored(d) => Anchored(d)'
        BY DEF Same, Anchored, Grows
    <2>2. Loaded(d) => Loaded(d)'
        BY JobKinds DEF Same, Loaded, Grows
    <2> QED
        BY <2>1, <2>2 DEF Same, HandlerInv, AnchorFound
<1>3. ArtifactsFound(d)'
    <2>1. CASE pc[d] = "artifactExists"
        <3>1. Looping(d)
            BY <2>1 DEF HandlerInv, RightCall, AnchorFound, Loaded, Looping
        <3>2. next[d] \in 1..Len(Needs(d)) /\ Checked(d, next[d] - 1)
            BY <2>1 DEF HandlerInv, ArtifactsFound
        <3>3. Len(Needs(d)) \in Nat
            BY <3>1, NeedsType
        <3>4. next[d] - 1 \in Int /\ next[d] - 1 <= Len(Needs(d))
            BY <3>2, <3>3
        <3>5. Needs(d)' = Needs(d) /\ Checked(d, next[d] - 1)'
            BY <3>1, <3>2, <3>4, CheckedStable DEF Same
        <3> QED
            BY <2>1, <3>2, <3>5 DEF Same, ArtifactsFound, Checked
    <2>2. CASE pc[d] \in {"findRevision", "insertRevision", "insertExecution"}
        <3>1. Looping(d)
            BY <2>2, JobKinds DEF HandlerInv, RightCall, Looping
        <3>2. Len(Needs(d)) \in Nat
            BY <3>1, NeedsType
        <3>3. Checked(d, Len(Needs(d)))
            BY <2>2 DEF HandlerInv, ArtifactsFound
        <3>4. Needs(d)' = Needs(d) /\ Checked(d, Len(Needs(d)))'
            BY <3>1, <3>2, <3>3, CheckedStable DEF Same
        <3> QED
            BY <2>2, <3>4 DEF Same, ArtifactsFound, Checked
    <2>3. CASE pc[d] \notin {"artifactExists", "findRevision", "insertRevision",
                            "insertExecution"}
        BY <2>3 DEF Same, ArtifactsFound
    <2> QED
        BY <2>1, <2>2, <2>3
<1>4. TrueAnswer(d)'
    <2>0. TrueAnswer(d)
        BY DEF HandlerInv
    <2>1. job[d].op = "artifact" /\ answer[d] = "ok" => KeyOf(job[d].doc) \in ArtifactKey
        BY <1>0, <2>0, JobKinds, KeyType, NoneIsNoAnswer DEF TrueAnswer, LedgerTypeOK, Answer
    <2>2. job[d].op = "execution" /\ answer[d] = "ok" => job[d].id \in ExecutionId /\ job[d].run \in Run
        BY <1>0, <2>0, JobKinds, NoneIsNoAnswer DEF TrueAnswer, LedgerTypeOK, Answer
    <2>3. job[d].op = "replay" /\ answer[d] = "ok" => job[d].id \in ExecutionId
        BY <1>0, <2>0, JobKinds, NoneIsNoAnswer DEF TrueAnswer, LedgerTypeOK, Answer
    <2>4. None \notin Run
        BY NoneIsNoRecord
    <2> QED
        BY <2>0, <2>1, <2>2, <2>3, <2>4 DEF Same, TrueAnswer, Grows
<1> QED
    BY <1>1, <1>2, <1>3, <1>4 DEF HandlerInv

-----------------------------------------------------------------------------
(* Steps keep the types *)

\* An answer keeps the types of control and answers.
LEMMA ReplyType ==
    ASSUME LedgerTypeOK, NEW c \in Client, NEW a \in Answer, Reply(c, a)
    PROVE  /\ pc' \in [Client -> Storage \cup {"idle", "done"}]
           /\ answer' \in [Client -> Answer \cup {None}]
BY DEF LedgerTypeOK, Reply

\* So does going on to the next storage call.
LEMMA GotoType ==
    ASSUME LedgerTypeOK, NEW c \in Client, NEW s \in Storage, Goto(c, s)
    PROVE  /\ pc' \in [Client -> Storage \cup {"idle", "done"}]
           /\ answer' \in [Client -> Answer \cup {None}]
BY DEF LedgerTypeOK, Goto

\* And a turn of the artifact loop, which also moves its index.
LEMMA LoopType ==
    ASSUME LedgerTypeOK, NEW c \in Client, NEW i \in Nat, Loop(c, i)
    PROVE  /\ pc' \in [Client -> Storage \cup {"idle", "done"}]
           /\ answer' \in [Client -> Answer \cup {None}]
           /\ next' \in [Client -> Nat]
<1>1. next' \in [Client -> Nat]
    BY DEF LedgerTypeOK, Loop
<1>2. \/ \E s \in Storage : Goto(c, s)
      \/ \E a \in Answer : Reply(c, a)
    <2>1. {"artifactExists", "findRevision", "insertExecution"} \subseteq Storage
        BY DEF Storage
    <2>2. ReplayVerdict(c) \in Answer
        BY DEF ReplayVerdict, Answer
    <2> QED
        BY <2>1, <2>2 DEF Loop, AfterLoop
<1> QED
    BY <1>1, <1>2, ReplyType, GotoType

\* Every handler step keeps the types; the two inserts need to know which kind
\* of request they serve.
LEMMA LedgerTypePreserved == LedgerInv /\ [LedgerNext]_ledgerVars => LedgerTypeOK'
<1> SUFFICES ASSUME LedgerInv, [LedgerNext]_ledgerVars PROVE LedgerTypeOK'
    OBVIOUS
<1>t. LedgerTypeOK /\ \A c \in Client : RightCall(c)
    BY DEF LedgerInv, HandlerInv
<1>s. {"findArtifact", "upsertArtifact", "findParent", "findRevision",
       "insertRevision", "findRunRevision", "insertExecution",
       "findExecution", "artifactExists"} = Storage
    BY DEF Storage
<1>a. {"ok", "ERR_ARTIFACT_HASH_MISMATCH", "ERR_ARTIFACT_CONFLICT",
       "ERR_REVISION_PARENT_NOT_FOUND", "ERR_REVISION_PARENT_PACKAGE_MISMATCH",
       "ERR_ARTIFACT_NOT_FOUND", "ERR_REVISION_NOT_FOUND",
       "ERR_EXECUTION_NOT_FOUND", "P2002", "interrupted"} \subseteq Answer
    BY DEF Answer
<1> DEFINE PcType == pc' \in [Client -> Storage \cup {"idle", "done"}]
           AnswerType == answer' \in [Client -> Answer \cup {None}]
<1>1. ASSUME NEW c \in Client, NEW j \in Job, Submit(c, j) PROVE LedgerTypeOK'
    <2>1. FirstCall(j) \in Storage
        BY <1>s DEF FirstCall
    <2>2. PcType /\ AnswerType
        BY <1>t, <1>1, <2>1, <1>a, ReplyType, GotoType DEF Submit
    <2> QED
        BY <1>t, <1>1, <2>2 DEF Submit, TypeOK, LedgerTypeOK
<1>2. ASSUME NEW c \in Client, Receive(c) PROVE LedgerTypeOK'
    BY <1>t, <1>2 DEF Receive, TypeOK, LedgerTypeOK
<1>3. ASSUME NEW c \in Client, Interrupt(c) PROVE LedgerTypeOK'
    <2>1. PcType /\ AnswerType
        BY <1>t, <1>3, <1>a, ReplyType DEF Interrupt
    <2> QED
        BY <1>t, <1>3, <2>1 DEF Interrupt, TypeOK, LedgerTypeOK
<1>4. ASSUME NEW c \in Client, FindArtifact(c) PROVE LedgerTypeOK'
    <2>1. PcType /\ AnswerType
        BY <1>t, <1>4, <1>a, <1>s, ReplyType, GotoType DEF FindArtifact
    <2> QED
        BY <1>t, <1>4, <2>1 DEF FindArtifact, TypeOK, LedgerTypeOK
<1>5. ASSUME NEW c \in Client, UpsertArtifact(c) PROVE LedgerTypeOK'
    <2>1. PcType /\ AnswerType
        BY <1>t, <1>5, <1>a, ReplyType DEF UpsertArtifact
    <2>2. job[c].doc \in Doc /\ KeyOf(job[c].doc) \in ArtifactKey
        BY <1>t, <1>5, JobKinds, KeyType DEF UpsertArtifact, RightCall
    <2>3. artifacts' \in [ArtifactKey -> Doc \cup {None}]
        BY <1>t, <1>5, <2>2 DEF UpsertArtifact, TypeOK, LedgerTypeOK
    <2> QED
        BY <1>t, <1>5, <2>1, <2>3 DEF UpsertArtifact, TypeOK, LedgerTypeOK
<1>6. ASSUME NEW c \in Client, FindParent(c) PROVE LedgerTypeOK'
    <2>1. PcType /\ AnswerType /\ next' \in [Client -> Nat]
        BY <1>t, <1>6, <1>a, ReplyType, LoopType DEF FindParent, LedgerTypeOK
    <2> QED
        BY <1>t, <1>6, <2>1 DEF FindParent, TypeOK, LedgerTypeOK
<1>7. ASSUME NEW c \in Client, ArtifactExists(c) PROVE LedgerTypeOK'
    <2>1. next[c] + 1 \in Nat
        BY <1>t DEF LedgerTypeOK
    <2>2. PcType /\ AnswerType /\ next' \in [Client -> Nat]
        BY <1>t, <1>7, <1>a, <2>1, ReplyType, LoopType DEF ArtifactExists, LedgerTypeOK
    <2> QED
        BY <1>t, <1>7, <2>2 DEF ArtifactExists, TypeOK, LedgerTypeOK
<1>8. ASSUME NEW c \in Client, FindRevision(c) PROVE LedgerTypeOK'
    <2>1. PcType /\ AnswerType
        BY <1>t, <1>8, <1>a, <1>s, ReplyType, GotoType DEF FindRevision
    <2> QED
        BY <1>t, <1>8, <2>1 DEF FindRevision, TypeOK, LedgerTypeOK
<1>9. ASSUME NEW c \in Client, InsertRevision(c) PROVE LedgerTypeOK'
    <2>1. PcType /\ AnswerType
        BY <1>t, <1>9, <1>a, ReplyType DEF InsertRevision
    <2>2. job[c].revision \in Revision
        BY <1>t, <1>9, JobKinds DEF InsertRevision, RightCall
    <2> QED
        BY <1>t, <1>9, <2>1, <2>2 DEF InsertRevision, TypeOK, LedgerTypeOK
<1>10. ASSUME NEW c \in Client, FindRunRevision(c) PROVE LedgerTypeOK'
    <2>1. PcType /\ AnswerType /\ next' \in [Client -> Nat]
        BY <1>t, <1>10, <1>a, ReplyType, LoopType DEF FindRunRevision, LedgerTypeOK
    <2> QED
        BY <1>t, <1>10, <2>1 DEF FindRunRevision, TypeOK, LedgerTypeOK
<1>11. ASSUME NEW c \in Client, InsertExecution(c) PROVE LedgerTypeOK'
    <2>1. PcType /\ AnswerType
        BY <1>t, <1>11, <1>a, ReplyType DEF InsertExecution
    <2>2. job[c].id \in ExecutionId /\ job[c].run \in Run
        BY <1>t, <1>11, JobKinds DEF InsertExecution, RightCall
    <2>3. executions' \in [ExecutionId -> Run \cup {None}]
        BY <1>t, <1>11, <2>2 DEF InsertExecution, TypeOK, LedgerTypeOK
    <2> QED
        BY <1>t, <1>11, <2>1, <2>3 DEF InsertExecution, TypeOK, LedgerTypeOK
<1>12. ASSUME NEW c \in Client, FindExecution(c) PROVE LedgerTypeOK'
    <2>1. PcType /\ AnswerType
        BY <1>t, <1>12, <1>a, <1>s, ReplyType, GotoType DEF FindExecution
    <2>2. job[c].id \in ExecutionId
        BY <1>t, <1>12, JobKinds DEF FindExecution, RightCall
    <2>3. loaded' \in [Client -> Run \cup {None}]
        BY <1>t, <1>12, <2>2 DEF FindExecution, TypeOK, LedgerTypeOK
    <2> QED
        BY <1>t, <1>12, <2>1, <2>3 DEF FindExecution, TypeOK, LedgerTypeOK
<1>13. CASE UNCHANGED ledgerVars
    BY <1>t, <1>13 DEF ledgerVars, reqVars, LedgerTypeOK, TypeOK
<1> QED
    BY <1>1, <1>2, <1>3, <1>4, <1>5, <1>6, <1>7, <1>8, <1>9, <1>10, <1>11,
       <1>12, <1>13 DEF LedgerNext, Handle

-----------------------------------------------------------------------------
(* Steps implement ClosedDag *)

\* A concatenation holds the elements of both sequences.
LEMMA ConcatElements ==
    ASSUME NEW s \in Seq(Bundle), NEW t \in Seq(Bundle)
    PROVE  /\ \A i \in 1..Len(s) : i \in 1..Len(s \o t) /\ (s \o t)[i] = s[i]
           /\ \A i \in 1..Len(t) : /\ Len(s) + i \in 1..Len(s \o t)
                                   /\ (s \o t)[Len(s) + i] = t[i]
OBVIOUS

\* An index of a concatenation is an index of one of the two sequences.
LEMMA ConcatIndices ==
    ASSUME NEW s \in Seq(Bundle), NEW t \in Seq(Bundle),
           NEW i \in 1..Len(s \o t)
    PROVE  \/ i \in 1..Len(s) /\ (s \o t)[i] = s[i]
           \/ i - Len(s) \in 1..Len(t) /\ (s \o t)[i] = t[i - Len(s)]
OBVIOUS

\* Two stored sequences are stored one after the other.
LEMMA AllStoredConcat ==
    ASSUME NEW run \in Run, AllStored(run.packageId, run.inputs),
           AllStored(run.packageId, run.outputs)
    PROVE  AllStored(run.packageId, run.inputs \o run.outputs)
<1>1. run.inputs \in Seq(Bundle) /\ run.outputs \in Seq(Bundle)
    BY RunType
<1>2. \A i \in 1..Len(run.inputs \o run.outputs) :
        \/ i \in 1..Len(run.inputs)
           /\ (run.inputs \o run.outputs)[i] = run.inputs[i]
        \/ i - Len(run.inputs) \in 1..Len(run.outputs)
           /\ (run.inputs \o run.outputs)[i] = run.outputs[i - Len(run.inputs)]
    BY <1>1, ConcatIndices
<1> QED
    BY <1>2 DEF AllStored

\* A handler that inserts has found everything its record names; every other
\* step leaves the ledger alone.
LEMMA StepRefines == LedgerInv /\ [LedgerNext]_ledgerVars => [Next]_vars
<1> SUFFICES ASSUME LedgerInv, [LedgerNext]_ledgerVars PROVE [Next]_vars
    OBVIOUS
<1>t. LedgerTypeOK /\ \A c \in Client : HandlerInv(c)
    BY DEF LedgerInv
<1>1. ASSUME NEW c \in Client, UpsertArtifact(c) PROVE [Next]_vars
    <2>1. job[c].doc \in Doc /\ KeyOf(job[c].doc) \in ArtifactKey
        BY <1>t, <1>1, JobKinds, KeyType DEF UpsertArtifact, HandlerInv, RightCall
    <2>2. CASE artifacts[KeyOf(job[c].doc)] = None
        BY <1>1, <2>1, <2>2 DEF UpsertArtifact, StoreArtifact, Next
    <2>3. CASE artifacts[KeyOf(job[c].doc)] # None
        BY <1>t, <1>1, <2>3 DEF UpsertArtifact, LedgerTypeOK, TypeOK, vars
    <2> QED
        BY <2>2, <2>3
<1>2. ASSUME NEW c \in Client, InsertRevision(c) PROVE [Next]_vars
    <2> DEFINE r == job[c].revision
    <2>1. job[c] \in RevisionJob /\ Anchored(c) /\ Checked(c, Len(Needs(c)))
        BY <1>t, <1>2 DEF InsertRevision, HandlerInv, RightCall, AnchorFound, ArtifactsFound
    <2>2. job[c].op = "revision" /\ r \in Revision
        BY <2>1, JobKinds
    <2>3. AllStored(RevisionNode[r].packageId, RevisionNode[r].artifacts)
        BY <2>1, <2>2 DEF Checked, Needs, NeedsPackage, AllStored
    <2>4. RevisionClosed(r)
        BY <2>1, <2>3 DEF Anchored, RevisionClosed
    <2>5. CASE revisions' = revisions
        BY <1>2, <2>5 DEF InsertRevision, vars
    <2>6. CASE revisions' # revisions
        <3>1. StoreRevision(r)
            BY <1>2, <2>4, <2>6 DEF InsertRevision, StoreRevision
        <3> QED
            BY <2>2, <3>1 DEF Next
    <2> QED
        BY <2>5, <2>6
<1>3. ASSUME NEW c \in Client, InsertExecution(c) PROVE [Next]_vars
    <2> DEFINE run == job[c].run
    <2>1. job[c] \in ExecutionJob /\ Anchored(c) /\ Checked(c, Len(Needs(c)))
        BY <1>t, <1>3 DEF InsertExecution, HandlerInv, RightCall, AnchorFound, ArtifactsFound
    <2>2. job[c].op = "execution" /\ job[c].id \in ExecutionId /\ run \in Run
        BY <2>1, JobKinds
    <2>3. run.inputs \in Seq(Bundle) /\ run.outputs \in Seq(Bundle)
        BY <2>2, RunType
    <2>4. /\ \A i \in 1..Len(run.inputs \o run.outputs) :
                artifacts[<<run.packageId, (run.inputs \o run.outputs)[i]>>] # None
        BY <2>1, <2>2 DEF Checked, Needs, NeedsPackage, RunOf
    <2>5. AllStored(run.packageId, run.inputs)
        <3> SUFFICES ASSUME NEW i \in 1..Len(run.inputs)
                     PROVE  artifacts[<<run.packageId, run.inputs[i]>>] # None
            BY DEF AllStored
        <3>1. i \in 1..Len(run.inputs \o run.outputs) /\ (run.inputs \o run.outputs)[i] = run.inputs[i]
            BY <2>3, ConcatElements
        <3> QED
            BY <2>4, <3>1
    <2>6. AllStored(run.packageId, run.outputs)
        <3> SUFFICES ASSUME NEW i \in 1..Len(run.outputs)
                     PROVE  artifacts[<<run.packageId, run.outputs[i]>>] # None
            BY DEF AllStored
        <3> DEFINE k == Len(run.inputs) + i
        <3>1. k \in 1..Len(run.inputs \o run.outputs) /\ (run.inputs \o run.outputs)[k] = run.outputs[i]
            BY <2>3, ConcatElements
        <3> QED
            BY <2>4, <3>1
    <2>7. RunClosed(run)
        BY <2>1, <2>5, <2>6 DEF Anchored, RunClosed
    <2>8. CASE executions' = executions
        BY <1>3, <2>8 DEF InsertExecution, vars
    <2>9. CASE executions' # executions
        <3>1. StoreExecution(job[c].id, run)
            BY <1>3, <2>7, <2>9 DEF InsertExecution, StoreExecution
        <3> QED
            BY <2>2, <3>1 DEF Next
    <2> QED
        BY <2>8, <2>9
<1>4. ASSUME UNCHANGED <<artifacts, revisions, executions>> PROVE [Next]_vars
    BY <1>4 DEF vars
<1> QED
    BY <1>1, <1>2, <1>3, <1>4
       DEF LedgerNext, Handle, Submit, Receive, Interrupt, FindArtifact, FindParent,
           ArtifactExists, FindRevision, FindRunRevision, FindExecution,
           ledgerVars, reqVars

-----------------------------------------------------------------------------
(* Steps preserve what a handler knows *)

\* A handler that answers needs to justify its answer only.
LEMMA AnswerStep ==
    ASSUME LedgerTypeOK, NEW c \in Client, job'[c] = job[c], job[c] \in Job,
           NEW a \in Answer, Reply(c, a),
           a = "ok" =>
              /\ job[c].op = "artifact" =>
                    /\ artifacts'[KeyOf(job[c].doc)] # None
                    /\ artifacts'[KeyOf(job[c].doc)].payload = job[c].doc.payload
              /\ job[c].op = "revision" => job[c].revision \in revisions'
              /\ job[c].op = "execution" => executions'[job[c].id] = job[c].run
              /\ job[c].op = "replay" =>
                    /\ executions'[job[c].id] # None
                    /\ executions'[job[c].id].call = job[c].call
                    /\ job[c].result \in {None, executions'[job[c].id].result},
           job[c].op = "replay" =>
              a \notin {"ERR_REVISION_NOT_FOUND", "ERR_ARTIFACT_NOT_FOUND", "P2002"}
    PROVE  HandlerInv(c)'
<1>1. pc'[c] = "done" /\ answer'[c] = a
    BY DEF Reply, LedgerTypeOK
<1>2. RightCall(c)' /\ AnchorFound(c)' /\ ArtifactsFound(c)'
    BY <1>1 DEF RightCall, AnchorFound, ArtifactsFound
<1>3. TrueAnswer(c)'
    BY <1>1 DEF TrueAnswer
<1> QED
    BY <1>1, <1>2, <1>3 DEF HandlerInv

\* Before its handler ends, a client has no answer; the handler goes on with one
\* only by answering.
LEMMA GotoStep ==
    ASSUME LedgerTypeOK, NEW c \in Client, NEW s \in Storage, Goto(c, s),
           answer[c] = None
    PROVE  pc'[c] = s /\ answer'[c] = None
BY DEF Goto, LedgerTypeOK

\* A client without an answer claims nothing.
LEMMA NoAnswer ==
    ASSUME NEW c \in Client, answer'[c] = None PROVE TrueAnswer(c)'
<1>1. None \notin {"ok", "ERR_REVISION_NOT_FOUND", "ERR_ARTIFACT_NOT_FOUND", "P2002"}
    BY NoneIsNoAnswer DEF Answer
<1> QED
    BY <1>1 DEF TrueAnswer

\* A turn of the artifact loop, or the fall through to what follows it.
LEMMA LoopStep ==
    ASSUME LedgerTypeOK, NEW c \in Client, Looping(c), Anchored(c), Loaded(c),
           NEW i \in 1..(Len(Needs(c)) + 1), Checked(c, i - 1),
           answer[c] = None, Loop(c, i),
           UNCHANGED <<artifacts, revisions, executions, job, loaded>>
    PROVE  HandlerInv(c)'
<1>0. /\ Len(Needs(c)) \in Nat
      /\ job[c] \in Job
      /\ {"artifactExists", "findRevision", "insertExecution"} \subseteq Storage
    BY NeedsType DEF Looping, Job, Storage
<1>1. /\ Needs(c)' = Needs(c)
      /\ Checked(c, Len(Needs(c))) => Checked(c, Len(Needs(c)))'
      /\ Checked(c, i - 1) => Checked(c, i - 1)'
      /\ Anchored(c)' /\ Loaded(c)'
    BY DEF Needs, NeedsPackage, RunOf, Checked, Anchored, Loaded
<1>2. CASE i <= Len(Needs(c))
    <2>1. pc'[c] = "artifactExists" /\ answer'[c] = None /\ next'[c] = i
        BY <1>0, <1>2, GotoStep DEF Loop, LedgerTypeOK
    <2>2. RightCall(c)' /\ AnchorFound(c)'
        BY <1>1, <2>1 DEF RightCall, AnchorFound, Looping
    <2>3. i \in 1..Len(Needs(c))
        BY <1>0, <1>2
    <2>4. ArtifactsFound(c)'
        BY <1>1, <2>1, <2>3 DEF ArtifactsFound, Checked
    <2> QED
        BY <1>0, <2>1, <2>2, <2>4, NoAnswer DEF HandlerInv
<1>3. CASE i > Len(Needs(c))
    <2>0. Checked(c, Len(Needs(c)))
        <3>1. i - 1 = Len(Needs(c))
            BY <1>0, <1>3
        <3> QED
            BY <3>1
    <2>1. AfterLoop(c)
        BY <1>0, <1>3 DEF Loop
    <2>2. CASE job[c].op = "revision" /\ Goto(c, "findRevision")
        <3>1. pc'[c] = "findRevision" /\ answer'[c] = None
            BY <1>0, <2>2, GotoStep
        <3>2. job[c] \in RevisionJob
            BY <1>0, <2>2, JobKinds
        <3>3. RightCall(c)' /\ AnchorFound(c)'
            BY <1>1, <3>1, <3>2 DEF RightCall, AnchorFound
        <3>4. ArtifactsFound(c)'
            BY <1>0, <1>1, <2>0, <3>1 DEF ArtifactsFound
        <3> QED
            BY <1>0, <3>1, <3>3, <3>4, NoAnswer DEF HandlerInv
    <2>3. CASE job[c].op = "execution" /\ Goto(c, "insertExecution")
        <3>1. pc'[c] = "insertExecution" /\ answer'[c] = None
            BY <1>0, <2>3, GotoStep
        <3>2. job[c] \in ExecutionJob
            BY <1>0, <2>3, JobKinds
        <3>3. RightCall(c)' /\ AnchorFound(c)'
            BY <1>1, <3>1, <3>2 DEF RightCall, AnchorFound
        <3>4. ArtifactsFound(c)'
            BY <1>0, <1>1, <2>0, <3>1 DEF ArtifactsFound
        <3> QED
            BY <1>0, <3>1, <3>3, <3>4, NoAnswer DEF HandlerInv
    <2>4. CASE job[c].op = "replay" /\ Reply(c, ReplayVerdict(c))
        <3>1. job[c] \in ReplayJob /\ loaded[c] # None /\ loaded[c] = executions[job[c].id]
            BY <1>0, <2>4, JobKinds DEF Loaded
        <3>2. ReplayVerdict(c) = "ok" =>
                /\ loaded[c].call = job[c].call
                /\ job[c].result \in {None, loaded[c].result}
            BY DEF ReplayVerdict
        <3>3. /\ ReplayVerdict(c) \in Answer
              /\ ReplayVerdict(c) \notin {"ERR_REVISION_NOT_FOUND",
                                        "ERR_ARTIFACT_NOT_FOUND", "P2002"}
            BY DEF ReplayVerdict, Answer
        <3> QED
            BY <1>0, <2>4, <3>1, <3>2, <3>3, AnswerStep
    <2> QED
        BY <2>1, <2>2, <2>3, <2>4 DEF AfterLoop
<1> QED
    BY <1>0, <1>2, <1>3

\* The step of a client's own handler, one action at a time.
LEMMA OwnStep ==
    ASSUME LedgerInv, NEW c \in Client,
           \/ \E j \in Job : Submit(c, j)
           \/ Receive(c)
           \/ Interrupt(c)
           \/ Handle(c)
    PROVE  HandlerInv(c)'
<1>t. LedgerTypeOK /\ Closed /\ HandlerInv(c)
    BY DEF LedgerInv
<1>h. RightCall(c) /\ AnchorFound(c) /\ ArtifactsFound(c) /\ TrueAnswer(c)
    BY <1>t DEF HandlerInv
<1>j. pc[c] # "idle" => job[c] \in Job
    BY <1>t DEF HandlerInv
<1>n. pc[c] # "done" => answer[c] = None
    BY <1>h DEF TrueAnswer
<1>s. {"findArtifact", "upsertArtifact", "findParent", "findRevision",
       "insertRevision", "findRunRevision", "insertExecution",
       "findExecution", "artifactExists"} = Storage
    BY DEF Storage
<1>a. {"ok", "ERR_ARTIFACT_HASH_MISMATCH", "ERR_ARTIFACT_CONFLICT",
       "ERR_REVISION_PARENT_NOT_FOUND", "ERR_REVISION_PARENT_PACKAGE_MISMATCH",
       "ERR_ARTIFACT_NOT_FOUND", "ERR_REVISION_NOT_FOUND",
       "ERR_EXECUTION_NOT_FOUND", "P2002", "interrupted"} \subseteq Answer
    BY DEF Answer
<1>1. ASSUME NEW j \in Job, Submit(c, j) PROVE HandlerInv(c)'
    <2>1. job'[c] = j /\ next'[c] = 1 /\ answer[c] = None
        BY <1>t, <1>n, <1>1 DEF Submit, LedgerTypeOK
    <2>2. CASE HashRefused(j)
        <3>1. pc'[c] = "done" /\ answer'[c] = "ERR_ARTIFACT_HASH_MISMATCH"
            BY <1>t, <1>1, <2>2 DEF Submit, Reply, LedgerTypeOK
        <3> QED
            BY <2>1, <3>1
               DEF HandlerInv, RightCall, AnchorFound, ArtifactsFound, TrueAnswer
    <2>3. CASE ~HashRefused(j)
        <3>1. FirstCall(j) \in Storage
            BY <1>s DEF FirstCall
        <3>2. pc'[c] = FirstCall(j) /\ answer'[c] = None
            BY <1>t, <1>1, <2>1, <2>3, <3>1, GotoStep DEF Submit
        <3>3. \/ FirstCall(j) = "findArtifact" /\ j \in ArtifactJob
              \/ FirstCall(j) = "findParent" /\ j \in RevisionJob
              \/ /\ FirstCall(j) = "artifactExists" /\ j \in RevisionJob
                 /\ RevisionNode[j.revision].parent = None
              \/ FirstCall(j) = "findRunRevision" /\ j \in ExecutionJob
              \/ FirstCall(j) = "findExecution" /\ j \in ReplayJob
            BY JobKinds DEF FirstCall
        <3>4. j \in RevisionJob \/ j \in ExecutionJob => j \notin ReplayJob
            BY JobKinds
        <3>5. j \in RevisionJob => j \notin ExecutionJob
            BY JobKinds
        <3>6. RightCall(c)' /\ AnchorFound(c)'
            BY <2>1, <3>2, <3>3, <3>4, <3>5 DEF RightCall, AnchorFound, Anchored, Loaded
        <3>7. ArtifactsFound(c)'
            <4>1. CASE FirstCall(j) = "artifactExists"
                <5>1. j.op = "revision" /\ j.revision \in Revision
                    BY <3>3, <4>1, JobKinds
                <5>2. Needs(c)' = RevisionNode[j.revision].artifacts
                    BY <2>1, <5>1 DEF Needs
                <5>3. Len(RevisionNode[j.revision].artifacts) \in Nat \ {0}
                    <6>1. RevisionNode[j.revision].artifacts \in Seq(Bundle) \ {<<>>}
                        BY <5>1, RevisionNodeType
                    <6> QED
                        BY <6>1
                <5> QED
                    BY <2>1, <3>2, <4>1, <5>2, <5>3 DEF ArtifactsFound, Checked
            <4>2. CASE FirstCall(j) # "artifactExists"
                BY <3>2, <3>3, <4>2 DEF ArtifactsFound
            <4> QED
                BY <4>1, <4>2
        <3> QED
            BY <2>1, <3>2, <3>6, <3>7, NoAnswer DEF HandlerInv
    <2> QED
        BY <2>2, <2>3
<1>2. CASE Receive(c)
    <2>1. pc'[c] = "idle" /\ answer'[c] = None
        BY <1>t, <1>2 DEF Receive, LedgerTypeOK
    <2> QED
        BY <2>1, NoAnswer DEF HandlerInv, RightCall, AnchorFound, ArtifactsFound
<1>3. CASE Interrupt(c)
    BY <1>t, <1>j, <1>a, <1>3, AnswerStep DEF Interrupt
<1>4. CASE FindArtifact(c)
    <2>1. job[c] \in ArtifactJob /\ job[c] \in Job /\ answer[c] = None
        BY <1>h, <1>n, <1>4 DEF FindArtifact, RightCall, Job
    <2>2. job[c].op = "artifact"
        BY <2>1, JobKinds
    <2>3. CASE Goto(c, "upsertArtifact")
        <3>1. pc'[c] = "upsertArtifact" /\ answer'[c] = None
            BY <1>t, <1>s, <2>1, <2>3, GotoStep
        <3>2. job'[c] = job[c]
            BY <1>4 DEF FindArtifact
        <3> QED
            BY <2>1, <3>1, <3>2, NoAnswer DEF HandlerInv, RightCall, AnchorFound, ArtifactsFound
    <2>4. CASE Reply(c, "ERR_ARTIFACT_CONFLICT")
        BY <1>t, <1>a, <1>4, <2>1, <2>2, <2>4, AnswerStep DEF FindArtifact
    <2>5. CASE /\ Reply(c, "ok")
               /\ artifacts[KeyOf(job[c].doc)] # None
               /\ artifacts[KeyOf(job[c].doc)].payload = job[c].doc.payload
        BY <1>t, <1>a, <1>4, <2>1, <2>2, <2>5, AnswerStep DEF FindArtifact
    <2> QED
        BY <1>4, <2>3, <2>4, <2>5 DEF FindArtifact
<1>5. CASE UpsertArtifact(c)
    <2> DEFINE doc == job[c].doc
               persisted == IF artifacts[KeyOf(doc)] = None
                            THEN doc ELSE artifacts[KeyOf(doc)]
    <2>1. job[c] \in ArtifactJob /\ job[c] \in Job
        BY <1>h, <1>5 DEF UpsertArtifact, RightCall, Job
    <2>2. job[c].op = "artifact" /\ doc \in Doc /\ KeyOf(doc) \in ArtifactKey
        BY <2>1, JobKinds, KeyType
    <2>3. artifacts'[KeyOf(doc)] = persisted
        BY <1>t, <1>5, <2>2 DEF UpsertArtifact, LedgerTypeOK, TypeOK
    <2>4. persisted # None
        BY <2>2, NoneIsNoRecord
    <2>5. CASE Reply(c, "ERR_ARTIFACT_CONFLICT")
        BY <1>t, <1>a, <1>5, <2>1, <2>2, <2>5, AnswerStep DEF UpsertArtifact
    <2>6. CASE Reply(c, "ok") /\ persisted.payload = doc.payload
        BY <1>t, <1>a, <1>5, <2>1, <2>2, <2>3, <2>4, <2>6, AnswerStep DEF UpsertArtifact
    <2> QED
        BY <1>5, <2>5, <2>6 DEF UpsertArtifact
<1>6. CASE FindParent(c)
    <2>1. job[c] \in RevisionJob /\ job[c] \in Job /\ answer[c] = None
        BY <1>h, <1>n, <1>6 DEF FindParent, RightCall, Job
    <2>2. job[c].op = "revision" /\ job[c] \notin ExecutionJob /\ job[c] \notin ReplayJob
        BY <2>1, JobKinds
    <2>3. ASSUME NEW e \in {"ERR_REVISION_PARENT_NOT_FOUND",
                            "ERR_REVISION_PARENT_PACKAGE_MISMATCH"}, Reply(c, e)
          PROVE  HandlerInv(c)'
        BY <1>t, <1>a, <1>6, <2>1, <2>2, <2>3, AnswerStep DEF FindParent
    <2>4. CASE /\ Loop(c, 1)
               /\ RevisionNode[job[c].revision].parent \in revisions
               /\ RevisionNode[RevisionNode[job[c].revision].parent].packageId
                     = RevisionNode[job[c].revision].packageId
        <3>1. Anchored(c) /\ Loaded(c) /\ Looping(c)
            BY <2>1, <2>2, <2>4 DEF Anchored, Loaded, Looping
        <3>2. 1 \in 1..(Len(Needs(c)) + 1)
            BY <1>t, <3>1, NeedsType
        <3>3. Checked(c, 1 - 1)
            BY DEF Checked
        <3> QED
            BY <1>t, <1>6, <2>1, <2>4, <3>1, <3>2, <3>3, LoopStep DEF FindParent
    <2> QED
        BY <1>6, <2>3, <2>4 DEF FindParent
<1>7. CASE ArtifactExists(c)
    <2>1. /\ job[c] \in RevisionJob \cup ExecutionJob \cup ReplayJob
          /\ job[c] \in Job /\ answer[c] = None
          /\ Anchored(c) /\ Loaded(c)
          /\ next[c] \in 1..Len(Needs(c)) /\ Checked(c, next[c] - 1)
        BY <1>h, <1>j, <1>n, <1>7 DEF ArtifactExists, RightCall, AnchorFound, ArtifactsFound
    <2>2. Looping(c)
        BY <2>1 DEF Looping, Loaded
    <2>3. Len(Needs(c)) \in Nat
        BY <1>t, <2>2, NeedsType
    <2>4. CASE Reply(c, "ERR_ARTIFACT_NOT_FOUND")
               /\ artifacts[<<NeedsPackage(c), Needs(c)[next[c]]>>] = None
        <3>1. job[c].op # "replay"
            <4> SUFFICES ASSUME job[c].op = "replay" PROVE FALSE
                OBVIOUS
            <4>1. /\ job[c] \in ReplayJob /\ job[c].id \in ExecutionId
                  /\ loaded[c] # None /\ loaded[c] = executions[job[c].id]
                BY <2>1, JobKinds DEF Loaded
            <4>2. RunClosed(loaded[c]) /\ loaded[c] \in Run
                BY <1>t, <4>1 DEF Closed, LedgerTypeOK
            <4>3. AllStored(loaded[c].packageId, loaded[c].inputs \o loaded[c].outputs)
                BY <4>2, AllStoredConcat DEF RunClosed
            <4>4. /\ Needs(c) = loaded[c].inputs \o loaded[c].outputs
                  /\ NeedsPackage(c) = loaded[c].packageId
                BY DEF Needs, NeedsPackage, RunOf
            <4> QED
                BY <2>1, <2>4, <4>3, <4>4 DEF AllStored
        <3> QED
            BY <1>t, <1>a, <1>7, <2>1, <2>4, <3>1, AnswerStep DEF ArtifactExists
    <2>5. CASE Loop(c, next[c] + 1)
               /\ artifacts[<<NeedsPackage(c), Needs(c)[next[c]]>>] # None
        <3>1. next[c] + 1 \in 1..(Len(Needs(c)) + 1) /\ (next[c] + 1) - 1 = next[c]
            BY <2>1, <2>3
        <3>2. Checked(c, next[c])
            BY <2>1, <2>3, <2>5 DEF Checked
        <3> QED
            BY <1>t, <1>7, <2>1, <2>2, <2>5, <3>1, <3>2, LoopStep DEF ArtifactExists
    <2> QED
        BY <1>7, <2>4, <2>5 DEF ArtifactExists
<1>8. CASE FindRevision(c)
    <2>1. job[c] \in RevisionJob /\ job[c] \in Job /\ answer[c] = None /\ Anchored(c)
          /\ Checked(c, Len(Needs(c)))
        BY <1>h, <1>n, <1>8 DEF FindRevision, RightCall, AnchorFound, ArtifactsFound, Job
    <2>2. job[c].op = "revision"
        BY <2>1, JobKinds
    <2>3. CASE Goto(c, "insertRevision")
        <3>1. pc'[c] = "insertRevision" /\ answer'[c] = None /\ job'[c] = job[c]
            BY <1>t, <1>s, <1>8, <2>1, <2>3, GotoStep DEF FindRevision
        <3>2. RightCall(c)' /\ AnchorFound(c)'
            BY <1>8, <2>1, <3>1 DEF FindRevision, RightCall, AnchorFound, Anchored
        <3>3. ArtifactsFound(c)'
            BY <1>8, <2>1, <3>1
               DEF FindRevision, ArtifactsFound, Checked, Needs, NeedsPackage, RunOf
        <3> QED
            BY <2>1, <3>1, <3>2, <3>3, NoAnswer DEF HandlerInv
    <2>4. CASE Reply(c, "ok") /\ job[c].revision \in revisions
        BY <1>t, <1>a, <1>8, <2>1, <2>2, <2>4, AnswerStep DEF FindRevision
    <2> QED
        BY <1>8, <2>3, <2>4 DEF FindRevision
<1>9. CASE InsertRevision(c)
    <2>1. job[c] \in RevisionJob /\ job[c] \in Job
        BY <1>h, <1>9 DEF InsertRevision, RightCall, Job
    <2>2. job[c].op = "revision"
        BY <2>1, JobKinds
    <2>3. CASE Reply(c, "P2002")
        BY <1>t, <1>a, <1>9, <2>1, <2>2, <2>3, AnswerStep DEF InsertRevision
    <2>4. CASE Reply(c, "ok") /\ revisions' = revisions \cup {job[c].revision}
        BY <1>t, <1>a, <1>9, <2>1, <2>2, <2>4, AnswerStep DEF InsertRevision
    <2> QED
        BY <1>9, <2>3, <2>4 DEF InsertRevision
<1>10. CASE FindRunRevision(c)
    <2>1. /\ job[c] \in ExecutionJob \cup ReplayJob /\ job[c] \in Job
          /\ answer[c] = None /\ Loaded(c)
        BY <1>h, <1>n, <1>10 DEF FindRunRevision, RightCall, AnchorFound, Job
    <2>2. CASE Reply(c, "ERR_REVISION_NOT_FOUND") /\ RunOf(c).revision \notin revisions
        <3>1. job[c].op # "replay"
            <4> SUFFICES ASSUME job[c].op = "replay" PROVE FALSE
                OBVIOUS
            <4>1. /\ job[c] \in ReplayJob /\ job[c].id \in ExecutionId
                  /\ loaded[c] # None /\ loaded[c] = executions[job[c].id]
                BY <2>1, JobKinds DEF Loaded
            <4>2. RunClosed(loaded[c])
                BY <1>t, <4>1 DEF Closed
            <4> QED
                BY <2>2, <4>2 DEF RunClosed, RunOf
        <3> QED
            BY <1>t, <1>a, <1>10, <2>1, <2>2, <3>1, JobKinds, AnswerStep DEF FindRunRevision
    <2>3. CASE Loop(c, 1) /\ RunOf(c).revision \in revisions
        <3>1. Looping(c)
            BY <2>1 DEF Looping, Loaded
        <3>2. Anchored(c)
            BY <2>1, <2>3, JobKinds DEF Anchored, RunOf
        <3>3. 1 \in 1..(Len(Needs(c)) + 1)
            BY <1>t, <3>1, NeedsType
        <3>4. Checked(c, 1 - 1)
            BY DEF Checked
        <3> QED
            BY <1>t, <1>10, <2>1, <2>3, <3>1, <3>2, <3>3, <3>4, LoopStep DEF FindRunRevision
    <2> QED
        BY <1>10, <2>2, <2>3 DEF FindRunRevision
<1>11. CASE InsertExecution(c)
    <2>1. job[c] \in ExecutionJob /\ job[c] \in Job
        BY <1>h, <1>11 DEF InsertExecution, RightCall, Job
    <2>2. job[c].op = "execution" /\ job[c].id \in ExecutionId
        BY <2>1, JobKinds
    <2>3. CASE Reply(c, "P2002")
        BY <1>t, <1>a, <1>11, <2>1, <2>2, <2>3, AnswerStep DEF InsertExecution
    <2>4. CASE Reply(c, "ok") /\ executions' = [executions EXCEPT ![job[c].id] = job[c].run]
        <3>1. executions'[job[c].id] = job[c].run
            BY <1>t, <2>2, <2>4 DEF LedgerTypeOK, TypeOK
        <3> QED
            BY <1>t, <1>a, <1>11, <2>1, <2>2, <2>4, <3>1, AnswerStep DEF InsertExecution
    <2> QED
        BY <1>11, <2>3, <2>4 DEF InsertExecution
<1>12. CASE FindExecution(c)
    <2>1. job[c] \in ReplayJob /\ job[c] \in Job /\ answer[c] = None
        BY <1>h, <1>n, <1>12 DEF FindExecution, RightCall, Job
    <2>2. job[c].op = "replay" /\ job[c].id \in ExecutionId
        BY <2>1, JobKinds
    <2>3. CASE Reply(c, "ERR_EXECUTION_NOT_FOUND")
        BY <1>t, <1>a, <1>12, <2>1, <2>2, <2>3, AnswerStep DEF FindExecution, Answer
    <2>4. CASE /\ executions[job[c].id] # None
               /\ loaded' = [loaded EXCEPT ![c] = executions[job[c].id]]
               /\ Goto(c, "findRunRevision")
        <3>1. /\ pc'[c] = "findRunRevision" /\ answer'[c] = None
              /\ job'[c] = job[c] /\ loaded'[c] = executions[job[c].id]
            BY <1>t, <1>s, <1>12, <2>1, <2>4, GotoStep DEF FindExecution, LedgerTypeOK
        <3>2. executions' = executions
            BY <1>12 DEF FindExecution
        <3> QED
            BY <2>1, <2>4, <3>1, <3>2, NoAnswer
               DEF HandlerInv, RightCall, AnchorFound, ArtifactsFound, Loaded
    <2> QED
        BY <1>12, <2>3, <2>4 DEF FindExecution
<1> QED
    BY <1>1, <1>2, <1>3, <1>4, <1>5, <1>6, <1>7, <1>8, <1>9, <1>10, <1>11, <1>12
       DEF Handle

\* A step of one client leaves the request of every other client alone.
LEMMA OthersSame ==
    ASSUME LedgerTypeOK, NEW c \in Client, NEW d \in Client, c # d,
           \/ \E j \in Job : Submit(c, j)
           \/ Receive(c)
           \/ Interrupt(c)
           \/ Handle(c)
    PROVE  Same(d)
<1>1. ASSUME NEW s, Goto(c, s) PROVE pc'[d] = pc[d] /\ answer'[d] = answer[d]
    BY <1>1 DEF LedgerTypeOK, Goto
<1>2. ASSUME NEW a, Reply(c, a) PROVE pc'[d] = pc[d] /\ answer'[d] = answer[d]
    BY <1>2 DEF LedgerTypeOK, Reply
<1>3. ASSUME NEW i, Loop(c, i)
      PROVE  pc'[d] = pc[d] /\ answer'[d] = answer[d] /\ next'[d] = next[d]
    BY <1>1, <1>2, <1>3 DEF LedgerTypeOK, Loop, AfterLoop
<1>4. ASSUME NEW j \in Job, Submit(c, j) PROVE Same(d)
    BY <1>1, <1>2, <1>4 DEF LedgerTypeOK, Submit, Same
<1>5. CASE Receive(c)
    BY <1>5 DEF LedgerTypeOK, Receive, Same
<1>6. CASE Interrupt(c)
    BY <1>2, <1>6 DEF Interrupt, Same
<1>7. CASE FindArtifact(c) \/ FindRevision(c)
    BY <1>1, <1>2, <1>7 DEF FindArtifact, FindRevision, Same
<1>8. CASE UpsertArtifact(c) \/ InsertRevision(c) \/ InsertExecution(c)
    BY <1>2, <1>8 DEF UpsertArtifact, InsertRevision, InsertExecution, Same
<1>9. CASE FindParent(c) \/ ArtifactExists(c) \/ FindRunRevision(c)
    BY <1>2, <1>3, <1>9 DEF FindParent, ArtifactExists, FindRunRevision, Same
<1>10. CASE FindExecution(c)
    BY <1>1, <1>2, <1>10 DEF LedgerTypeOK, FindExecution, Same
<1> QED
    BY <1>4, <1>5, <1>6, <1>7, <1>8, <1>9, <1>10 DEF Handle

\* Every handler is idle at first: nothing is claimed and nothing stored.
LEMMA InvInit == LedgerInit => LedgerInv
<1> SUFFICES ASSUME LedgerInit PROVE LedgerInv
    OBVIOUS
<1>1. LedgerTypeOK /\ Closed
    BY DEF LedgerInit, Init, LedgerTypeOK, TypeOK, Closed
<1>2. ASSUME NEW c \in Client PROVE HandlerInv(c)
    <2>1. pc[c] = "idle" /\ answer[c] = None
        BY DEF LedgerInit
    <2>2. None \notin {"ok", "ERR_REVISION_NOT_FOUND", "ERR_ARTIFACT_NOT_FOUND", "P2002"}
        BY NoneIsNoAnswer DEF Answer
    <2> QED
        BY <2>1, <2>2
           DEF HandlerInv, RightCall, AnchorFound, ArtifactsFound, TrueAnswer
<1> QED
    BY <1>1, <1>2 DEF LedgerInv

\* The invariant is inductive: the client that moves is covered by OwnStep,
\* every other one by IdleHandler.
LEMMA InvPreserved == LedgerInv /\ [LedgerNext]_ledgerVars => LedgerInv'
<1> SUFFICES ASSUME LedgerInv, [LedgerNext]_ledgerVars PROVE LedgerInv'
    OBVIOUS
<1>1. LedgerTypeOK' /\ [Next]_vars
    BY LedgerTypePreserved, StepRefines
<1>2. LedgerTypeOK /\ TypeOK /\ Closed
    BY DEF LedgerInv, LedgerTypeOK
<1>3. Grows /\ Closed'
    BY <1>1, <1>2, StepGrows, ClosedPreserved
<1>4. ASSUME NEW d \in Client PROVE HandlerInv(d)'
    <2>1. HandlerInv(d)
        BY DEF LedgerInv
    <2>2. CASE Same(d)
        BY <1>2, <1>3, <2>1, <2>2, IdleHandler
    <2>3. CASE ~Same(d)
        <3>1. PICK c \in Client :
                 \/ \E j \in Job : Submit(c, j)
                 \/ Receive(c)
                 \/ Interrupt(c)
                 \/ Handle(c)
            BY <2>3 DEF LedgerNext, ledgerVars, reqVars, Same
        <3>2. c = d
            BY <1>2, <2>3, <3>1, OthersSame
        <3> QED
            BY <3>1, <3>2, OwnStep
    <2> QED
        BY <2>2, <2>3
<1> QED
    BY <1>1, <1>3, <1>4 DEF LedgerInv

-----------------------------------------------------------------------------
(* Theorems *)

\* The inductive invariant holds in every reachable state.
LEMMA LedgerInvariant == LedgerSpec => []LedgerInv
<1> QED
    BY InvInit, InvPreserved, PTL DEF LedgerSpec

\* Every request, answer and record has its type, for any number of clients.
THEOREM LedgerTypeCorrect == LedgerSpec => []LedgerTypeOK
<1>1. LedgerInv => LedgerTypeOK
    BY DEF LedgerInv
<1> QED
    BY <1>1, LedgerInvariant, PTL

\* The handlers, interleaved and interrupted at every await, implement the
\* ledger that stores closed records in one step and never changes them.
THEOREM LedgerImplementsDag == LedgerSpec => Spec
<1>1. LedgerInit => Init
    BY DEF LedgerInit
<1> QED
    BY <1>1, LedgerInvariant, StepRefines, PTL DEF LedgerSpec, Spec

\* Closure of the ledger: no stored revision or execution names a record that is
\* not stored, or a parent in another package.
THEOREM LedgerClosed == LedgerSpec => []Closed
BY LedgerImplementsDag, DagInvariant, PTL

\* Following parents always ends, whatever the clients submit and even for a hash
\* function with cycles.
THEOREM LedgerChainsEnd == LedgerSpec => []ParentChainsEnd
BY LedgerImplementsDag, DagInvariant, PTL

\* No handler changes or removes a stored record.
THEOREM LedgerAppendOnly == LedgerSpec => AppendOnly
BY LedgerImplementsDag, DagAppendOnly, PTL

\* A client told "ok" finds what it asked for, with colliding hashes too.
THEOREM LedgerOkIsTrue == LedgerSpec => []OkIsTrue
<1>1. LedgerInv => OkIsTrue
    BY DEF LedgerInv, HandlerInv, TrueAnswer, OkIsTrue
<1> QED
    BY <1>1, LedgerInvariant, PTL

\* The replay of a recorded execution fails only on what its caller supplies.
THEOREM LedgerReplayBlamesCaller == LedgerSpec => []ReplayBlamesCaller
<1>1. LedgerInv => ReplayBlamesCaller
    BY DEF LedgerInv, HandlerInv, TrueAnswer, ReplayBlamesCaller
<1> QED
    BY <1>1, LedgerInvariant, PTL
=============================================================================
