------------------------------ MODULE ClosedDag ------------------------------
(***************************************************************************)
(* What the artifact store, the revision service and the execution service *)
(* promise together: a record is stored in one step, is never changed or   *)
(* removed, and is stored only when every record it names is there.        *)
(* RecordLedger, which models the handlers one awaited storage call at a   *)
(* time, implements this specification.                                    *)
(***************************************************************************)
EXTENDS Naturals, Sequences

CONSTANTS
    Package,      \* packageId
    Bundle,       \* bundleHash, the content address of an artifact bundle
    Payload,      \* canonical payload of an artifact bundle
    Doc,          \* the artifact bundles that clients store
    Revision,     \* revisionHash
    RevisionNode, \* revisionHash -> what the hash is computed from
    ExecutionId,
    Call,         \* prompt, parameters and inputs of an execution
    Result,       \* outputs and status of an execution
    Run,          \* the executions that clients record
    None

ASSUME NoneIsNoRecord == None \notin Doc \cup Revision \cup Run \cup Result

(***************************************************************************)
(* A bundle hash is computed from the document (computeBundleHash); that   *)
(* two documents never share a hash is NOT assumed.                        *)
(***************************************************************************)
ASSUME DocType ==
    Doc \subseteq [packageId: Package, bundleHash: Bundle, payload: Payload]

ASSUME RevisionNodeType ==
    RevisionNode \in [Revision -> [packageId: Package,
                                   parent:    Revision \cup {None},
                                   artifacts: Seq(Bundle) \ {<<>>}]]

ASSUME RunType ==
    Run \subseteq [packageId: Package, revision: Revision,
                   inputs: Seq(Bundle), outputs: Seq(Bundle),
                   call: Call, result: Result]

VARIABLES
    artifacts,  \* ArtifactStoreRecord: (packageId, bundleHash) -> document
    revisions,  \* RevisionNode: the stored revision hashes
    executions  \* ExecutionRecord: executionId -> recorded run

vars == <<artifacts, revisions, executions>>

ArtifactKey == Package \X Bundle

TypeOK ==
    /\ artifacts \in [ArtifactKey -> Doc \cup {None}]
    /\ revisions \subseteq Revision
    /\ executions \in [ExecutionId -> Run \cup {None}]

KeyOf(doc) == <<doc.packageId, doc.bundleHash>>

\* Every bundle of the sequence is stored in the package.
AllStored(packageId, bundles) ==
    \A i \in 1..Len(bundles) : artifacts[<<packageId, bundles[i]>>] # None

\* The revision may be stored: its parent and its artifacts are.
RevisionClosed(r) ==
    LET node == RevisionNode[r] IN
    /\ node.parent # None =>
          /\ node.parent \in revisions
          /\ RevisionNode[node.parent].packageId = node.packageId
    /\ AllStored(node.packageId, node.artifacts)

RunClosed(run) ==
    /\ run.revision \in revisions
    /\ AllStored(run.packageId, run.inputs)
    /\ AllStored(run.packageId, run.outputs)

-----------------------------------------------------------------------------
Init ==
    /\ artifacts = [k \in ArtifactKey |-> None]
    /\ revisions = {}
    /\ executions = [e \in ExecutionId |-> None]

StoreArtifact(doc) ==
    /\ artifacts[KeyOf(doc)] = None
    /\ artifacts' = [artifacts EXCEPT ![KeyOf(doc)] = doc]
    /\ UNCHANGED <<revisions, executions>>

StoreRevision(r) ==
    /\ r \notin revisions
    /\ RevisionClosed(r)
    /\ revisions' = revisions \cup {r}
    /\ UNCHANGED <<artifacts, executions>>

StoreExecution(e, run) ==
    /\ executions[e] = None
    /\ RunClosed(run)
    /\ executions' = [executions EXCEPT ![e] = run]
    /\ UNCHANGED <<artifacts, revisions>>

Next ==
    \/ \E doc \in Doc : StoreArtifact(doc)
    \/ \E r \in Revision : StoreRevision(r)
    \/ \E e \in ExecutionId, run \in Run : StoreExecution(e, run)

Spec == Init /\ [][Next]_vars

-----------------------------------------------------------------------------
\* Every record that a stored revision or execution names is stored, a parent
\* in the revision's own package (revision.service.ts createRevision,
\* execution.service.ts recordExecution).
Closed ==
    /\ \A r \in revisions : RevisionClosed(r)
    /\ \A e \in ExecutionId : executions[e] # None => RunClosed(executions[e])

\* Following parents from any stored revision ends at a revision without a
\* parent: no non-empty set of stored revisions has all its parents inside.
ParentChainsEnd ==
    \A S \in SUBSET revisions :
        S # {} => \E r \in S : RevisionNode[r].parent \notin S

\* No step changes or removes a record that is stored.
AppendOnly ==
    [][ /\ \A k \in ArtifactKey : artifacts[k] # None => artifacts'[k] = artifacts[k]
        /\ revisions \subseteq revisions'
        /\ \A e \in ExecutionId : executions[e] # None => executions'[e] = executions[e]
      ]_vars
=============================================================================
