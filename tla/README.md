# Shadow Threads: verification project

TLA+ models of the server of Shadow Threads (`src/server`) and of its browser extension
(`src/extension`), the TLC configurations that check them on small instances, and
theorems with proofs that the TLA+ proof system checks for every instance. The models
are written from the code; where they name a function, `PROJECT.json` ("map") gives its
file and lines.

Contents: 1 The system. 2 What is hard about it. 3 Modules. 4 Runs.
5 Fairness. 6 Proofs. 7 Where code and documents disagree.
8 What the models show besides. 9 What is not modelled. 10 Plan.

## 1 The system

One Node process (Express, Prisma) over one PostgreSQL database and a Redis for
rate limits. Clients are a browser extension, a Python SDK, a CLI and an MCP
server; they send HTTP requests and keep no part of the ledger. Inside the
process every request is a coroutine: between two `await`s nothing else runs, at
an `await` anything may.

| Component | State | Operations | Talks to | What makes it correct |
|---|---|---|---|---|
| Artifact store (`artifact-store.service.ts`) | rows `ArtifactStoreRecord`, key (packageId, bundleHash) | storeArtifactBundle (find, upsert, compare), saveBundleV1, load, verify | database | an "ok" means the caller's payload is what is stored; no row ever changes |
| Revision ledger (`revision.service.ts`) | `RevisionNode` and its artifact rows, key revisionHash | createRevision (parent, artifacts, existing, insert), get, list | artifact rows | whatever a revision names is stored, the parent in the same package; parent chains end; storing it again is harmless |
| Execution ledger (`execution.service.ts`) | `ExecutionRecord` and its input and output rows, key executionId | recordExecution, replayExecution | revisions, artifacts | whatever a record names is stored; a replay fails only on what the caller supplies |
| Task packages (`task-package.service.ts`) | `TaskPackage.currentRevisionId`, `TaskPackageRevision` (packageId, rev, revisionHash, parentRevisionId) | createFromSnapshot, importPackage, createRevision with one retry, setCurrentRevision, applyPackage | state algebra, language model | revisions numbered without gaps, lineage descends, the pointer is the package's own and moves on request only |
| State algebra (`algebra/semanticDiff`, `stateTransition`, `deltaCompose`) | none | diffState, applyDelta, composeDelta | | the difference of two states, applied to the first, gives the second; composition agrees with sequential application |
| Lineage (`algebra/lineage`, `revision-net-delta.service.ts`) | none; reads task packages | path, common ancestor, compressRevisionChain, computeCrossBranchNetDelta | task packages, state algebra | the net delta leads from one revision to the other |
| Delta closure planner (`delta-closure-planner.ts`) | none | buildPlan: candidates, dependencies, greedy choice, check | state algebra | the accepted part of a delta is closed and applies without a conflict |
| Migration (`migration.service.ts`) | none of its own; writes artifacts and revisions | computeClosure, export, verify, import | ledger services | an export is closed and verifies; an import, interrupted and repeated, ends with the exported ledger |
| State snapshots (`state-snapshot.service.ts`) | `StateSnapshot` rows, key (parentId, rev) | capture, continue, createChildSnapshotIdempotent | language model | a caller is given the child it made |
| Subthreads (`subthread.service.ts`) | `Subthread` with a status, `SubthreadMessage` rows | create, continue, archive, delete | language model, API keys | messages in order; no answer is added to a thread that has ended |
| Users, devices, API keys (`user.service.ts`, `middleware/auth.ts`) | `User` by deviceId, `ApiKey` rows with a default flag | requireAuth creates a user on first contact; saveApiKey | database | one user per device; one default key per provider |
| Rate limit (`utils/redis.ts`) | a counter per key with an expiry | checkRateLimit, which nothing calls | Redis | a counter expires |
| Browser extension (`src/extension`) | sidebar, pending and cancelled requests, a timer; the worker's device id; Chrome storage | ask, continue, stop, pin, apply; start of the worker | server | an answer is displayed only as what it is; one device id; no question is pending for ever |
| Transfer packages, lineage bindings, handoff records, artifact bundles (`*-v1.ts`) | none; clients hold the documents | builders, verifiers, ingest, bundle store | task packages, artifact store | what one builds the other accepts; a hash that verifies vouches for the content |
| Apply reports, execution records, replay | none | built by applyPackage | task packages, state algebra | a record replays to the state it names |

How the parts meet: executions name revisions and artifacts, revisions name
their parent and artifacts, and the three services share the database and
nothing else. Task packages are a second, older set of tables with numbered
revisions of one payload each; net deltas are computed between them by the state
algebra, and the planner decides which part of a model's proposal is applied to
one; transfer documents carry one of them to another server. Migration packages
carry a revision of the ledger with all it rests on. Subthreads and snapshots are a
third set of tables, which the browser extension works on.

## 2 What is hard about it

`PROJECT.json` ("hazards") lists each place with its line and the properties
that watch it. They are of these kinds.

- **A check, an await, a write.** createRevision looks up the parent, then each
  artifact, then the revision, and only then inserts; recordExecution does the
  same; storeArtifactBundle finds, then upserts. Foreign keys do not cover it:
  the artifact rows of a revision name bundles of a package that no constraint
  ties to the artifact table.
- **Races that a unique index decides.** Two revisions of a task package read the
  same highest number; two equal payloads are inserted at once; the loser waits for
  the winner's commit and retries once.
- **Interrupted and repeated requests.** The process stops between two awaits, or
  the answer is lost and the client asks again.
- **Long chains of legal steps.** The composition of deltas keeps one effect per
  key, so what it forgets shows only after three or four steps on one unit.
- **Conflicts of bookkeeping.** The index of applyDelta, duplicated keys, arrays
  compared as sets.
- **A read, a slow call, a write.** Subthreads and snapshots are read, a language
  model is asked for seconds, and then messages or a child are written: by then the
  thread may be archived, or another request may have evolved the same snapshot.
- **Several writes that are not one.** An import stores bundles and revisions one
  by one; a subthread is there before its first message.
- **Answers nobody waits for any more.** The browser stops the worker, the user
  stops the question or asks the next, the answer comes late or never.
- **Greedy choices and limits.** The planner accepts candidates one at a time, and
  suggestions, notes and messages are cut at a limit.
- **Documents hashed more than once.** Lists are sorted here and not there, a
  document is embedded in another, and each verifier looks at a part.

## 3 Modules

    ClosedDag            what the ledger promises (abstract)
      RecordLedger       its handlers, one storage call at a time
        MCRecordLedger   instance for TLC
        RecordLedgerProofs   theorems about both, and that one implements the other
    TaskPackages         createRevision, setCurrentRevision, creation of packages
      MCTaskPackages     instance for TLC
      TaskPackagesProofs theorems
    StateAlgebra         diff, apply and compose as operators
      NetDelta           trees of revisions and their net deltas
        ApplyPackage     applyPackage: reports, execution records, their replay
          MCNetDelta     instance for TLC
      ClosurePlan        the part of a proposal that strict mode applies
        MCClosurePlan    instance for TLC
      AlgebraProofs      theorems about the four (with Induction)
    Migration            export and import between two ledgers; implements ClosedDag
      MCMigration        instance for TLC
      MigrationProofs    theorems (with Induction)
    Conversations        subthreads, snapshots, pins
      MCConversations    instance for TLC
      ConversationsProofs    theorems
    Extension            sidebar, content script, worker, device registration
      MCExtension        instance for TLC
      ExtensionProofs    theorems
    Documents            transfer packages, lineage, handoff, bundles, their hashes
      MCDocuments        instance for TLC
      DocumentsProofs    theorems (with Induction)
    Induction            lemmas on recursive functions, chains and listed sets

### ClosedDag
Three variables: `artifacts`, `revisions`, `executions`. A record is stored in
one step, only when all it names is stored, and never again touched. A revision
is its hash; `RevisionNode` says what the hash stands for (package, parent,
artifacts). Nothing is assumed of the hash functions: two documents may share a
hash, and a revision may (for a hash function with cycles) name itself.

### RecordLedger
One request per client. `pc[c]` is the storage call that the handler awaits,
`job[c]` the request body, `next[c]` the index of the loop over artifacts,
`loaded[c]` the execution that a replay has read, `answer[c]` the response. Each
action is what a handler does from one storage call to the next:

| Action | Code |
|---|---|
| Submit | the controller and the checks before the first await |
| FindArtifact, UpsertArtifact | storeArtifactBundle: findUnique; upsert with an empty update, and the comparison of the row it returns |
| FindParent, ArtifactExists, FindRevision, InsertRevision | createRevision: parent, one turn of the loop, the stored revision, the transaction of node and artifact rows |
| FindRunRevision, ArtifactExists, InsertExecution | recordExecution |
| FindExecution, FindRunRevision, ArtifactExists and ReplayVerdict | replayExecution |
| Receive | the response arrives |
| Interrupt | the process stops, the connection fails, or the response is lost |

A restart needs no action of its own: a handler has no state outside its request,
so a restart is `Interrupt` for every client. Hashes sent by the client and
refused (`ERR_ARTIFACT_HASH_MISMATCH`) are kept, the syntax checks of the bodies
are not. An artifact's `schema`, `identity` and `references` belong to the
payload; an execution's prompt, parameters and inputs are one value (`Call`), its
outputs and status another (`Result`), because the code compares them in this
grouping.

### TaskPackages
`owner` and `current` are columns of the package row, `rows` the committed
revisions in the order of their commits. The transaction of createRevision runs at
READ COMMITTED (Prisma's default): each action is one statement and sees what is
committed when it runs. An insert stands at "commit" until its transaction ends;
another insert with the same number or hash waits for it (`Waits`) and fails with
a unique violation if it commits. When both indexes are violated, either may be
reported. After a violation on the number the request tries once more; after one
on the hash it looks for the winner's row outside the transaction.

Two tables of locks meet here. `currentRevisionId` has a unique index, so an update
that moves the pointer takes the package row `FOR UPDATE` and waits for the
`FOR KEY SHARE` lock that the foreign key of another transaction's uncommitted insert
holds; an update to the value that is there already takes it `FOR NO KEY UPDATE`,
which lets foreign keys pass. An insert is therefore `Insert` (the indexes) and
`Reference` (the foreign key, which waits for `Moves`), and with setCurrent it is
followed by `SetPointer` and `Commit`; `UseExisting`, `UpdateCurrent` and the update
after a lost race wait as `MayPoint` says. One action is one statement, or its part up
to the next lock. What a transaction has inserted is visible from `Commit` on.

createFromSnapshot and importPackage insert rows with fresh ids nobody else can
name, in one transaction: one step. `begun` is a history variable.

### StateAlgebra, NetDelta
The operators follow the code: `DiffEffect` diffState, `DiffValues` diffFields,
`Apply` applyDelta in best effort mode with its order (additions, removals,
modifications) and its conflicts, `ComposeEffects` the table of composeDelta with
its normalisation, `ComposeChanges` the merging of field changes. A unit is a key
and one field that is absent, a scalar or an array. A unit with an id has its key for
good (`Own`); one without is named by its field (`NameOf`, `KeyOf`), so that a
modification may rename it, or meet a unit of that name (E_MODIFY_KEY_COLLISION). What
applyDelta returns ends with the conflicts of the state it has reached
(`DetectConflicts`): duplicate keys, final decisions without an answer, constraints
without a rule, risks above the threshold of a constraint. They count in strict mode
and in the reports as those of the entries do. `Line`,
`LowestCommonAncestor`, `Compressed` and `CrossBranchNetDelta` are the lineage
code. The only variable of NetDelta is the tree of revisions: TLC builds every
tree over the given contents and the invariants ask for every pair of its revisions.
What the code sorts is described by counting (`Listed` here, `Sorted` in
Documents): the entry in place i is the one with fewer than i entries below it.
Folds run over sequences (`EntriesOf`, the changes of a field), one entry at a time
(`Entered`, `ApplyChange`).

### ApplyPackage
Operators on NetDelta's tree: applyPackage writes nothing, its answer is a
function of the revisions and the request. `NetDeltaReport`, `ModelDeltaReport`
and `TransitionReport` are the three computations, each with the state before and
after; `ReportedPart` is which of them the report is about, `RecordedPart` which
of them the record is about, `Audit` the replay. A state is its units and the
hash of a revision, for both go into the hash of a state.

### ClosurePlan
buildPlan as a machine that takes one candidate at a time (`next`):
`ExpandCandidates` cuts the proposal up, `RefuseBlocked`, `RefuseConflict` and
`Accept` are the three ways through the body of the loop, `Finish` sorts what was
refused, makes the suggestions and the contract. Keys stand for the units of all
domains in their order; a unit's one field is the answer of a final decision, the
threshold or the rule of a constraint or the level of a risk. `ConflictRule` names the
conflicts of a unit as determineConflictOutcome does, key collisions included. The
policy is validated as it is given (`InvalidPolicy`).

### Migration
Two ledgers, source and target. The export is a walk (`FindRevision`,
`FindArtifact`, `FindReference`, one lookup each; a reference that is in the closure
already is passed over, `IsNextLookup`) while `StoreArtifact` and
`StoreRevision` go on in both ledgers, and a file written and verified in one step
(`WritePackage`). `Repack` is a client who packs the files anew and loses a line.
The import validates without an await (`BeginImport`), then stores bundle after
bundle and revision after revision (`StoreBundle`, `FindStored`,
`InsertRevision`); it may be interrupted and begun again at any time, also with the
damaged package. Ordinary requests are one step, as in ClosedDag: RecordLedger
shows that they are. The lookups of one createRevision in the import are one step,
because what they find does not go away. Any client may have stored, as an ordinary
artifact, a document that tells a revision as the carriers of revisions do, without
being the carrier that the export writes (`Retells`), or one of the carriers' schema
that describes no revision (`Broken`, by the error it is refused with); what such
documents do to an export is part of the model.

`Target == INSTANCE ClosedDag WITH ...` maps the target's bundles and revisions to
the tables of ClosedDag; the run checks `Target!Spec`.

### Conversations
`threads` and `snapshots` in the order of creation, and one record per request.
Each request is split at its awaits of the language model (`BeginCreate`,
`BeginStore`, `FinishCreate`, `StoreFirstSnapshot`; `BeginContinue`, `BeginStore`,
`FinishContinue`; `BeginEvolve`, `StoreChild`; `BeginPin`, `ReadEvidence`, `StorePin`).
A question and its answer are stored in one transaction and are one exchange, which is
dated when the transaction begins: messages are read in the order of createdAt, which
need not be that of the commits. Of a text the model keeps its length: the gate of a pin
adds up the characters of selection, context messages and exchanges (`CharsOf`,
`GateOpens`), so that a pin may rest on a selection and its context alone. A failure of
the model, of the transaction or of the process is `FailAsked`.

### Extension
The content script's `pendingRequestId`, `cancelledRequestIds` and hard timer, what
the sidebar shows and for which request it waits (`asked`), where each request is on
its way (`req`; `stopped` if the user was told that it was), the worker's
`deviceId` with the two reads of the storage that may be under way, and at the
server the users and the owners of subthreads. `Restart` is the browser stopping
the worker, which forgets all but the storage; the server goes on with what it was
asked. `Load` covers loadSettings and ensureDeviceReady with their failures.

### Documents
`built` are the documents the server has answered with, `altered` the copies that
a client's editor has changed without computing a hash. A hash is the content that
is hashed, so each `...Content` operator says which fields a hash covers and which
lists are sorted first, and each `...Matches` what a verify endpoint looks at. A copy
may have gained entries and values of another type (`Other`, malformed next actions):
the transfer package's normalisers drop or replace them (`Texts`, `AsText`, `Mended`),
the handoff record's refuse them (`HandoffMatches`, `Continues`), the code that makes a
handoff of a package copies them (`HandoffOf`).

## 4 Runs

| Run | Instance | Shows |
|---|---|---|
| record_ledger | 2 clients, 2 packages, 3 documents of which two collide, 4 revisions, 1 execution id, 2 runs | the handlers implement ClosedDag (`Spec`); `Closed`, `ParentChainsEnd`, `OkIsTrue`, `ReplayBlamesCaller`; a retry is answered (`RetryIsOk`) |
| task_packages | 2 writers and a stranger, 2 packages, 4 payloads, 4 revisions | `RevsAreDense`, `LineageDescends`, `CurrentIsOwn`, `ExhaustedLostTwice`, `CreatedOnce`, `CurrentMovesOnRequest` |
| task_packages_live | the same, 3 revisions, fair handlers | `Answered`: inserts, their foreign keys and updates of the pointer never wait in a circle |
| net_delta | every tree of up to 4 revisions over 7 contents, and every kind of apply request to it | `PathNetIsExact`, `CrossBranchIsExact`, `OnlyReturnsConflict`, `ComposedIsNormal`, `KeysStayUnique`; `AuditVerdictIsExact` |
| algebra_law3, algebra_law5 | 4 and 3 revisions | what section 7 describes; TLC finds the counterexample |
| migration | 6 revisions, 12 bundles, 2 packages, at most 2 revisions and 3 artifacts in the source | `ExportVerdictIsExact`, `ImportedIsWhole`, `AcceptedImportCompletes`; the target implements ClosedDag (`TargetIsClosedDag`) |
| closure_plan | 6 states, proposals of up to 3 of 15 entries, 4 policies | `AcceptedIsClean`, `CleanProposalIsTaken`, `RefusalsStand`, `CoverageIsHonest` |
| conversations | 2 users, 3 requests, 1 subthread, 3 snapshots, limits of 1 and 2, texts of different lengths | `CountIsExact`, `LineageIsSound`, `PinnedIsOfItsThread`, `LeavingIsFinal`, `SnapshotsStand` |
| extension | 2 requests, 2 device ids, 1 stop of the worker | `StoppedIsNeverShown`, `ShownIsContinued`, `DeviceIsStored`, `QuestionsEnd` |
| documents | 3 revisions of 2 packages, 2 transfer packages, 1 handoff record, 1 bundle, 1 changed copy | `VerifiedIsAsBuilt`, `BundleIsOfOneTransfer` |
| documents_store | the same, smaller | what section 7 describes |

Why these bounds are enough. Two clients make every pair of handlers overlap at
every pair of their awaits, and an invariant of the ledger relates one handler to
what another did. The records contain each interesting case once: colliding
documents, a parent in another package, a bundle listed twice, a revision that
names itself, an execution whose outputs repeat a bundle. For the ledger the
proofs of section 6 remove the bounds altogether. In TaskPackages four revisions
let one request lose twice and the winner still move the pointer; losing twice
needs the first revision and two winners. In NetDelta, three revisions show every
pair of operations on a unit, four the first chain that can be grouped in two
ways; the contents contain an absent field, a scalar, arrays with different
elements and orders, an array with equal elements, a duplicated key, a final decision
without an answer, and constraints named by their rule, one of them without a rule.
Invariants of NetDelta look at the revision created last: what is only about
earlier ones was checked when the last of those was created.

Migration has a line of two revisions whose second refers to another package's
bundle that refers back to the first's artifact, a revision that names the carrier
of its parent as an artifact, and one whose artifact was stored with unsorted
references: each fault of a closure once; a fifth revision whose artifact retells
the first without being its carrier, and a sixth whose artifact is a malformed carrier.
In ClosurePlan three entries are enough
for two candidates of one unit and a third that comes between, and the pool has an
addition, a removal and a modification for each kind of unit that a condition is
about, and two entries that give a constraint another name; the limit of suggestions is
3, so that it is reached. In Conversations
three requests are the two that race and one that came before, and two notes, one
message of history and one exchange of evidence are limits that are reached; the
lengths of selection, context and exchange are such that the gate opens for some sums
of two of them and stays shut for others; one
subthread is enough, because no operation reads or writes two. In Extension two
requests are the one whose answer is late and the one asked since, two ids the two
that racing loads generate, and the worker stops once in the middle of any of it.
In Documents two transfer packages can be mixed in one bundle, of two revisions of a
package or of different packages, and a copy may have a string, a number or a malformed
next action more than what was built.

Bounds: `MaxRevisions` in TaskPackages and NetDelta; `MaxThreads`, `MaxSnapshots`;
`MaxRestarts`; `MaxTransfers`, `MaxHandoffs`, `MaxBundles`, `MaxAltered`; in Migration
one package is written and one line lost, and `SourceIsSmall` stops the search where the
source holds more than a line of two revisions rests on. `Reserved` counts the rows that
requests under way may still store, so that the bound delays only new requests and never
a running one. NetDelta, Conversations and Documents stop at their bounds, and
ClosurePlan when the plan is made, so their runs do not look for deadlocks; all others
do.

What the properties say that a unit test would not reach:

- `OkIsTrue`: a document with a colliding hash that arrives between find and
  upsert does not make a false "ok".
- `ReplayBlamesCaller`: the three error codes for missing records can not be the
  answer to a replay whose record exists.
- `RetryIsOk`: only two overlapping *first* creations can end with the unique
  violation of InsertRevision; once the revision is stored, createRevision returns
  it.
- `LineageDescends`: the parent may be committed between the reading of the
  number and the lookup of the parent; then the number is taken and the insert
  fails, so a stored parent always has a smaller number.
- `ExhaustedLostTwice`: CONFLICT_RETRY_EXHAUSTED means that two other revisions
  were committed during the request.
- `PathNetIsExact` and `OnlyReturnsConflict` give the exact conditions under which
  a compressed chain leads to its end: nothing that was removed comes back, and no
  array that replaced a scalar changes again. The one entry of a net delta that is
  ever refused is E_ADD_EXISTS, of a unit that came back; the other conflicts that the
  application lists are those of the state that is reached, which a revision may have.
  `CrossBranchIsExact` has no such condition, since
  across branches the code takes the difference of the two revisions.
- `AuditVerdictIsExact`: the replay of an execution record fails for a net delta
  between two revisions exactly when it met no conflict, which is when it should
  succeed.
- `ExportVerdictIsExact`: requests that are served during an export do not make it
  fail nor let an incomplete package pass; `AcceptedImportCompletes`: validation
  finds everything that the ledger would refuse later with half of it stored.
- `CleanProposalIsTaken`: taking candidates one at a time does not refuse what
  would apply as a whole, except for thresholds, which are looked at too early, and for
  renamed units, which are tried before the removal that makes room (section 8).
- `CountIsExact`: what the absolute count of createSubthread loses, and nothing
  else, however continuations race; `LeavingIsFinal`: only requests that were
  waiting for the model when a subthread was archived or deleted may still add to it.
- `PinnedIsOfItsThread`: the snapshot that a pin was based on and the messages it holds
  as evidence are read at two times, but are of one user and one subthread, and the
  messages are the latest of one moment.
- `StoppedIsNeverShown` and `ShownIsContinued`: the answer to a first question is not
  displayed once the user has stopped it, and no stale, stopped or late one leaves its
  subthread behind for the next question. Section 7 says what happens to the answer to
  a further question.
- `VerifiedIsAsBuilt`: a changed copy that verifies differs only in the order of
  lists, times, the note of what is missing, and values of another type than their
  fields have, which a normaliser drops or replaces before the hash is computed.
  `BundleIsOfOneTransfer` is stated up to the same values.

## 5 Fairness

Weak fairness of `Handle(c)` for each client: the database answers a statement that
waits for no lock, and the event loop resumes the handler. Nothing is fair about
`Submit`, `Receive` or `Interrupt`: clients need not ask, and failures need not happen.
`RetryIsOk` allows the answer "interrupted". Statements that lock the row of a package
(`LockPackage`) are strongly fair: PostgreSQL queues who waits for the lock on a row, so
a lock that becomes free again and again is not given to others for ever. `Answered` is
stated for behaviours in which interruptions come to an end: a transaction that inserts
and is cut off, again and again, could keep another one waiting at the index, and weak
fairness does not rule this out. There is no circle because at most one transaction of a
package has inserted a row and not committed it: it is the only one that waits while it
holds a lock, for updates of the pointer that are made and wait for their commit only.

In Extension the only fair action is `HardTimeout`, because the browser runs a
timer that was set. Neither the worker, the network, the server nor the user need
do anything, and `QuestionsEnd` holds nevertheless. The other modules state safety
only: a language model, a client or an importer need not go on.

## 6 Proofs

Each of the theorems below holds for every value of the constants, that is for any
number of clients, requests, packages, documents and revisions, and for any contents.
For each component the argument is an invariant that is inductive, where the
properties of section 4 are not; the invariants were checked by TLC on the instances
of section 4 before they were proved.

### The ledger: RecordLedgerProofs

Its first part proves that the abstract ledger keeps `TypeOK`, `Closed` and
`ParentChainsEnd` (`DagInvariant`) and never changes a record (`DagAppendOnly`).
`Closed` is inductive because a step adds one record, its guard closes it, and what
closed the others is still there. `ParentChainsEnd` follows from the order of storing:
a set of revisions in which each has its parent inside cannot contain the newest one,
which is the parent of none; it needs no assumption on the hash.

The second part proves `LedgerSpec => Spec` (`LedgerImplementsDag`), from
which closure and the end of parent chains follow for the handlers, and
`LedgerOkIsTrue` and `LedgerReplayBlamesCaller` directly. None of the properties
is inductive by itself: that InsertRevision stores a closed revision depends on
what the handler saw some awaits ago. `LedgerInv` adds this, for each client:

- `RightCall`: the awaited call belongs to the kind of request;
- `AnchorFound`: past its lookup, the parent of a revision, or the revision of an
  execution, is stored, and what a replay has loaded is what is stored;
- `ArtifactsFound`: the artifacts before the loop's index are stored, all of them
  after the loop;
- `TrueAnswer`: what the answer claims is true.

The step of one client preserves the knowledge of every other because the ledger
only grows (`IdleHandler`, from `Grows`); its own knowledge is checked action by
action (`OwnStep`). `StepRefines` then maps each insert to a step of ClosedDag and
everything else to a stutter.

### Task packages: TaskPackagesProofs

Every safety property of the run task_packages, the action property included. The
inductive invariant `PackagesInv` adds to them, for each client (`Knows`):

- `RightStatement`: the statement belongs to the kind of request, and past the first
  lookup the package is the caller's;
- `RowsFound`: the revision with the payload's hash that a handler is about to use,
  the revision it is about to point to, and the parent of its row are stored, in
  the package;
- `Beaten`: the number that was read is at most the count of the committed
  revisions, and at least the count at the beginning of the request, plus one in
  the second attempt;

and for each client between its insert and its commit (`IsNext`): the number of its row
*is* the count of the committed revisions, no revision has its payload, and no other
transaction of the package has inserted a row. `InsertIsNext` is the heart of it:
numbers below the count are taken, so an insert that meets no row with its number has
the count itself; any other insert that got as far would have that number too, and
waits. From there the numbers stay dense (`GoodRow`), a stored parent has a smaller
number than its child, and a conflict on the number means that a row was committed since
it was read (`RevConflictKnows`).

### Migration: MigrationProofs

All four properties of the run migration: what an export answers is exact
(`ExportStaysExact`), an import that is answered "ok" is whole
(`ImportedStaysWhole`), an accepted one is not refused half way
(`AcceptedStaysAccepted`), and the target implements ClosedDag
(`TargetStaysClosedDag`). `MigrationInv` consists of

- `LedgersAreClosed`: in either ledger, what a revision names is stored;
- `ExporterIsSound`: the revisions visited so far are a chain from the root
  (`LineIsSound`); the closure holds what was read of their artifacts, in normalised
  form, is closed under references but for those still to be looked up, and holds
  nothing but what the root rests on (`ClosureIsSound`);
- `ImporterIsSound`: the plan of an accepted import is the line of its root, oldest
  first, and contains all that the line rests on (`PlanIsSound`); what the plan has
  passed is stored.

Two recursive definitions stand between the code and these statements. The line of
a revision and the sort of a package by parents are recursive functions of the model;
`ChainFromIsChain` and `LineOfIsChain` show that both are the one chain that the
parents form, which never meets a revision twice (`ChainIsDistinct`, from
`ParentsAreOlder`) and therefore ends. What a root rests on is a least fixed point
(`RestsOnIsLeast`). `GoodPackage` says what a package is in which the validation
finds no fault, `PlainPackageIsGood` that the export of a closure without faults is
such a package.

The first attempt failed for a reason that was missing in the model: an artifact
that any client stores may tell a revision in the words of a carrier. The
properties held only because no document of the instance did. The instance now has
one, and `ExportVerdictIsExact` and `ImportedIsWhole` say what happens to it.

### Conversations: ConversationsProofs

All five properties of the run, for any number of users, requests and limits, and
whatever the model answers. `ConversationsInv` adds the types; that what a waiting
request names is stored and its user's (`Known`, `PinIsBased`); that evidence, once
read, was the end of the subthread's messages at some time (`StoodOnce`); that a
subthread is created by one request (`CreatorIsOne`); and that exchanges are those of
requests that no longer wait (`ExchangesAreStored`). Requests
keep what they know because nothing that they read changes but by growth (`StepGrows`).
The count is exact up to one exchange for each continuation that overtook the creation
(`CountPreserved`), because a request stores at most one exchange, in the step in which
it stops waiting.

### Extension: ExtensionProofs

The three safety properties of the run, for any number of requests, ids and stops of
the worker. `TabInv` relates the sidebar, the pending question and the noted
cancellations to where each request is: an answer that is passed on ends its
request, so a first question that was stopped either has its answer noted as cancelled,
or has been dealt with, or lost its worker. `WorkerInv` relates the worker's id, the two
reads of the storage and what the storage holds: a worker without an id waits for an
answer of the storage that is still true. It is stated for a storage that works,
since a failed write leaves an id that nothing can recover.

### Documents: DocumentsProofs

Both properties of the run documents. The invariant is that every hash that a
document held anywhere bears, nested ones included, is the hash of a document that
was built (`HashIsOfBuilt`), and that whatever was built verifies, but for a handoff
whose trunk took over an entry that is no string, and is made of
verified parts (`BuiltIsSound`). It needs that the hashed contents determine the
document up to what the property excepts (`TransferDetermined`, `LineageDetermined`,
`HandoffDetermined`, `BundleDetermined`), although some lists are hashed as they are
and others sorted: two lists that are equal when sorted have the same entries
(`SortedEntries`), and sorting twice is sorting once (`SortedTwice`), proved from the
definition by counting.

### Algebra and planner: AlgebraProofs

The theorems are about any finite set of keys, values of any kind, arrays and trees of
any length. What carries them is `ApplyKeywise`: applyDelta, three passes over an index
that is rebuilt as it goes, does to each key what that key's entry says (`Effected`),
and nothing else, if no entry renames a unit (`KeptBy`); the conflicts are the entries
that do not fit (`Misfits`) and those of the state that is reached. That the entries of
a difference and of a net delta rename none is proved of them (`NetKeeps`): a unit and
its modification have the key that the unit's field gives it. `ApplyKeywise` holds
because an entry is met once (`ListedIs`, `EntriesOf`), a step touches its own key only
(`EntryDone`, by cases of the entry), and so, in the middle of the run, the keys of the
entries done have their new value and the others their old (`Halfway`).

- *Net deltas.* `DiffLeads`: the difference of two plain states leads from one to the
  other; of two arrays it lists each missing and each surplus element once, so that
  the removals find what they remove. `CrossBranchIsExactAlways` follows. For
  `OnlyReturnsConflictAlways` the composition along a path is followed key by key: the
  effect composed so far says whether the unit is there (`none` and `modify`: as at the
  start; `remove`: gone; `add`: came, and if it had been there at the start, it was
  removed in between, which is `UnitReturns`). `ComposedIsNormalAlways`: composed
  changes of a field are one scalar change or one array change for each element, in
  their order, and merging such a list into an empty bucket and sorting gives the list
  again.
- *Net deltas along a path.* `PathNetIsExactAlways` says that the values are right as
  well. The induction along the path keeps, for each key, what the composed effect makes
  of the first value (`Leading`). A modification's changes either append and remove
  elements, each once, and nothing that is appended was there at the start
  (`ByElements`), or they are one change that puts a value in place (`ByValue`). A change
  of an array composed onto the second kind would drop the replacement, so there the
  invariant also remembers that the array came to replace what was none (`Replaced`): a
  further change of it is what `ArrayReplaces` excludes. An appended element that had
  been there at the start would be `ElementReturns`.
- *Audit.* `AuditVerdictIsExactAlways`: replay and record apply the same delta to the
  same state, but for the net delta without a conflict, where the record names the
  target, whose revision hash is not that of the first revision.
- *Planner.* `AcceptedStaysClean`: a candidate is accepted with the outcome of all that
  was accepted before *and* itself, so the last acceptance has tried the very delta the
  plan ends with (`AcceptedWasTried`); with none accepted the delta is empty, and
  applying it finds just the conflicts that the base had (`EmptyOutcome`).
  `OutcomeListsAll` is what section 8 says of POST_APPLY_CONFLICT.
- *Refusals and completeness* are stated for proposals that rename no unit
  (`KeysAreKept`); that the candidates cut out of such a proposal, and what is composed
  of them, rename none either is `KeysKept`, `KeepKeys`. `AcceptedStaysClean` and
  `CoverageIsHonestAlways` need no such condition.
- *Refusals.* `RefusalsStandAlways` needs that candidates are sorted by key and stay so
  (`Planned`), which is that the stable sort is one (`StableSort`), and for each refusal
  `IsFair`: it names an earlier candidate; a blocked one has an earlier candidate of the
  same unit that was refused for a conflict; and one refused for a missing or existing
  unit still misfits. The last is kept by every later acceptance: what is accepted for
  the unit in the meantime would have to change whether it is there, but a later
  candidate of the same unit is blocked by the refused one, and one of another unit
  leaves the effect on this one alone (`TentativeIs`, `PlannedKept`).
- *Coverage.* `CoverageIsHonestAlways` rests on `Reported`, which says that whatever has
  been refused is of a known operation and that the report is drawn from all of it. The
  sorted refusals are a permutation of the refused (`RefusalsSorted`), and every
  suggestion is the advice of one refusal and one of its actions (`FlattenPlaces`), so
  the suggestions for a given action inject into the refusals that ask for it and no
  count of the contract exceeds the one above it (`ContractIs`). Suggestions are sorted
  by unit before the limit cuts them, so what is cut off is of the last units only
  (`SuggestionsAre`).
- *Completeness.* `CleanProposalIsTakenAlways` compares the run of candidates with one
  application of the proposal. For each unit the accepted delta is the part of the
  proposal's entry that the accepted candidates make up (`PartlyTaken`): the changes of
  one difference are all kept when they are composed (`PartsJoin`). A part is of the
  kind of its entry, so it fits the base where the entry does (`OwnFits`), and a value
  on the way is that of the base, the final one, or an array where the final one is no
  scalar either (`PartValues`): an array among final decisions was there before or will
  be in the end, and so was or will be the level of a risk. Only the combination with a
  threshold can be new, so on a clean base with the constraints left alone nothing is
  met on the way (`NothingInTheWay`). A candidate is blocked only by one that was
  refused, so the first refusal would have to be a conflict (`TakenAsWhole`). With
  nothing refused the accepted delta differs from the proposal by modifications without
  changes (`AllAreTaken`), which change no unit (`SameUnits`).

### Assumptions

They are named in the modules that declare the constants, and TLC evaluates all of
them in the runs.

- Types of constants (`BaseType`, `ContentsType`; `EntryType`: what llm-delta-parser.ts
  lets through; `ArraysAreArrays`: no array is a scalar; `Conditions`;
  `LengthsAreNaturals`; `NamesAreKeys`: a unit's field names it or never does, and a
  name is no key of a unit with an id, whose signature has the id alone), and that
  values which stand for "none" are none of the others (`NoneIsNoRecord`, `Sentinels`,
  `NotRevisions`, `NoneIsNone`, `IdleIsNoAnswer`, ...).
- `FiniteClients` in TaskPackages, for counting the rows that requests may yet store;
  `HashesAreFinite` in Migration and `KeysAreFinite` in StateAlgebra: a hash has 64
  digits, so there are finitely many.
- What a hash covers, in Migration only: `ParentsAreOlder` (the hash of a revision
  covers its parent's, so no hash covers itself), `NormalIsNormal` (normalising twice
  is normalising once), `CarrierContent` (what the export writes for a revision). The
  ledger and task packages need nothing of the kind.

### Only model-checked

`RetryIsOk`, `Answered` and `QuestionsEnd`, which depend on fairness: liveness is beyond
the prover. Every safety property of the passing runs is stated by a theorem.

## 7 Where code and documents disagree

`src/server/STATE_ALGEBRA.md` states laws of composition.

- *Law 3, associativity* (run algebra_law3). A unit is removed, added and removed
  again. Composing from the left, removal and addition give an addition, which the
  second removal cancels: nothing is left. Composing from the right, addition and
  removal cancel first and the removal stays. compressRevisionChain composes from
  the left, so the net delta of such a chain does not remove the unit.
- *Law 5, composition is sequential application* (run algebra_law5). A field
  changes from a scalar to the array [1, 2] and then to [1]. composeFieldChanges
  drops the first change, "set", when the second, "remove 2", arrives; applied to
  the scalar the composition gives [], the two deltas one after the other give
  [1]. Neither way meets a conflict, which is the condition the law states.
- *Law 6, conflict monotonicity* (no run of its own): if the sequential application
  meets no conflict, neither does the composed delta. A unit is removed and comes back:
  each step applies without a conflict, the composition is an addition of a unit that
  is there, E_ADD_EXISTS. `OnlyReturnsConflict`, which holds,
  says that this is the one way for an entry of a net delta to be refused.

The conditions under which compression is right are what `PathNetIsExact` checks.

- *Storing a bundle* (run documents_store). POST /task-packages/:id/bundle/store
  gives the bundle and the bundle's own hash to storeArtifactBundle, which compares
  that hash with the one it computes over schema, identity and the bundle, hash
  included. The two are never equal: every bundle that has its hash is answered
  with 400. The test of the route ("stores a bundle deterministically with the
  expected response shape") replaces saveBundleV1 by a mock.
- *Stop* (no run of its own). content.ts tells the user that the answer was stopped,
  whatever the sidebar was waiting for, but notes only `pendingRequestId`, which a
  further question and an applied snapshot never are: their answers are displayed when
  they come. `StoppedIsNeverShown` is therefore about first questions.
- *Values of another type* (no run of its own). The ingest of a transfer package takes
  any JSON. A list entry that is no string is filtered out where the package is hashed
  again, and a value of another type becomes null or a default, so a package that has
  gained one verifies. The handoff record that is made of it copies the entry, and its
  own verify refuses it. A bundle of such a package with the lineage binding and the
  handoff of the original passes every check, although the two trunks differ.

## 8 What the models show besides

What follows is how the code behaves where no document says otherwise; a property
states it, or excepts it by name.

- *applyPackage.* With a model's delta and a net delta together the report is
  about the net delta and the record about the model's, under the mode
  `revision_net_delta`. The audit can be asked for through the service only, no
  route passes its options.
- *Planner.* POST_APPLY_CONFLICT and CROSS_DOMAIN_DEP are never given: whatever
  would be refused with the first is a conflict of the application already. A
  removal and an addition of one unit compose to the addition and are refused.
  Thresholds come before risks in the order, so a proposal that lowers both is
  picked apart. So is one that removes b and renames a to b: the renaming is tried
  first and refused with DUP_KEY_ADD, then the removal is accepted, and now the renaming
  would apply.
- *State algebra.* A revision may have conflicts of its own, which every application
  that leads to it lists, and for which strict mode refuses the way there. Removals
  come before modifications in every application, so a delta may rename a unit to the
  name of one that it removes.
- *Migration.* An artifact that was stored with unsorted references, or a revision
  that names a carrier as an artifact, cannot be exported. References are not
  looked up when an artifact is stored, so a stored revision need not be
  exportable. Once its package is accepted an import can fail only by meeting
  another request that stores the same revision between its lookup and its insert.
- *Conversations.* continueSubthread shows the model the oldest fifty messages.
  When a snapshot is continued twice, the second caller is given the first one's
  child, its own delta is lost. A continuation that overtakes the first answer is
  not counted. A pin may rest on no exchange at all, if selection and context are long
  enough. An answer may arrive in a subthread that was deleted meanwhile. A
  snapshot made by hand may name anybody's subthread.
- *Extension.* After Stop the sidebar goes on showing that it loads. A further question
  is never pending and has no timeout; its answer, coming after a new selection, is
  displayed under that, and the next question does not go to its subthread. resetSidebar
  leaves the pending question, whose answer appears under the new selection. An answer
  that comes after the hard timeout is displayed. Two loads may generate two ids; when
  the storage works, the one that stays is the one that is stored.
- *Documents.* A bundle without its hash is stored and answered with 400. Verifying
  a bundle looks at none of its parts, and invariants that do not hold are recorded
  and do not keep it from being built. The bindings of a handoff record are those of
  the ingest request, not of the transfer package. Either flag of the execution
  brings both of its hashes into the lineage binding.

## 9 What is not modelled

- The text of canonical JSON and the computation of hashes: a hash is a value, or
  in Documents the content it is computed from. What depends on its being injective
  is said where it is used (TaskPackages takes equal hash for equal payload,
  Migration and Documents that a hash stands for one content; the ledger does not).
- Strict mode of applyDelta beyond its refusal, and the texts of the findings. Units
  that are named by an array (an array in the naming field counts as no name). Paths
  within a unit of which one is a prefix of the other, and entries that the parser of
  proposals refuses. That two documents order null differently among strings.
- The prompt that applyPackage makes, language model providers, HTTP text, token
  counts, list and detail endpoints, which only read.
- API keys and settings of users. A key that is saved as default clears the others
  in a statement of its own; the key that is used is the default that was updated
  last, so that two defaults do no harm to it.
- CLI, Python SDK and MCP server, which keep no state; any sequence of their
  requests is one of RecordLedger's and Migration's.
- Of the extension: settings, lists and details, diagnostics, the port that keeps
  the worker alive, the adapters that find messages in the pages, several tabs.
- checkRateLimit, which nothing calls; task-package.normalize.ts, which maps
  imported layouts to one payload and has no state; getBundleV1 and
  verifyStoredBundleV1, which only read.
- Benches (`bench/`), self tests and demos: drivers of the code that is modelled.

## 10 Plan

Done, in this order: ClosedDag and RecordLedger (the core) and their proofs;
TaskPackages and its proofs; StateAlgebra and NetDelta; ApplyPackage, ClosurePlan,
Migration with its refinement of ClosedDag, Conversations, Extension, Documents.

Theorems, in this order: the ledger, task packages, the extension, conversations,
migration, documents, the algebra with its net deltas and the audit, the planner's
soundness, its refusals, the counts of its report and its completeness.

No safety property of a passing run is without a theorem. What could follow: the map
from a plan to the package that applies it, which ApplyPackage and ClosurePlan model
each on their own, as one composed module; and shorter proofs for the net deltas along a
path, the longest of AlgebraProofs; units that an array names; and a run of its own for
Law 6.

Left out on purpose: a module for API keys (section 9).
