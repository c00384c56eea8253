------------------------------- MODULE Documents -------------------------------
(***************************************************************************)
(* The documents by which the state of a task package is handed over, each *)
(* with a hash of its own content: the transfer package, the lineage       *)
(* binding, the handoff record and the artifact bundle that holds the      *)
(* three. The server keeps none of them: it builds one, answers with it,   *)
(* and is given it back later, by then perhaps a copy that somebody's      *)
(* editor or converter has changed.                                        *)
(*                                                                         *)
(* A hash is modelled as the content that it is the hash of (Sha), so that *)
(* two hashes are equal exactly when the hashed contents are. A list of    *)
(* strings of the trunk and a list of next actions stand for the lists of  *)
(* a document. A copy may hold values of other types than its fields have: *)
(* the normalisers of one document drop or replace them, those of another  *)
(* refuse them, and some code copies them.                                 *)
(***************************************************************************)
EXTENDS Integers, FiniteSets, SequencesExt

CONSTANTS
    Revision,      \* the revisions of all packages
    PackageOf,     \* [Revision -> packages]
    ParentOf,      \* [Revision -> revisions, or None]: parentRevisionId
    Includes,      \* the include flags of requests
    Givens,        \* the bindings of requests: closure, report, record
    LowerHex,      \* the values that are 64 lower-case hexadecimal digits
    Text,          \* strings, by their order
    Other,         \* a value that is neither a string nor null
    Action,        \* next actions as objects, also malformed ones, by their order
    Mend,          \* [Action -> Action]: what a malformed next action is turned into
    Unfit,         \* the malformed ones that a handoff record refuses
    Trunks,        \* the lists of strings of requests
    NextActions,   \* the lists of next actions of requests
    Times,         \* the values of createdAt in requests
    MaxTransfers, MaxHandoffs, MaxBundles,  \* bounds on what is built
    MaxAltered,    \* bound on the changed copies
    None

ASSUME DocumentsAssumption ==
    /\ None \in Times
    /\ Text \subseteq Int /\ Other \notin Text \cup {None}
    /\ \A r \in Revision : ParentOf[r] # Other
    /\ \A given \in Givens : given.report # Other /\ given.record # Other
    /\ Action \subseteq Int /\ Mend \in [Action -> Action]
    /\ \A e \in Action : Mend[Mend[e]] = Mend[e] /\ Mend[e] \notin Unfit
    /\ \A list \in Trunks : list \in Seq(Text)
    /\ \A list \in NextActions : list \in Seq({e \in Action : Mend[e] = e})

VARIABLES
    built,    \* the documents that the server has answered with
    altered,  \* copies of them that were changed since
    stored,   \* ArtifactStoreRecord: the rows of stored bundles
    refused   \* the bundles that were to be stored and were answered with 400

vars == <<built, altered, stored, refused>>

Held == built \cup altered

\* normalizeTransferPackageV1 .. normalizeHandoffRecordV1: a part of a bundle is a
\* document of the schema that is wanted there.
Of(schema, documents) == {d \in documents : d.schema = schema}

\* stableStringify and sha256Hex
Sha(content) == [sha |-> content]

\* What a bundle has instead of a hash that was dropped.
NoHash == [none |-> TRUE]

\* The entries at some places of a list, sorted, equal entries kept. In the i-th
\* place stands the entry that fewer than i entries are less than, and at least i
\* are not greater than. (Of SortSeq nothing can be proved.) That two documents
\* order null differently among strings is left out.
Lower(list, e) == {j \in DOMAIN list : list[j] < e}
UpTo(list, e) == {j \in DOMAIN list : list[j] <= e}

Sorted(list) ==
    [i \in 1..Cardinality(DOMAIN list) |->
        CHOOSE e \in ToSet(list) :
            Cardinality(Lower(list, e)) < i /\ i <= Cardinality(UpTo(list, e))]

\* The identity of a revision.
IdentityOf(r) == [revision |-> r, parent |-> ParentOf[r]]

\* normalizeIdentity, normalizeTransferPackageV1: another parent is refused.
Identified(d) == d.identity.parent # Other

-----------------------------------------------------------------------------
(* Transfer packages *)

\* What a package is hashed with instead of a value that is no string.
AsText(value) == IF value = Other THEN None ELSE value

AsIdentity(identity) ==
    IF identity.parent = Other THEN [identity EXCEPT !.parent = None] ELSE identity

\* normalizeStringArray: the entries that are strings. intent.primary, of which
\* another value counts as null, is left to this list.
Texts(list) == [i \in {j \in DOMAIN list : list[j] \in Text} |-> list[i]]

\* normalizeNextActions, normalizeValidationChecklist, normalizeConflicts
Mended(list) == [i \in DOMAIN list |-> Mend[list[i]]]

\* Mutant of TransferContent: the closure contract is left out of the hash.
TransferContentUnbound(t) ==
    [t EXCEPT !.identity = AsIdentity(@), !.closure = None, !.report = AsText(@),
              !.record = AsText(@), !.trunk = Sorted(Texts(@)),
              !.actions = Sorted(Mended(@)), !.hash = None]

\* What buildTransferPackageV1 hashes. recomputeTransferPackageV1Hash builds a
\* received package again: what that drops or replaces is not hashed.
TransferContent(t) ==
    [t EXCEPT !.identity = AsIdentity(@), !.report = AsText(@), !.record = AsText(@),
              !.trunk = Sorted(Texts(@)), !.actions = Sorted(Mended(@)), !.hash = None]

\* buildTransferPackageV1, of a request, whose values have their types.
TransferOf(r, bindings, trunk, actions) ==
    LET t == [schema |-> "transfer-package-1", identity |-> IdentityOf(r),
              closure |-> bindings.closure, report |-> bindings.report,
              record |-> bindings.record,
              trunk |-> Sorted(trunk), actions |-> Sorted(actions), hash |-> None]
    IN [t EXCEPT !.hash = Sha(TransferContent(t))]

\* verifyTransferPackageV1
TransferMatches(t) == Sha(TransferContent(t)) = t.hash

-----------------------------------------------------------------------------
(* Lineage bindings *)

\* computeMissing
Missing(l) ==
    {key \in {"transfer", "closure", "execution", "handoff"} : l[key] = None}

\* The payload that is hashed, of a binding that is built as of one that is
\* received: createdAt is no part of it, and what is missing is computed.
LineageContent(l) == [l EXCEPT !.missing = Missing(l), !.createdAt = None, !.hash = None]

IsHash(value) == value = None \/ value \in LowerHex

\* normalizeClosureBinding and normalizeExecutionBinding refuse other values.
Bindable(closure, execution) ==
    /\ IsHash(closure)
    /\ execution # None => IsHash(execution.report) /\ IsHash(execution.record)

\* The two bindings that buildLineageBindingForTransferFlowV1 makes: either
\* flag of the execution brings both hashes.
ClosureIn(include, given) == IF include.closure THEN given.closure ELSE None

ExecutionIn(include, given) ==
    IF (include.report \/ include.record) /\ (given.report # None \/ given.record # None)
    THEN [report |-> given.report, record |-> given.record]
    ELSE None

\* buildLineageBindingV1, for a transfer package
LineageOf(t, closure, execution, createdAt) ==
    LET l == [schema |-> "lineage-binding-1", identity |-> t.identity,
              transfer |-> t.hash, closure |-> closure, execution |-> execution,
              handoff |-> None, missing |-> {}, createdAt |-> createdAt, hash |-> None]
    IN [l EXCEPT !.missing = Missing(l), !.hash = Sha(LineageContent(l))]

\* verifyLineageBindingV1
LineageMatches(l) ==
    /\ Identified(l) /\ Bindable(l.closure, l.execution)
    /\ Sha(LineageContent(l)) = l.hash

-----------------------------------------------------------------------------
(* Handoff records *)

\* canonicalizeLineageForHash: the embedded binding, missing and hash as given.
Embedded(l) == [l EXCEPT !.createdAt = None]

\* normalizeClosureBinding .. normalizeDiagnostics, the parts of a record that is
\* received or built: the next actions are mended and sorted again, the trunk is
\* not.
Normal(h) == [h EXCEPT !.report = AsText(@), !.record = AsText(@),
                       !.actions = Sorted(Mended(@))]

\* normalizeNextActions of a record refuses domains and severities that are none.
Continues(d) == ToSet(d.actions) \cap Unfit = {}

HandoffContent(h) ==
    [Normal(h) EXCEPT !.lineage = Embedded(@), !.createdAt = None, !.hash = None]

\* buildHandoffRecordV1. The transfer package is one that has been verified; its
\* trunk is copied as it was received.
HandoffOf(t, bindings, l, createdAt) ==
    LET h == [schema |-> "handoff-record-1", identity |-> t.identity, transfer |-> t.hash,
              closure |-> bindings.closure, report |-> bindings.report,
              record |-> bindings.record, trunk |-> t.trunk, actions |-> t.actions,
              recomputed |-> Sha(TransferContent(t)), matches |-> TRUE, lineage |-> l,
              createdAt |-> createdAt, hash |-> None]
    IN [Normal(h) EXCEPT !.hash = Sha(HandoffContent(h))]

\* normalizeEmbeddedLineage: the binding is of the same revision and binds no
\* handoff. Its own hash is not looked at.
EmbeddedFits(h) == h.lineage.identity = h.identity /\ h.lineage.handoff = None

\* verifyHandoffRecordV1: normalizeStringArray of a record refuses other entries.
HandoffMatches(h) ==
    /\ Identified(h) /\ Continues(h) /\ EmbeddedFits(h)
    /\ ToSet(h.trunk) \subseteq Text
    /\ Sha(HandoffContent(h)) = h.hash

-----------------------------------------------------------------------------
(* Artifact bundles *)

\* cloneLineageBindingV1, cloneHandoffRecordV1: copied with the hashes, without
\* the times.
HandoffClone(h) == [h EXCEPT !.createdAt = None, !.lineage = Embedded(@)]

\* canonicalizeBundleForHash. The invariants are taken from the bundle, they are
\* not computed again.
BundleContent(b) ==
    [b EXCEPT !.lineage = Embedded(@), !.handoff = HandoffClone(@),
              !.notes = Sorted(@), !.createdAt = None, !.hash = None]

\* The invariants that a bundle records, each as it holds or not: one that does
\* not hold does not keep the bundle from being built.
Invariants(t, l, h) ==
    [transferMatchesLineage |-> l.transfer = t.hash,
     embeddedMatchesTop |-> h.lineage.hash = l.hash,
     noHandoffInLineage |-> l.handoff = None]

\* buildArtifactBundleV1: the parts are copied, whether they verify or not.
BundleOf(identity, t, l, h, notes, createdAt) ==
    LET b == [schema |-> "artifact-bundle-1", identity |-> identity,
              package |-> PackageOf[t.identity.revision], transfer |-> t, lineage |-> l,
              handoff |-> h, invariants |-> Invariants(t, l, h), notes |-> Sorted(notes),
              createdAt |-> createdAt, hash |-> None]
    IN [b EXCEPT !.hash = Sha(BundleContent(b))]

\* normalizeTransferPackageV1 .. normalizeHandoffRecordV1
AreIdentified(t, l, h) ==
    Identified(t) /\ Identified(l) /\ Identified(h) /\ Identified(h.lineage)

\* verifyArtifactBundleV1
BundleMatches(b) ==
    /\ AreIdentified(b.transfer, b.lineage, b.handoff)
    /\ Sha(BundleContent(b)) = b.hash

\* What POST .../verify answers for a document.
Matches(d) ==
    CASE d.schema = "transfer-package-1" -> TransferMatches(d)
      [] d.schema = "lineage-binding-1"  -> LineageMatches(d)
      [] d.schema = "handoff-record-1"   -> HandoffMatches(d)
      [] d.schema = "artifact-bundle-1"  -> BundleMatches(d)

-----------------------------------------------------------------------------
(* Requests *)

TransferRequest ==
    [revision: Revision, include: Includes, given: Givens, trunk: Trunks,
     actions: NextActions]

IngestRequest == [include: Includes, given: Givens, createdAt: Times]

Flagged(include, given) ==
    [closure |-> IF include.closure THEN given.closure ELSE None,
     report |-> IF include.report THEN given.report ELSE None,
     record |-> IF include.record THEN given.record ELSE None]

\* buildLineageBindingForTransferFlowV1
LineageFor(t, include, given, createdAt) ==
    LineageOf(t, ClosureIn(include, given), ExecutionIn(include, given), createdAt)

LineageAccepts(include, given) ==
    Bindable(ClosureIn(include, given), ExecutionIn(include, given))

\* createTransferPackage
TransferFor(request) ==
    TransferOf(request.revision, Flagged(request.include, request.given),
               request.trunk, request.actions)

\* POST /task-packages/:id/transfer, of a revision of the package: the package
\* and its lineage binding, both or neither.
CreateTransfer(request) ==
    LET t == TransferFor(request) IN
    /\ Cardinality(Of("transfer-package-1", built)) < MaxTransfers
    /\ LineageAccepts(request.include, request.given)
    /\ built' = built \cup {t, LineageFor(t, request.include, request.given, None)}
    /\ UNCHANGED <<altered, stored, refused>>

\* Mutant of Ingestible: the hash of the received package is not recomputed.
IngestibleUnverified(t) == t.schema = "transfer-package-1"

\* verifyTransferPackageV1OrThrow
Ingestible(t) == TransferMatches(t)

\* ingestTransferPackageV1: the bindings are those of the request, not those of
\* the package.
HandoffFor(t, request) ==
    LET bindings == Flagged(request.include, request.given) IN
    HandoffOf(t, bindings, LineageFor(t, request.include, bindings, request.createdAt),
              request.createdAt)

\* POST /task-packages/:id/transfer/ingest: the answer shows the lineage binding
\* once more by itself.
Ingest(t, request) ==
    LET h == HandoffFor(t, request) IN
    /\ Cardinality(Of("handoff-record-1", built)) < MaxHandoffs
    /\ Ingestible(t) /\ Identified(t) /\ Continues(t)
    /\ LineageAccepts(request.include, Flagged(request.include, request.given))
    /\ built' = built \cup {h, h.lineage}
    /\ UNCHANGED <<altered, stored, refused>>

\* POST /task-packages/:id/bundle/build: the parts are of one package.
BuildBundle(identity, t, l, h, notes, createdAt) ==
    /\ Cardinality(Of("artifact-bundle-1", built)) < MaxBundles
    /\ AreIdentified(t, l, h)
    /\ PackageOf[t.identity.revision] = PackageOf[l.identity.revision]
    /\ PackageOf[l.identity.revision] = PackageOf[h.identity.revision]
    /\ built' = built \cup {BundleOf(identity, t, l, h, notes, createdAt)}
    /\ UNCHANGED <<altered, stored, refused>>

\* computeBundleHash, as the artifact store does for whatever it stores.
StoreHash(b) == Sha([schema |-> b.schema, package |-> b.package, identity |-> b.identity,
                     payload |-> b])

\* storeArtifactBundle takes the hash that it computes, or none.
Storable(b) == b.hash \in {NoHash, StoreHash(b)}

\* buildArtifactStoreRecordV1, for the answer, takes a bundle with a hash only.
Recordable(b) == b.hash # NoHash

\* saveBundleV1: the identity, the schema and the hash are those of the bundle.
RowOf(b) == [package |-> b.package, bundleHash |-> StoreHash(b), payload |-> b]

\* POST /task-packages/:id/bundle/store
StoreBundle(b) ==
    /\ stored' = IF Storable(b) THEN stored \cup {RowOf(b)} ELSE stored
    /\ refused' = IF Storable(b) /\ Recordable(b) THEN refused ELSE refused \cup {b}
    /\ UNCHANGED <<built, altered>>

-----------------------------------------------------------------------------
(* Changed copies: an entry dropped, moved or gained, a value replaced, also by
   one of another type. The hash of a document is not computed anew; the one of a
   bundle may be dropped. *)

ChangedIdentities(d) ==
    {[d EXCEPT !.identity = IdentityOf(r)] : r \in Revision} \cup
    {[d EXCEPT !.identity.parent = Other]}

ChangedTransfers(t) ==
    ChangedIdentities(t) \cup
    {[t EXCEPT !.closure = None], [t EXCEPT !.report = None],
     [t EXCEPT !.report = Other], [t EXCEPT !.trunk = Append(@, Other)],
     [t EXCEPT !.trunk = Reverse(@)], [t EXCEPT !.trunk = Front(@)],
     [t EXCEPT !.actions = Reverse(@)]} \cup
    {[t EXCEPT !.actions = Append(Front(@), e)] : e \in Action}

ChangedLineages(l) ==
    ChangedIdentities(l) \cup
    {[l EXCEPT !.createdAt = time] : time \in Times} \cup
    {[l EXCEPT !.closure = None], [l EXCEPT !.execution = None],
     [l EXCEPT !.missing = {}], [l EXCEPT !.handoff = Sha(None)]}

ChangedHandoffs(h) ==
    ChangedIdentities(h) \cup
    {[h EXCEPT !.createdAt = time] : time \in Times} \cup
    {[h EXCEPT !.lineage = l] : l \in ChangedLineages(h.lineage)} \cup
    {[h EXCEPT !.closure = None], [h EXCEPT !.matches = FALSE],
     [h EXCEPT !.report = Other], [h EXCEPT !.trunk = Append(@, Other)],
     [h EXCEPT !.trunk = Reverse(@)], [h EXCEPT !.actions = Reverse(@)]} \cup
    {[h EXCEPT !.actions = Append(Front(@), e)] : e \in Action}

ChangedBundles(b) ==
    {[b EXCEPT !.identity = None], [b EXCEPT !.hash = NoHash],
     [b EXCEPT !.notes = Reverse(@)], [b EXCEPT !.invariants.embeddedMatchesTop = TRUE],
     [b EXCEPT !.transfer.trunk = Append(@, Other)]} \cup
    {[b EXCEPT !.handoff.lineage.createdAt = time] : time \in Times}

Changed(d) ==
    CASE d.schema = "transfer-package-1" -> ChangedTransfers(d)
      [] d.schema = "lineage-binding-1"  -> ChangedLineages(d)
      [] d.schema = "handoff-record-1"   -> ChangedHandoffs(d)
      [] d.schema = "artifact-bundle-1"  -> ChangedBundles(d)

Alter(d, copy) ==
    /\ Cardinality(altered) < MaxAltered
    /\ copy \in Changed(d) \ Held
    /\ altered' = altered \cup {copy}
    /\ UNCHANGED <<built, stored, refused>>

-----------------------------------------------------------------------------
Init == built = {} /\ altered = {} /\ stored = {} /\ refused = {}

Next ==
    \/ \E request \in TransferRequest : CreateTransfer(request)
    \/ \E t \in Of("transfer-package-1", Held), request \in IngestRequest :
          Ingest(t, request)
    \/ \E t \in Of("transfer-package-1", Held), l \in Of("lineage-binding-1", Held),
          h \in Of("handoff-record-1", Held) :
          \E identity \in {t.identity.revision, None}, notes \in Trunks, createdAt \in Times :
              BuildBundle(identity, t, l, h, notes, createdAt)
    \/ \E b \in Of("artifact-bundle-1", Held) : StoreBundle(b)
    \/ \E d \in Held : \E copy \in Changed(d) : Alter(d, copy)

Spec == Init /\ [][Next]_vars

-----------------------------------------------------------------------------
(* What a hash must vouch for *)

\* How often each entry occurs, in whatever order.
Entries(list) == [e \in ToSet(list) |-> Cardinality({i \in DOMAIN list : list[i] = e})]

SameLineage(a, b) ==
    /\ <<a.identity, a.transfer, a.closure, a.execution, a.handoff, a.hash>> =
       <<b.identity, b.transfer, b.closure, b.execution, b.handoff, b.hash>>

SameBindings(a, b) ==
    /\ a.closure = b.closure
    /\ AsText(a.report) = AsText(b.report) /\ AsText(a.record) = AsText(b.record)

SameTransfer(a, b) ==
    /\ AsIdentity(a.identity) = AsIdentity(b.identity)
    /\ SameBindings(a, b)
    /\ Entries(Texts(a.trunk)) = Entries(Texts(b.trunk))
    /\ Entries(Mended(a.actions)) = Entries(Mended(b.actions))

SameHandoff(a, b) ==
    /\ SameBindings(a, b) /\ SameLineage(a.lineage, b.lineage)
    /\ <<a.identity, a.transfer, a.trunk, a.recomputed, a.matches>> =
       <<b.identity, b.transfer, b.trunk, b.recomputed, b.matches>>
    /\ Entries(Mended(a.actions)) = Entries(Mended(b.actions))

SameBundle(a, b) ==
    /\ <<a.package, a.identity, a.invariants, a.transfer>> =
       <<b.package, b.identity, b.invariants, b.transfer>>
    /\ SameLineage(a.lineage, b.lineage) /\ SameHandoff(a.handoff, b.handoff)
    /\ Entries(a.notes) = Entries(b.notes)

Same(a, b) ==
    /\ a.schema = b.schema
    /\ CASE a.schema = "transfer-package-1" -> SameTransfer(a, b)
         [] a.schema = "lineage-binding-1"  -> SameLineage(a, b)
         [] a.schema = "handoff-record-1"   -> SameHandoff(a, b)
         [] a.schema = "artifact-bundle-1"  -> SameBundle(a, b)

\* Whatever the server has built verifies, also a handoff that was made of a
\* package with its lists in another order, but not one whose package had an
\* entry in its trunk that is no string. A changed copy that verifies says what a
\* built document says, up to the order of lists, the times, the note of what is
\* missing, and the values of another type that a normaliser drops or replaces: a
\* package that has gained such a value verifies although it was changed.
VerifiedIsAsBuilt ==
    /\ \A d \in built :
          Matches(d) \/ (d.schema = "handoff-record-1" /\ ~ ToSet(d.trunk) \subseteq Text)
    /\ \A d \in altered : Matches(d) => \E b \in built : Same(d, b)

\* The verify of a bundle looks at none of its parts. When they verify too, and
\* the bundle records all invariants, its package, its lineage binding and its
\* handoff record are about one package as the server built it. The package may
\* have gained values of another type, which its hash does not see, besides what
\* the handoff says.
BundleIsOfOneTransfer ==
    \A b \in Of("artifact-bundle-1", Held) :
        LET t == b.transfer  h == b.handoff IN
        /\ BundleMatches(b) /\ \A code \in DOMAIN b.invariants : b.invariants[code]
        /\ TransferMatches(t) /\ LineageMatches(b.lineage) /\ HandoffMatches(h)
        =>
        /\ t.hash = h.transfer /\ t.hash = b.lineage.transfer
        /\ t.identity = h.identity /\ t.identity = b.lineage.identity
        /\ Entries(Texts(t.trunk)) = Entries(h.trunk)
        /\ Entries(Mended(t.actions)) = Entries(Mended(h.actions))

\* A bundle that the server built and nobody changed can be stored.
BuiltBundleIsStored == refused \cap built = {}
=============================================================================
