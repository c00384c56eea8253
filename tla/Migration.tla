------------------------------- MODULE Migration -------------------------------
(***************************************************************************)
(* Migration of a revision and all it rests on from one server's ledger    *)
(* (the source) to another's (the target), with MigrationService and the   *)
(* zip package between them.                                               *)
(*                                                                         *)
(* The export reads the source one awaited lookup at a time while ordinary *)
(* requests store artifacts and revisions; the import stores one bundle or *)
(* revision at a time, may be interrupted and asked again, and races with  *)
(* ordinary requests of the target.  Ordinary requests appear in one step  *)
(* each, as ClosedDag has them; RecordLedger shows that they implement it. *)
(*                                                                         *)
(* Unlike in RecordLedger a bundle hash stands for one document here.      *)
(***************************************************************************)
EXTENDS Naturals, FiniteSets, Functions, SequencesExt

CONSTANTS
    Package,
    Bundle,        \* bundleHash
    Content,       \* bundleHash -> what the stored document holds
    Revision,
    RevisionNode,  \* revisionHash -> what the hash is computed from
    Carrier,       \* revisionHash -> hash of createRevisionCarrierBundle
    SourceBundle,  \* the bundles that ordinary requests store in the source
    TargetBundle,  \* and in the target
    None           \* no revision

\* A carrier that describes no revision, by what is found wrong with it: it is
\* malformed, names another package than the document is of, or gives a revision
\* hash that is not the computed one.
Broken == {"ERR_MIGRATION_INVALID_INPUT", "ERR_MIGRATION_IDENTITY_MISMATCH",
           "ERR_MIGRATION_VERIFY_MISMATCH"}

(***************************************************************************)
(* normal is the hash computed from the normalised document, whose         *)
(* references are sorted and which has no fields but the four of an        *)
(* artifact bundle; carries is the revision that a document of schema      *)
(* artifact.revision.node.v1 describes.                                    *)
(***************************************************************************)
ASSUME ContentType ==
    Content \in [Bundle -> [packageId: Package, references: Seq(Bundle),
                            normal: Bundle, carries: Revision \cup {None} \cup Broken]]

ASSUME NormalIsNormal ==
    \A b \in Bundle :
        LET n == Content[b].normal IN
        Content[n] = [Content[b] EXCEPT !.references = Content[n].references]

ASSUME NodeType ==
    RevisionNode \in [Revision -> [packageId: Package,
                                   parent: Revision \cup {None},
                                   artifacts: Seq(Bundle) \ {<<>>}]]

ASSUME CarrierContent ==
    /\ Carrier \in [Revision -> Bundle]
    /\ \A r \in Revision :
          Content[Carrier[r]] = [packageId |-> RevisionNode[r].packageId,
                                 references |-> <<>>, normal |-> Carrier[r],
                                 carries |-> r]

\* A revision's hash covers its parent's hash: no hash covers itself.
ASSUME ParentsAreOlder ==
    \A S \in SUBSET Revision :
        S # {} => \E r \in S : RevisionNode[r].parent \notin S

ASSUME NotRevisions ==
    None \notin Revision \cup Broken /\ Revision \cap Broken = {}

\* A hash has 64 hexadecimal digits.
ASSUME HashesAreFinite == IsFiniteSet(Bundle) /\ IsFiniteSet(Revision)

VARIABLES
    held,      \* ledger -> the bundles of its artifact table
    revs,      \* ledger -> its revisions
    exporter,  \* the export under way in the source
    package,   \* the zip file
    importer   \* the import under way in the target

vars == <<held, revs, exporter, package, importer>>

Ledger == {"source", "target"}

\* findArtifactByPackageAndHash, artifactExists: a bundle is stored in the
\* package that it names.
HeldIn(l, packageId, b) == b \in held[l] /\ Content[b].packageId = packageId

-----------------------------------------------------------------------------
(* The package *)

NoAnswer == "none"
NoPackage == [root |-> None, lines |-> <<>>, artifactCount |-> 0,
              revisionCount |-> 0, repacked |-> FALSE]

Carries(b) == Content[b].carries # None

\* The revision hashes that the lines of a package carry.
CarriedBy(lines) == {Content[b].carries : b \in {x \in ToSet(lines) : Carries(x)}}

\* sortRevisionsAncestorFirst: from the root along parents while they are in
\* the set, newest first.  A parent that is not in it ends the walk as well.
ChainFrom(root, set) ==
    LET walk[n \in Nat] ==
          IF n = 0 THEN <<root>>
          ELSE LET parent == RevisionNode[Last(walk[n - 1])].parent
               IN  IF parent \in set THEN Append(walk[n - 1], parent) ELSE walk[n - 1]
    IN  walk[Cardinality(set)]

\* What validateParsedPackage finds wrong with line i by itself.
LineFault(lines, i) ==
    LET b == lines[i]
        c == Content[b].carries
    IN  IF \E j \in 1..(i - 1) : lines[j] = b THEN "ERR_MIGRATION_VERIFY_MISMATCH"
        ELSE IF c \in Broken THEN c
        ELSE IF c # None /\ Content[b].packageId # RevisionNode[c].packageId
             THEN "ERR_MIGRATION_IDENTITY_MISMATCH"
        ELSE "ok"

FirstFault(lines) ==
    LET faulty == {i \in DOMAIN lines : LineFault(lines, i) # "ok"}
    IN  IF faulty = {} THEN "ok"
        ELSE LineFault(lines, CHOOSE i \in faulty : \A j \in faulty : i <= j)

ReferencesAreInside(lines) ==
    \A b \in ToSet(lines) : ToSet(Content[b].references) \subseteq ToSet(lines)

\* The carried revisions are the root and all its ancestors, nothing else.
LineIsComplete(root, carried) ==
    LET chain == ChainFrom(root, carried) IN
    /\ root \in carried
    /\ RevisionNode[Last(chain)].parent = None
    /\ ToSet(chain) = carried

ArtifactsAreInside(lines) ==
    \A r \in CarriedBy(lines) : ToSet(RevisionNode[r].artifacts) \subseteq ToSet(lines)

\* Mutant of Verdict: only the manifest is compared with the lines.
VerdictCountsOnly(p) ==
    IF FirstFault(p.lines) # "ok" THEN FirstFault(p.lines)
    ELSE IF \/ p.artifactCount # Len(p.lines)
            \/ p.revisionCount # Cardinality(CarriedBy(p.lines))
         THEN "ERR_MIGRATION_VERIFY_MISMATCH"
    ELSE "ok"

\* Mutant of Verdict: references between artifacts are not followed.
VerdictIgnoresReferences(p) ==
    IF FirstFault(p.lines) # "ok" THEN FirstFault(p.lines)
    ELSE IF ~(/\ LineIsComplete(p.root, CarriedBy(p.lines))
              /\ ArtifactsAreInside(p.lines))
         THEN "ERR_MIGRATION_CLOSURE_INCOMPLETE"
    ELSE IF \/ p.artifactCount # Len(p.lines)
            \/ p.revisionCount # Cardinality(CarriedBy(p.lines))
         THEN "ERR_MIGRATION_VERIFY_MISMATCH"
    ELSE "ok"

\* validateParsedPackage, of verify, of import and of the end of an export.
Verdict(p) ==
    IF FirstFault(p.lines) # "ok" THEN FirstFault(p.lines)
    ELSE IF ~(/\ ReferencesAreInside(p.lines)
              /\ LineIsComplete(p.root, CarriedBy(p.lines))
              /\ ArtifactsAreInside(p.lines))
         THEN "ERR_MIGRATION_CLOSURE_INCOMPLETE"
    ELSE IF \/ p.artifactCount # Len(p.lines)
            \/ p.revisionCount # Cardinality(CarriedBy(p.lines))
         THEN "ERR_MIGRATION_VERIFY_MISMATCH"
    ELSE "ok"

\* A revision and its ancestors.
LineOf == [r \in Revision |-> ToSet(ChainFrom(r, Revision))]

\* What a revision rests on: the artifacts of its line and what they refer to,
\* directly or not.
RestsOn ==
    [r \in Revision |->
        LET Direct == UNION {ToSet(RevisionNode[x].artifacts) : x \in LineOf[r]}
            IsClosed(S) == \A b \in S : ToSet(Content[b].references) \subseteq S
        IN  {b \in Bundle : \A S \in SUBSET Bundle :
                                Direct \subseteq S /\ IsClosed(S) => b \in S}]

-----------------------------------------------------------------------------
(* Ordinary requests *)

\* Bound: one package is written, and the source is of interest until then.
SourceIsOpen == package = NoPackage

\* POST /artifacts in ledger l.
StoreArtifact(l, b) ==
    /\ b \in (IF l = "source" THEN SourceBundle ELSE TargetBundle)
    /\ l = "source" => SourceIsOpen
    /\ b \notin held[l]
    /\ held' = [held EXCEPT ![l] = @ \cup {b}]
    /\ UNCHANGED <<revs, exporter, package, importer>>

\* POST /revisions in ledger l.
StoreRevision(l, r) ==
    LET node == RevisionNode[r] IN
    /\ l = "source" => SourceIsOpen
    /\ r \notin revs[l]
    /\ IsInjective(node.artifacts)
    /\ node.parent # None =>
          node.parent \in revs[l] /\ RevisionNode[node.parent].packageId = node.packageId
    /\ \A i \in DOMAIN node.artifacts : HeldIn(l, node.packageId, node.artifacts[i])
    /\ revs' = [revs EXCEPT ![l] = @ \cup {r}]
    /\ UNCHANGED <<held, exporter, package, importer>>

-----------------------------------------------------------------------------
(* exportMigration: computeClosure, write, verify *)

\* line: the revisions visited, newest first; i: the loop over the artifacts of
\* the last; found: the keys of artifactsByHash; whole: all that the revision
\* rests on was stored when the export began (history).
IdleExporter ==
    [pc |-> "idle", root |-> None, current |-> None, line |-> <<>>, i |-> 0,
     found |-> {}, pending |-> <<>>, whole |-> FALSE, answer |-> NoAnswer]

ExportReply(a) ==
    exporter' = [exporter EXCEPT !.pc = "done", !.answer = a]

BeginExport(root) ==
    /\ SourceIsOpen
    /\ exporter.pc = "idle"
    /\ exporter' = [IdleExporter EXCEPT !.pc = "findRevision", !.root = root,
                        !.current = root,
                        !.whole = RestsOn[root] \subseteq held["source"]]
    /\ UNCHANGED <<held, revs, package, importer>>

\* A revision is read, and its artifacts are next.  One that was visited ends
\* the walk.
FindRevision ==
    /\ exporter.pc = "findRevision"
    /\ IF exporter.current \notin revs["source"]
       THEN ExportReply("ERR_MIGRATION_CLOSURE_INCOMPLETE")
       ELSE IF exporter.current \in ToSet(exporter.line)
       THEN exporter' = [exporter EXCEPT !.pc = "references"]
       ELSE exporter' = [exporter EXCEPT !.pc = "findArtifact", !.i = 1,
                             !.line = Append(@, exporter.current)]
    /\ UNCHANGED <<held, revs, package, importer>>

\* Adds a document that was read to the closure, under its normalised hash, and
\* its references to those to be looked up.
Gathered(e, b) ==
    LET n == Content[b].normal IN
    IF n \in e.found THEN e
    ELSE [e EXCEPT !.found = @ \cup {n}, !.pending = @ \o Content[n].references]

FindArtifact ==
    LET node == RevisionNode[exporter.current]
        b == node.artifacts[exporter.i]
        gathered == Gathered(exporter, b)
    IN
    /\ exporter.pc = "findArtifact"
    /\ IF ~HeldIn("source", node.packageId, b)
       THEN ExportReply("ERR_MIGRATION_CLOSURE_INCOMPLETE")
       ELSE IF exporter.i < Len(node.artifacts)
       THEN exporter' = [gathered EXCEPT !.i = @ + 1]
       ELSE IF node.parent = None
       THEN exporter' = [gathered EXCEPT !.pc = "references"]
       ELSE exporter' = [gathered EXCEPT !.pc = "findRevision", !.current = node.parent]
    /\ UNCHANGED <<held, revs, package, importer>>

\* References whose document was found before are passed over without a lookup.
NoLookupIsLeft == ToSet(exporter.pending) \subseteq exporter.found

IsNextLookup(k) ==
    /\ exporter.pending[k] \notin exporter.found
    /\ \A j \in 1..(k - 1) : exporter.pending[j] \in exporter.found

FindReference(k) ==
    LET b == exporter.pending[k]
        rest == SubSeq(exporter.pending, k + 1, Len(exporter.pending))
    IN
    /\ exporter.pc = "references"
    /\ IsNextLookup(k)
    /\ IF b \notin held["source"]
       THEN ExportReply("ERR_MIGRATION_CLOSURE_INCOMPLETE")
       ELSE IF Content[b].normal # b
       THEN ExportReply("ERR_MIGRATION_VERIFY_MISMATCH")
       ELSE exporter' = Gathered([exporter EXCEPT !.pending = rest], b)
    /\ UNCHANGED <<held, revs, package, importer>>

\* Mutant of WritePackage: carriers that the closure holds already are left out.
WritePackageDeduplicated ==
    LET carriers == {Carrier[r] : r \in ToSet(exporter.line)}
        written == [root |-> exporter.root,
                    lines |-> SetToSeq(exporter.found \cup carriers),
                    artifactCount |-> Cardinality(exporter.found \cup carriers),
                    revisionCount |-> Len(exporter.line), repacked |-> FALSE]
    IN
    /\ exporter.pc = "references"
    /\ NoLookupIsLeft
    /\ package' = written
    /\ ExportReply(Verdict(written))
    /\ UNCHANGED <<held, revs, importer>>

\* No lookup is left: the file is written, one line for each document and each
\* carrier, without an await, and the controller verifies what it wrote.
WritePackage ==
    LET carriers == [i \in DOMAIN exporter.line |-> Carrier[exporter.line[i]]]
        lines == SetToSeq(exporter.found) \o carriers
        written == [root |-> exporter.root, lines |-> lines,
                    artifactCount |-> Len(lines),
                    revisionCount |-> Len(exporter.line), repacked |-> FALSE]
    IN
    /\ exporter.pc = "references"
    /\ NoLookupIsLeft
    /\ package' = written
    /\ ExportReply(Verdict(written))
    /\ UNCHANGED <<held, revs, importer>>

InterruptExport ==
    /\ exporter.pc \notin {"idle", "done"}
    /\ ExportReply("interrupted")
    /\ UNCHANGED <<held, revs, package, importer>>

ReceiveExport ==
    /\ exporter.pc = "done"
    /\ exporter' = IdleExporter
    /\ UNCHANGED <<held, revs, package, importer>>

\* Someone who packs the three plain files of a package again leaves a line
\* out, and counts the lines anew.
Repack(i) ==
    LET lines == RemoveAt(package.lines, i) IN
    /\ ~package.repacked  \* bound: one line is lost
    /\ i \in DOMAIN package.lines
    /\ package' = [package EXCEPT !.lines = lines, !.artifactCount = Len(lines),
                       !.repacked = TRUE,
                       !.revisionCount = Cardinality(CarriedBy(lines))]
    /\ UNCHANGED <<held, revs, exporter, importer>>

-----------------------------------------------------------------------------
(* importMigration *)

\* bundles, chain: what is stored, in this order; i: the next of them.
IdleImporter ==
    [pc |-> "idle", root |-> None, bundles |-> <<>>, chain |-> <<>>, i |-> 0,
     answer |-> NoAnswer]

ImportReply(a) ==
    importer' = [importer EXCEPT !.pc = "done", !.answer = a]

\* The file is read and validated without an await.  Ordinary bundles come
\* first, then carriers, each in the order of their hashes, whatever that is,
\* then revisions, ancestors first.
BeginImport ==
    LET lines == ToSet(package.lines)
        carried == CarriedBy(package.lines)
    IN
    /\ importer.pc = "idle"
    /\ package # NoPackage
    /\ importer' =
         IF Verdict(package) # "ok"
         THEN [IdleImporter EXCEPT !.pc = "done", !.answer = Verdict(package)]
         ELSE [IdleImporter EXCEPT
                 !.pc = "storeBundle", !.root = package.root, !.i = 1,
                 !.bundles = SetToSeq({b \in lines : ~Carries(b)})
                             \o SetToSeq({b \in lines : Carries(b)}),
                 !.chain = Reverse(ChainFrom(package.root, carried))]
    /\ UNCHANGED <<held, revs, exporter, package>>

\* storeArtifactBundle: whether the bundle is there or not, it is there after.
StoreBundle ==
    /\ importer.pc = "storeBundle"
    /\ held' = [held EXCEPT !["target"] = @ \cup {importer.bundles[importer.i]}]
    /\ importer' = IF importer.i < Len(importer.bundles)
                   THEN [importer EXCEPT !.i = @ + 1]
                   ELSE [importer EXCEPT !.pc = "findStored", !.i = 1]
    /\ UNCHANGED <<revs, exporter, package>>

\* The loop of the import goes on to the next revision, or is done.
NextRevision ==
    IF importer.i < Len(importer.chain)
    THEN importer' = [importer EXCEPT !.pc = "findStored", !.i = @ + 1]
    ELSE ImportReply("ok")

\* createRevision up to its last lookup.  Nothing that it finds goes away, so
\* its lookups are one step.
FindStored ==
    LET r == importer.chain[importer.i]
        node == RevisionNode[r]
    IN
    /\ importer.pc = "findStored"
    /\ IF node.parent # None /\ node.parent \notin revs["target"]
       THEN ImportReply("ERR_REVISION_PARENT_NOT_FOUND")
       ELSE IF node.parent # None /\ RevisionNode[node.parent].packageId # node.packageId
       THEN ImportReply("ERR_REVISION_PARENT_PACKAGE_MISMATCH")
       ELSE IF \E j \in DOMAIN node.artifacts :
                   ~HeldIn("target", node.packageId, node.artifacts[j])
       THEN ImportReply("ERR_ARTIFACT_NOT_FOUND")
       ELSE IF r \in revs["target"] THEN NextRevision
       ELSE importer' = [importer EXCEPT !.pc = "insertRevision"]
    /\ UNCHANGED <<held, revs, exporter, package>>

\* Mutant of InsertRevision: the chain is stored from its other end.
InsertRevisionRootFirst ==
    LET r == importer.chain[Len(importer.chain) + 1 - importer.i] IN
    /\ importer.pc = "insertRevision"
    /\ IF r \in revs["target"]
       THEN ImportReply("P2002") /\ UNCHANGED revs
       ELSE NextRevision /\ revs' = [revs EXCEPT !["target"] = @ \cup {r}]
    /\ UNCHANGED <<held, exporter, package>>

\* createRevision's transaction: another request may have stored the revision
\* since the lookup.
InsertRevision ==
    LET r == importer.chain[importer.i] IN
    /\ importer.pc = "insertRevision"
    /\ IF r \in revs["target"]
       THEN ImportReply("P2002") /\ UNCHANGED revs
       ELSE NextRevision /\ revs' = [revs EXCEPT !["target"] = @ \cup {r}]
    /\ UNCHANGED <<held, exporter, package>>

InterruptImport ==
    /\ importer.pc \notin {"idle", "done"}
    /\ ImportReply("interrupted")
    /\ UNCHANGED <<held, revs, exporter, package>>

ReceiveImport ==
    /\ importer.pc = "done"
    /\ importer' = IdleImporter
    /\ UNCHANGED <<held, revs, exporter, package>>

-----------------------------------------------------------------------------
Init ==
    /\ held = [l \in Ledger |-> {}]
    /\ revs = [l \in Ledger |-> {}]
    /\ exporter = IdleExporter
    /\ package = NoPackage
    /\ importer = IdleImporter

Next ==
    \/ \E l \in Ledger, b \in Bundle : StoreArtifact(l, b)
    \/ \E l \in Ledger, r \in Revision : StoreRevision(l, r)
    \/ \E r \in Revision : BeginExport(r)
    \/ FindRevision
    \/ FindArtifact
    \/ \E k \in DOMAIN exporter.pending : FindReference(k)
    \/ WritePackage
    \/ InterruptExport
    \/ ReceiveExport
    \/ \E i \in DOMAIN package.lines : Repack(i)
    \/ BeginImport
    \/ StoreBundle
    \/ FindStored
    \/ InsertRevision
    \/ InterruptImport
    \/ ReceiveImport

Spec == Init /\ [][Next]_vars

-----------------------------------------------------------------------------
(* Properties *)

\* Nothing the revision rests on changes when it is normalised, and nothing is
\* itself the carrier of a revision.
IsPlain(r) ==
    \A b \in RestsOn[r] : Content[b].normal = b /\ ~Carries(b)

\* A document describes a revision of the line, but is not the carrier that
\* the export makes of it: it names references, say.
Retells(b, r) ==
    LET c == Content[b].carries IN
    /\ c \in LineOf[r] /\ b # Carrier[c]
    /\ Content[b].packageId = RevisionNode[c].packageId

\* An export (MigrationService.exportMigrationPackage and the controller's
\* verification of the file) succeeds only if nothing that the revision rests
\* on changes when it is normalised or describes another revision, and then
\* the package holds all of it.  It fails the verification, the comparison of
\* identities or the reading of a carrier only if the revision is not plain; it calls the closure
\* incomplete only if the revision was missing, is not plain, or rests on
\* something that was not stored when the export began.  Requests that are
\* served meanwhile do no harm.
ExportVerdictIsExact ==
    /\ exporter.answer = "ok" =>
          \A b \in RestsOn[exporter.root] :
              /\ b \in held["source"]
              /\ package.repacked \/ b \in ToSet(package.lines)
              /\ Content[b].normal = b
              /\ Carries(b) => Retells(b, exporter.root)
    /\ exporter.answer \in Broken => ~IsPlain(exporter.root)
    /\ exporter.answer = "ERR_MIGRATION_CLOSURE_INCOMPLETE" =>
          \/ exporter.line = <<>>
          \/ ~IsPlain(exporter.root)
          \/ ~exporter.whole

\* An import that is answered "ok" leaves in the target the root, its
\* ancestors, a document that describes each, and all they rest on, also when
\* the package was packed again and when the import repeats one that was
\* interrupted.
ImportedIsWhole ==
    importer.answer = "ok" =>
        /\ LineOf[importer.root] \subseteq revs["target"]
        /\ LineOf[importer.root] \subseteq {Content[b].carries : b \in held["target"]}
        /\ RestsOn[importer.root] \subseteq held["target"]

\* An import whose package was accepted is never refused by the ledger later,
\* with half of it stored: it completes, is interrupted, or meets another
\* request that stores the same revision between its lookup and its insert.
AcceptedImportCompletes ==
    importer.pc = "done" /\ importer.bundles # <<>> =>
        importer.answer \in {"ok", "interrupted", "P2002"}

\* The target's ledger, as ClosedDag sees it.
Document(b) == [packageId |-> Content[b].packageId, bundleHash |-> b, payload |-> b]

ASSUME NoneIsNoDocument == \A b \in Bundle : Document(b) # None

Target == INSTANCE ClosedDag WITH
    Payload <- Bundle,
    Doc <- {Document(b) : b \in Bundle},
    ExecutionId <- {}, Call <- {}, Result <- {}, Run <- {},
    artifacts <- [k \in Package \X Bundle |->
                     IF HeldIn("target", k[1], k[2]) THEN Document(k[2]) ELSE None],
    revisions <- revs["target"],
    executions <- <<>>

\* Whatever is imported, however often, interrupted anywhere and among ordinary
\* requests, the target remains the append-only closed ledger of ClosedDag.
TargetIsClosedDag == Target!Spec
=============================================================================
