-------------------------- MODULE TaskPackagesProofs --------------------------
(***************************************************************************)
(* The safety properties of TaskPackages for any number of clients,        *)
(* packages, payloads and requests. The point of the argument: a number is  *)
(* read as the count of the committed revisions, the count only grows, and  *)
(* an insert that meets no row with its number has therefore the count of   *)
(* that moment; it keeps it until its commit, because every other insert    *)
(* with that number waits.                                                 *)
(***************************************************************************)
EXTENDS TaskPackages, FiniteSetTheorems, TLAPS

Count(p) == Cardinality(RevisionsOf(p))

Revs(p) == {rows[r].rev : r \in RevisionsOf(p)}

\* Requests that may yet store a row.
Pending == {c \in Client : job[c].op = "create" /\ pc[c] # "done"}

BoundOK == Len(rows) + Cardinality(Pending) <= MaxRevisions

HashesUnique ==
    \A r, s \in DOMAIN rows :
        /\ rows[r].packageId = rows[s].packageId
        /\ rows[r].revisionHash = rows[s].revisionHash
        => r = s

\* Only a package that exists has revisions.
OwnedOnly == \A p \in Package : owner[p] = None => RevisionsOf(p) = {}

StoreInv ==
    /\ RevsAreDense
    /\ HashesUnique
    /\ LineageDescends
    /\ OwnedOnly
    /\ CurrentIsOwn

-----------------------------------------------------------------------------
(* What a handler knows *)

CreateStatements == {"begin", "findByHash", "useExisting", "commitExisting", "readMax",
                     "checkParent", "insert", "reference", "setPointer", "commit",
                     "recover", "recoverCurrent"}
SetStatements == {"findTarget", "updateCurrent"}

\* The request belongs to the statement, past the first lookup its package
\* exists and is the caller's, and a client without a request starts from nothing.
RightStatement(c) ==
    /\ pc[c] = "idle" => job[c] = NoJob /\ tx[c] = NoLocal
    /\ pc[c] # "idle" => job[c] \in CreateJob \cup SetJob
    /\ pc[c] \in CreateStatements => job[c] \in CreateJob
    /\ pc[c] \in SetStatements => job[c] \in SetJob
    /\ pc[c] \in CreateStatements \cup SetStatements =>
          owner[job[c].packageId] # None /\ owner[job[c].packageId] = job[c].user

\* The rows it has found, and that it may move the pointer.
RowsFound(c) ==
    /\ pc[c] \in {"useExisting", "commitExisting", "recover", "recoverCurrent"} =>
          WithHash(job[c].packageId, job[c].payload) # {}
    /\ pc[c] \in {"useExisting", "commitExisting", "recoverCurrent"} => job[c].setCurrent
    /\ pc[c] = "updateCurrent" => job[c].id \in RevisionsOf(job[c].packageId)
    /\ pc[c] \in {"insert"} \cup Inserted /\ tx[c].parent # None =>
          tx[c].parent \in RevisionsOf(job[c].packageId)

\* Revisions that were committed since the request began: at least one for a
\* second attempt, two for a request that is told to give up.
Beaten(c) ==
    /\ pc[c] # "idle" => begun[c] + tx[c].attempt <= Count(job[c].packageId)
    /\ pc[c] \in {"checkParent", "insert"} \cup Inserted =>
          /\ tx[c].nextRev <= Count(job[c].packageId)
          /\ begun[c] + tx[c].attempt <= tx[c].nextRev
    /\ answer[c] = "CONFLICT_RETRY_EXHAUSTED" =>
          begun[c] + 2 <= Count(job[c].packageId)

TrueAnswer(c) ==
    /\ pc[c] # "done" => answer[c] = None
    /\ answer[c] = "ok" /\ job[c].op = "create" =>
          WithHash(job[c].packageId, job[c].payload) # {}

Knows(c) == RightStatement(c) /\ RowsFound(c) /\ Beaten(c) /\ TrueAnswer(c)

\* A row that waits for its commit is the next of its package, and the only one.
IsNext(c) ==
    pc[c] \in Inserted =>
        /\ tx[c].nextRev = Count(job[c].packageId)
        /\ WithHash(job[c].packageId, job[c].payload) = {}
        /\ \A d \in Client \ {c} :
              pc[d] \in Inserted => job[d].packageId # job[c].packageId

PackagesInv ==
    /\ TypeOK
    /\ BoundOK
    /\ StoreInv
    /\ \A c \in Client : Knows(c) /\ IsNext(c)

-----------------------------------------------------------------------------
(* Requests and rows *)

\* The kind of a request is told by its op.
LEMMA JobKinds ==
    /\ \A j \in CreateJob :
          /\ j.op = "create" /\ j.packageId \in Package /\ j.payload \in Payload
          /\ j.parent \in RevisionId \cup {None, Unset}
    /\ \A j \in SetJob : j.op = "set" /\ j.packageId \in Package /\ j.id \in RevisionId
    /\ \A j \in ImportJob :
          j.op = "import" /\ j.packageId \in Package /\ j.payload \in Payload /\ j.user \in User
    /\ NoJob.op = "none"
BY DEF CreateJob, SetJob, ImportJob, NoJob

\* The ids of the stored rows.
LEMMA RowIds ==
    ASSUME TypeOK
    PROVE  /\ Len(rows) \in Nat
           /\ DOMAIN rows = 1..Len(rows)
           /\ DOMAIN rows \subseteq RevisionId
           /\ \A r \in DOMAIN rows : rows[r] \in Row /\ r \in Nat
<1>1. rows \in Seq(Row) /\ Len(rows) <= MaxRevisions
    BY DEF TypeOK
<1>2. Len(rows) \in Nat /\ DOMAIN rows = 1..Len(rows)
    BY <1>1
<1>3. \A r \in DOMAIN rows : rows[r] \in Row /\ r \in Nat
    BY <1>1, <1>2
<1> QED
    BY <1>1, <1>2, <1>3, Sentinels DEF RevisionId

\* The revisions of a package are finitely many.
LEMMA RevisionsFinite ==
    ASSUME TypeOK, NEW p
    PROVE  /\ IsFiniteSet(RevisionsOf(p))
           /\ Count(p) \in Nat
           /\ Count(p) <= Len(rows)
           /\ Count(p) = 0 <=> RevisionsOf(p) = {}
<1>1. IsFiniteSet(1..Len(rows)) /\ Cardinality(1..Len(rows)) = Len(rows)
    BY RowIds, FS_Interval
<1>2. RevisionsOf(p) \in SUBSET (1..Len(rows))
    BY RowIds DEF RevisionsOf
<1>3. IsFiniteSet(RevisionsOf(p)) /\ Count(p) <= Len(rows)
    BY <1>1, <1>2, FS_Subset DEF Count
<1>4. Count(p) \in Nat
    BY <1>3, FS_CardinalityType DEF Count
<1> QED
    BY <1>3, <1>4, FS_EmptySet DEF Count

\* The number of a revision is below their count, and every number below the
\* count is taken.
LEMMA NumbersTaken ==
    ASSUME TypeOK, RevsAreDense, NEW p \in Package
    PROVE  /\ \A r \in RevisionsOf(p) : rows[r].rev \in Nat /\ rows[r].rev < Count(p)
           /\ \A n \in Nat : n < Count(p) => \E r \in RevisionsOf(p) : rows[r].rev = n
<1>1. {rows[r].rev : r \in RevisionsOf(p)} = 0..(Count(p) - 1)
    BY DEF RevsAreDense, Count
<1>2. Count(p) \in Nat
    BY RevisionsFinite
<1>3. \A r \in RevisionsOf(p) : rows[r].rev \in 0..(Count(p) - 1)
    BY <1>1
<1>4. ASSUME NEW n \in Nat, n < Count(p)
      PROVE  \E r \in RevisionsOf(p) : rows[r].rev = n
    <2>1. n \in 0..(Count(p) - 1)
        BY <1>2, <1>4
    <2> QED
        BY <1>1, <2>1
<1> QED
    BY <1>2, <1>3, <1>4

\* The number that readMax computes is the count of the committed revisions.
LEMMA NextRevIsCount ==
    ASSUME TypeOK, RevsAreDense, NEW p \in Package
    PROVE  NextRev(p) = Count(p)
<1> DEFINE Fits(n) == /\ \A r \in RevisionsOf(p) : rows[r].rev < n
                      /\ n > 0 => \E r \in RevisionsOf(p) : rows[r].rev = n - 1
<1>1. Count(p) \in 0..Len(rows)
    BY RowIds, RevisionsFinite
<1>2. Fits(Count(p))
    <2>1. Count(p) > 0 => Count(p) - 1 \in Nat /\ Count(p) - 1 < Count(p)
        BY <1>1
    <2> QED
        BY <2>1, NumbersTaken
<1>3. ASSUME NEW n \in 0..Len(rows), Fits(n) PROVE n = Count(p)
    <2>1. n <= Count(p)
        <3>1. CASE n = 0
            BY <3>1, <1>1
        <3>2. CASE n > 0
            <4>1. PICK r \in RevisionsOf(p) : rows[r].rev = n - 1
                BY <1>3, <3>2
            <4>2. n - 1 < Count(p)
                BY <4>1, NumbersTaken
            <4> QED
                BY <4>2, <1>1, <1>3
        <3> QED
            BY <3>1, <3>2
    <2>2. ~(n < Count(p))
        <3>1. SUFFICES ASSUME n < Count(p) PROVE FALSE
            OBVIOUS
        <3>2. PICK r \in RevisionsOf(p) : rows[r].rev = n
            BY <3>1, NumbersTaken
        <3> QED
            BY <1>3, <3>2
    <2> QED
        BY <1>1, <2>1, <2>2
<1>4. NextRev(p) = CHOOSE n \in 0..Len(rows) : Fits(n)
    BY DEF NextRev
<1> HIDE DEF Fits
<1> QED
    BY <1>1, <1>2, <1>3, <1>4

-----------------------------------------------------------------------------
(* A row is added *)

\* The rows after an append.
LEMMA AppendRow ==
    ASSUME TypeOK, NEW x \in Row, rows' = Append(rows, x)
    PROVE  /\ rows' \in Seq(Row)
           /\ Len(rows') = Len(rows) + 1
           /\ DOMAIN rows' = DOMAIN rows \cup {Len(rows) + 1}
           /\ Len(rows) + 1 \notin DOMAIN rows
           /\ \A r \in DOMAIN rows : rows'[r] = rows[r]
           /\ rows'[Len(rows) + 1] = x
<1>1. rows \in Seq(Row)
    BY DEF TypeOK
<1> QED
    BY <1>1, RowIds

\* It is a revision of its own package only.
LEMMA AddedRevision ==
    ASSUME TypeOK, NEW x \in Row, rows' = Append(rows, x), NEW p
    PROVE  /\ p = x.packageId =>
                 /\ RevisionsOf(p)' = RevisionsOf(p) \cup {Len(rows) + 1}
                 /\ Count(p)' = Count(p) + 1
           /\ p # x.packageId =>
                 RevisionsOf(p)' = RevisionsOf(p) /\ Count(p)' = Count(p)
<1>1. p = x.packageId => RevisionsOf(p)' = RevisionsOf(p) \cup {Len(rows) + 1}
    BY AppendRow DEF RevisionsOf
<1>2. p # x.packageId => RevisionsOf(p)' = RevisionsOf(p)
    BY AppendRow DEF RevisionsOf
<1>3. Len(rows) + 1 \notin RevisionsOf(p)
    BY AppendRow DEF RevisionsOf
<1>4. IsFiniteSet(RevisionsOf(p))
    BY RevisionsFinite
<1>5. Cardinality(RevisionsOf(p) \cup {Len(rows) + 1}) = Count(p) + 1
    BY <1>3, <1>4, FS_AddElement DEF Count
<1> QED
    BY <1>1, <1>2, <1>5 DEF Count

\* A row with the next number, a new payload and a parent of its package keeps
\* the revisions as they must be.
LEMMA GoodRow ==
    ASSUME TypeOK, RevsAreDense, HashesUnique, LineageDescends,
           NEW x \in Row, rows' = Append(rows, x),
           x.packageId \in Package,
           x.rev = Count(x.packageId),
           WithHash(x.packageId, x.revisionHash) = {},
           x.parent # None => x.parent \in RevisionsOf(x.packageId)
    PROVE  RevsAreDense' /\ HashesUnique' /\ LineageDescends'
<1> DEFINE last == Len(rows) + 1
<1>1. RevsAreDense'
    <2> SUFFICES ASSUME NEW p \in Package
                 PROVE  {rows'[r].rev : r \in RevisionsOf(p)'} = 0..(Count(p)' - 1)
        BY DEF RevsAreDense, Count
    <2>1. \A r \in RevisionsOf(p) : rows'[r] = rows[r]
        BY AppendRow DEF RevisionsOf
    <2>2. /\ Count(p) \in Nat
          /\ \A r \in RevisionsOf(p) : rows[r].rev \in Nat /\ rows[r].rev < Count(p)
          /\ \A n \in Nat : n < Count(p) => \E r \in RevisionsOf(p) : rows[r].rev = n
        BY RevisionsFinite, NumbersTaken
    <2>3. /\ \A r \in RevisionsOf(p)' : rows'[r].rev \in Nat /\ rows'[r].rev < Count(p)'
          /\ \A n \in Nat : n < Count(p)' => \E r \in RevisionsOf(p)' : rows'[r].rev = n
        <3>1. CASE p # x.packageId
            <4>1. RevisionsOf(p)' = RevisionsOf(p) /\ Count(p)' = Count(p)
                BY <3>1, AddedRevision
            <4> QED
                BY <2>1, <2>2, <4>1
        <3>2. CASE p = x.packageId
            <4>1. RevisionsOf(p)' = RevisionsOf(p) \cup {last} /\ Count(p)' = Count(p) + 1
                BY <3>2, AddedRevision
            <4>2. rows'[last].rev = Count(p)
                BY <3>2, AppendRow
            <4> HIDE DEF last
            <4>3. ASSUME NEW r \in RevisionsOf(p)'
                  PROVE  rows'[r].rev \in Nat /\ rows'[r].rev < Count(p)'
                <5>1. CASE r = last
                    <6>1. rows'[r].rev = Count(p)
                        BY <4>2, <5>1
                    <6>2. Count(p) \in Nat /\ Count(p)' = Count(p) + 1
                        BY <2>2, <4>1
                    <6> QED
                        BY <6>1, <6>2
                <5>2. CASE r \in RevisionsOf(p)
                    <6>1. rows'[r].rev = rows[r].rev
                        BY <2>1, <5>2
                    <6> QED
                        BY <2>2, <4>1, <5>2, <6>1
                <5> QED
                    BY <4>1, <5>1, <5>2
            <4>4. ASSUME NEW n \in Nat, n < Count(p)'
                  PROVE  \E r \in RevisionsOf(p)' : rows'[r].rev = n
                <5>1. CASE n = Count(p)
                    BY <4>1, <4>2, <5>1
                <5>2. CASE n # Count(p)
                    <6>1. n < Count(p)
                        BY <2>2, <4>1, <4>4, <5>2
                    <6>2. PICK r \in RevisionsOf(p) : rows[r].rev = n
                        BY <2>2, <6>1
                    <6> QED
                        BY <2>1, <4>1, <6>2
                <5> QED
                    BY <5>1, <5>2
            <4> QED
                BY <4>3, <4>4
        <3> QED
            BY <3>1, <3>2
    <2>4. Count(p)' \in Nat
        BY <2>2, AddedRevision
    <2>5. ASSUME NEW n \in 0..(Count(p)' - 1) PROVE n \in Nat /\ n < Count(p)'
        BY <2>4
    <2>6. ASSUME NEW n \in Nat, n < Count(p)' PROVE n \in 0..(Count(p)' - 1)
        BY <2>4, <2>6
    <2> QED
        BY <2>3, <2>5, <2>6
<1>2. HashesUnique'
    <2> SUFFICES ASSUME NEW r \in DOMAIN rows', NEW s \in DOMAIN rows',
                        rows'[r].packageId = rows'[s].packageId,
                        rows'[r].revisionHash = rows'[s].revisionHash
                 PROVE  r = s
        BY DEF HashesUnique
    <2>1. \A i \in DOMAIN rows : ~(/\ rows[i].packageId = x.packageId
                                   /\ rows[i].revisionHash = x.revisionHash)
        BY DEF WithHash, RevisionsOf
    <2>2. CASE r \in DOMAIN rows /\ s \in DOMAIN rows
        <3>1. rows'[r] = rows[r] /\ rows'[s] = rows[s]
            BY <2>2, AppendRow
        <3> QED
            BY <2>2, <3>1 DEF HashesUnique
    <2>3. CASE r \notin DOMAIN rows \/ s \notin DOMAIN rows
        <3>1. \A i \in DOMAIN rows : rows'[i] = rows[i]
            BY AppendRow
        <3>2. DOMAIN rows' = DOMAIN rows \cup {last} /\ rows'[last] = x
            BY AppendRow
        <3> QED
            BY <2>1, <2>3, <3>1, <3>2
    <2> QED
        BY <2>2, <2>3
<1>3. LineageDescends'
    <2> SUFFICES ASSUME NEW r \in DOMAIN rows', rows'[r].parent # None
                 PROVE  LET parent == rows'[r].parent IN
                        /\ parent \in DOMAIN rows'
                        /\ rows'[parent].packageId = rows'[r].packageId
                        /\ rows'[parent].rev < rows'[r].rev
        BY DEF LineageDescends, RevisionsOf
    <2>1. \A i \in DOMAIN rows : i \in DOMAIN rows' /\ rows'[i] = rows[i]
        BY AppendRow
    <2>2. CASE r \in DOMAIN rows
        <3>1. rows'[r] = rows[r]
            BY <2>1, <2>2
        <3>2. /\ rows[r].parent \in DOMAIN rows
              /\ rows[rows[r].parent].packageId = rows[r].packageId
              /\ rows[rows[r].parent].rev < rows[r].rev
            BY <2>2, <3>1 DEF LineageDescends, RevisionsOf
        <3> QED
            BY <2>1, <3>1, <3>2
    <2>3. CASE r = last
        <3>1. rows'[r] = x
            BY <2>3, AppendRow
        <3>2. x.parent \in RevisionsOf(x.packageId)
            BY <3>1
        <3>3. rows[x.parent].rev < x.rev
            BY <3>2, NumbersTaken
        <3>4. x.parent \in DOMAIN rows /\ rows[x.parent].packageId = x.packageId
            BY <3>2 DEF RevisionsOf
        <3> QED
            BY <2>1, <3>1, <3>3, <3>4
    <2> QED
        BY <2>2, <2>3, AppendRow
<1> QED
    BY <1>1, <1>2, <1>3

-----------------------------------------------------------------------------
(* The store grows *)

\* Rows stay as they are, and packages stay their owner's.
Grows ==
    /\ \A r \in DOMAIN rows : r \in DOMAIN rows' /\ rows'[r] = rows[r]
    /\ \A p \in Package : owner[p] # None => owner'[p] = owner[p]

\* Rows found stay found, and counts only grow.
LEMMA FoundStays ==
    ASSUME TypeOK, TypeOK', Grows, NEW p
    PROVE  /\ RevisionsOf(p) \subseteq RevisionsOf(p)'
           /\ Count(p) \in Nat /\ Count(p)' \in Nat /\ Count(p) <= Count(p)'
           /\ \A h : WithHash(p, h) # {} => WithHash(p, h)' # {}
<1>1. RevisionsOf(p) \subseteq RevisionsOf(p)'
    BY DEF Grows, RevisionsOf
<1>2. Count(p) \in Nat /\ IsFiniteSet(RevisionsOf(p))
    BY RevisionsFinite
<1>3. IsFiniteSet(RevisionsOf(p)')
    <2>1. Len(rows') \in Nat /\ DOMAIN rows' = 1..Len(rows')
        BY DEF TypeOK
    <2>2. IsFiniteSet(1..Len(rows'))
        BY <2>1, FS_Interval
    <2>3. RevisionsOf(p)' \in SUBSET (1..Len(rows'))
        BY <2>1 DEF RevisionsOf
    <2> QED
        BY <2>2, <2>3, FS_Subset
<1>4. Count(p)' \in Nat /\ Count(p) <= Count(p)'
    BY <1>1, <1>3, FS_CardinalityType, FS_Subset DEF Count
<1>5. ASSUME NEW h, WithHash(p, h) # {} PROVE WithHash(p, h)' # {}
    <2>1. PICK r \in RevisionsOf(p) : rows[r].revisionHash = h
        BY <1>5 DEF WithHash
    <2>2. r \in RevisionsOf(p)' /\ rows'[r].revisionHash = h
        BY <1>1, <2>1 DEF Grows, RevisionsOf
    <2> QED
        BY <2>2 DEF WithHash
<1> QED
    BY <1>1, <1>2, <1>4, <1>5

\* The request of a client that does not move.
Same(c) ==
    /\ pc'[c] = pc[c]
    /\ job'[c] = job[c]
    /\ tx'[c] = tx[c]
    /\ answer'[c] = answer[c]
    /\ begun'[c] = begun[c]

\* While the store grows, a client that does not move keeps what it knows.
LEMMA OthersKnow ==
    ASSUME TypeOK, TypeOK', Grows, NEW c \in Client, Knows(c), Same(c)
    PROVE  Knows(c)'
<1>1. PICK p : p = job[c].packageId
    OBVIOUS
<1>2. /\ RevisionsOf(p) \subseteq RevisionsOf(p)'
      /\ Count(p) \in Nat /\ Count(p)' \in Nat /\ Count(p) <= Count(p)'
      /\ \A h : WithHash(p, h) # {} => WithHash(p, h)' # {}
    BY FoundStays
<1>3. /\ pc'[c] = pc[c] /\ job'[c] = job[c] /\ tx'[c] = tx[c]
      /\ answer'[c] = answer[c] /\ begun'[c] = begun[c]
      /\ job'[c].packageId = p
    BY <1>1 DEF Same
<1>4. RightStatement(c)'
    <2>1. RightStatement(c)
        BY DEF Knows
    <2>2. p \in Package /\ owner[p] # None => owner'[p] = owner[p]
        BY DEF Grows
    <2>3. pc[c] \in CreateStatements \cup SetStatements => p \in Package
        BY <1>1, <2>1, JobKinds DEF RightStatement
    <2> QED
        BY <1>1, <1>3, <2>1, <2>2, <2>3 DEF RightStatement
<1>5. RowsFound(c)'
    <2>1. RowsFound(c)
        BY DEF Knows
    <2> QED
        BY <1>1, <1>2, <1>3, <2>1 DEF RowsFound
<1>6. Beaten(c)'
    <2>1. Beaten(c)
        BY DEF Knows
    <2>2. begun[c] \in Nat /\ tx[c] \in Local
        BY DEF TypeOK
    <2>3. tx[c].attempt \in Nat /\ tx[c].nextRev \in Nat
        BY <2>2 DEF Local
    <2> QED
        BY <1>1, <1>2, <1>3, <2>1, <2>2, <2>3 DEF Beaten
<1>7. TrueAnswer(c)'
    <2>1. TrueAnswer(c)
        BY DEF Knows
    <2> QED
        BY <1>1, <1>2, <1>3, <2>1 DEF TrueAnswer
<1> QED
    BY <1>4, <1>5, <1>6, <1>7 DEF Knows

-----------------------------------------------------------------------------
(* Steps keep the types *)

\* The types of what control changes.
ControlOK ==
    /\ pc \in [Client -> Statements \cup {"idle", "done"}]
    /\ tx \in [Client -> Local]
    /\ answer \in [Client -> Answers \cup {None}]

\* An answer keeps the types of control.
LEMMA ReplyTypes ==
    ASSUME TypeOK, NEW c \in Client, NEW a \in Answers, Reply(c, a)
    PROVE  ControlOK'
<1>1. NoLocal \in Local
    BY DEF NoLocal, Local
<1> QED
    BY <1>1 DEF TypeOK, Reply, ControlOK

\* So does going on to the next statement,
LEMMA GotoTypes ==
    ASSUME TypeOK, NEW c \in Client, NEW s \in Statements, Goto(c, s)
    PROVE  ControlOK'
BY DEF TypeOK, Goto, ControlOK

\* also with new values of the local variables,
LEMMA GotoWithTypes ==
    ASSUME TypeOK, NEW c \in Client, NEW s \in Statements, NEW local \in Local,
           GotoWith(c, s, local)
    PROVE  ControlOK'
BY DEF TypeOK, GotoWith, ControlOK

\* and the second attempt or its refusal.
LEMMA RevConflictTypes ==
    ASSUME TypeOK, NEW c \in Client, RevConflict(c)
    PROVE  ControlOK'
<1>1. [NoLocal EXCEPT !.attempt = 1] \in Local
    BY DEF NoLocal, Local
<1>2. "begin" \in Statements /\ "CONFLICT_RETRY_EXHAUSTED" \in Answers
    BY DEF Statements, Answers
<1> QED
    BY <1>1, <1>2, ReplyTypes, GotoWithTypes DEF RevConflict

\* A statement that only reads keeps all types.
LEMMA ReadTypes ==
    ASSUME TypeOK, ControlOK', UNCHANGED <<stored, job, begun>>
    PROVE  TypeOK'
BY DEF TypeOK, ControlOK, stored

\* So does the end of a request.
LEMMA LeaveTypes ==
    ASSUME TypeOK, NEW c \in Client, Leave(c), UNCHANGED stored
    PROVE  TypeOK'
<1>1. NoLocal \in Local
    BY DEF NoLocal, Local
<1> QED
    BY <1>1 DEF TypeOK, Leave, stored

\* The request of a client that stands at a statement.
LEMMA JobType ==
    ASSUME PackagesInv, NEW c \in Client
    PROVE  /\ pc[c] \in CreateStatements => job[c] \in CreateJob
           /\ pc[c] \in SetStatements => job[c] \in SetJob
           /\ pc[c] # "idle" => job[c].packageId \in Package
<1>1. RightStatement(c)
    BY DEF PackagesInv, Knows
<1> QED
    BY <1>1, JobKinds DEF RightStatement

\* A request to create stores a row whose fields have their types.
LEMMA NewRowType ==
    ASSUME PackagesInv, NEW c \in Client, pc[c] \in CreateStatements
    PROVE  NewRow(c) \in Row
<1>1. job[c].packageId \in Package /\ job[c].payload \in Payload
    BY JobType, JobKinds
<1>2. tx[c].nextRev \in Nat /\ tx[c].parent \in RevisionId \cup {None}
    <2>1. tx[c] \in Local
        BY DEF PackagesInv, TypeOK
    <2> QED
        BY <2>1 DEF Local
<1> QED
    BY <1>1, <1>2 DEF NewRow, Row

\* Pending is finite.
LEMMA PendingFinite ==
    /\ IsFiniteSet(Pending)
    /\ Cardinality(Pending) \in Nat
<1>1. Pending \in SUBSET Client
    BY DEF Pending
<1> QED
    BY <1>1, FiniteClients, FS_Subset, FS_CardinalityType

\* There is room for one more row while a request or a package may store it.
LEMMA RoomForRow ==
    ASSUME PackagesInv,
           Reserved < MaxRevisions \/ \E c \in Client : pc[c] = "commit"
    PROVE  Len(rows) + 1 <= MaxRevisions /\ Len(rows) + 1 \in RevisionId
<1>1. Len(rows) \in Nat /\ BoundOK /\ MaxRevisions \in Nat
    BY RowIds, Sentinels DEF PackagesInv
<1>2. Len(rows) + 1 <= MaxRevisions
    <2>1. CASE Reserved < MaxRevisions
        BY <1>1, <2>1, PendingFinite DEF Reserved, Pending
    <2>2. ASSUME NEW c \in Client, pc[c] = "commit"
          PROVE  Len(rows) + 1 <= MaxRevisions
        <3>1. c \in Pending
            BY <2>2, JobType, JobKinds DEF Pending, CreateStatements
        <3>2. Cardinality(Pending) # 0
            BY <3>1, PendingFinite, FS_EmptySet
        <3> QED
            BY <1>1, <3>2, PendingFinite DEF BoundOK
    <2> QED
        BY <2>1, <2>2
<1> QED
    BY <1>1, <1>2 DEF RevisionId

\* The statements of a handler keep the types.
LEMMA HandleTypes ==
    ASSUME PackagesInv, NEW c \in Client, Handle(c)
    PROVE  TypeOK'
<1>1. TypeOK /\ RevsAreDense
    BY DEF PackagesInv, StoreInv
<1>2. tx[c] \in Local
    BY <1>1 DEF TypeOK
<1>3. /\ \A s \in CreateStatements \cup SetStatements : s \in Statements
      /\ {"ok", "NOT_FOUND", "FORBIDDEN", "INVALID_INPUT"} \subseteq Answers
    BY DEF CreateStatements, SetStatements, Statements, Answers
<1>4. pc[c] # "idle" => job[c].packageId \in Package
    BY JobType
<1>5. CASE CheckOwner(c)
    <2>1. ControlOK'
        <3>1. \/ \E a \in Answers : Reply(c, a)
              \/ \E s \in Statements : Goto(c, s)
            BY <1>3, <1>5 DEF CheckOwner, CreateStatements, SetStatements
        <3> QED
            BY <1>1, <3>1, ReplyTypes, GotoTypes
    <2> QED
        BY <1>1, <1>5, <2>1, ReadTypes DEF CheckOwner
<1>6. CASE Begin(c)
    <2>1. [tx[c] EXCEPT !.current = current[job[c].packageId]] \in Local
        BY <1>1, <1>2, <1>4, <1>6 DEF Begin, TypeOK, Local
    <2>2. ControlOK'
        BY <1>1, <1>3, <1>6, <2>1, ReplyTypes, GotoWithTypes DEF Begin, CreateStatements
    <2> QED
        BY <1>1, <1>6, <2>2, ReadTypes DEF Begin
<1>7. CASE FindByHash(c)
    <2>1. ControlOK'
        BY <1>1, <1>3, <1>7, ReplyTypes, GotoTypes DEF FindByHash, CreateStatements
    <2> QED
        BY <1>1, <1>7, <2>1, ReadTypes DEF FindByHash
<1>8. CASE UseExisting(c) \/ Reference(c) \/ SetPointer(c)
    <2>1. ControlOK'
        BY <1>1, <1>3, <1>8, GotoTypes DEF UseExisting, Reference, SetPointer, CreateStatements
    <2> QED
        BY <1>1, <1>8, <2>1, ReadTypes DEF UseExisting, Reference, SetPointer
<1>16. CASE CommitExisting(c)
    <2>1. ControlOK'
        BY <1>1, <1>3, <1>16, ReplyTypes DEF CommitExisting
    <2>2. PICK r \in WithHash(job[c].packageId, job[c].payload) :
              current' = [current EXCEPT ![job[c].packageId] = r]
        BY <1>16 DEF CommitExisting
    <2>3. r \in RevisionId
        BY <1>1, RowIds DEF WithHash, RevisionsOf
    <2>4. current' \in [Package -> RevisionId \cup {None}]
        BY <1>1, <2>2, <2>3 DEF TypeOK
    <2> QED
        BY <1>1, <1>16, <2>1, <2>4 DEF CommitExisting, TypeOK, ControlOK
<1>9. CASE ReadMax(c)
    <2>1. job[c].parent \in RevisionId \cup {None, Unset} /\ job[c].packageId \in Package
        BY <1>9, JobType, JobKinds DEF ReadMax, CreateStatements
    <2>2. NextRev(job[c].packageId) \in Nat
        BY <1>1, <2>1, NextRevIsCount, RevisionsFinite
    <2>3. tx[c].attempt \in 0..1 /\ tx[c].current \in RevisionId \cup {None}
        BY <1>2 DEF Local
    <2> DEFINE parent == IF job[c].parent = Unset THEN tx[c].current ELSE job[c].parent
    <2>4. [attempt |-> tx[c].attempt, current |-> None,
           nextRev |-> NextRev(job[c].packageId), parent |-> parent] \in Local
        BY <2>1, <2>2, <2>3 DEF Local
    <2>5. ControlOK'
        <3>1. GotoWith(c, IF parent = None THEN "insert" ELSE "checkParent",
                       [attempt |-> tx[c].attempt, current |-> None,
                        nextRev |-> NextRev(job[c].packageId), parent |-> parent])
            BY <1>9 DEF ReadMax
        <3> HIDE DEF parent
        <3> QED
            BY <1>1, <1>3, <2>4, <3>1, GotoWithTypes DEF CreateStatements
    <2> QED
        BY <1>1, <1>9, <2>5, ReadTypes DEF ReadMax
<1>10. CASE CheckParent(c)
    <2>1. ControlOK'
        BY <1>1, <1>3, <1>10, ReplyTypes, GotoTypes DEF CheckParent, CreateStatements
    <2> QED
        BY <1>1, <1>10, <2>1, ReadTypes DEF CheckParent
<1>11. CASE Insert(c)
    <2>1. ControlOK'
        BY <1>1, <1>3, <1>11, GotoTypes, RevConflictTypes DEF Insert, CreateStatements
    <2> QED
        BY <1>1, <1>11, <2>1, ReadTypes DEF Insert
<1>12. CASE Commit(c)
    <2>1. ControlOK'
        BY <1>1, <1>3, <1>12, ReplyTypes DEF Commit
    <2>2. Len(rows) + 1 <= MaxRevisions /\ Len(rows) + 1 \in RevisionId
        BY <1>12, RoomForRow DEF Commit
    <2>3. rows' \in Seq(Row) /\ Len(rows') = Len(rows) + 1
        BY <1>1, <1>12, NewRowType, AppendRow DEF Commit, CreateStatements
    <2>4. current' \in [Package -> RevisionId \cup {None}]
        BY <1>1, <1>4, <1>12, <2>2 DEF Commit, TypeOK
    <2> QED
        BY <1>1, <1>12, <2>1, <2>2, <2>3, <2>4 DEF Commit, TypeOK, ControlOK
<1>13. CASE Recover(c)
    <2>1. ControlOK'
        BY <1>1, <1>3, <1>13, ReplyTypes, GotoTypes, RevConflictTypes
           DEF Recover, CreateStatements
    <2> QED
        BY <1>1, <1>13, <2>1, ReadTypes DEF Recover
<1>14. CASE FindTarget(c)
    <2>1. ControlOK'
        BY <1>1, <1>3, <1>14, ReplyTypes, GotoTypes DEF FindTarget, SetStatements
    <2> QED
        BY <1>1, <1>14, <2>1, ReadTypes DEF FindTarget
<1>15. CASE UpdateCurrent(c)
    <2>1. ControlOK'
        BY <1>1, <1>3, <1>15, ReplyTypes DEF UpdateCurrent
    <2>2. job[c].id \in RevisionId
        BY <1>15, JobType, JobKinds DEF UpdateCurrent, SetStatements
    <2>3. current' \in [Package -> RevisionId \cup {None}]
        BY <1>1, <1>15, <2>2 DEF UpdateCurrent, TypeOK
    <2> QED
        BY <1>1, <1>15, <2>1, <2>3 DEF UpdateCurrent, TypeOK, ControlOK
<1> QED
    BY <1>5, <1>6, <1>7, <1>8, <1>9, <1>10, <1>11, <1>12, <1>13, <1>14, <1>15, <1>16 DEF Handle

\* Every step keeps the types.
LEMMA TypePreserved == PackagesInv /\ [Next]_vars => TypeOK'
<1> SUFFICES ASSUME PackagesInv, [Next]_vars PROVE TypeOK'
    OBVIOUS
<1>1. TypeOK
    BY DEF PackagesInv
<1>2. ASSUME NEW j \in Requests, CreatePackage(j) PROVE TypeOK'
    <2>1. /\ j.op = "import" /\ j.packageId \in Package
          /\ j.payload \in Payload /\ j.user \in User
        BY <1>2, RequestsType, JobKinds DEF CreatePackage
    <2>2. Len(rows) + 1 <= MaxRevisions /\ Len(rows) + 1 \in RevisionId
        BY <1>2, RoomForRow DEF CreatePackage
    <2>3. [packageId |-> j.packageId, rev |-> 0,
           revisionHash |-> j.payload, parent |-> None] \in Row
        BY <2>1 DEF Row
    <2>4. rows' \in Seq(Row) /\ Len(rows') = Len(rows) + 1
        BY <1>1, <1>2, <2>3, AppendRow DEF CreatePackage
    <2>5. /\ owner' \in [Package -> User \cup {None}]
          /\ current' \in [Package -> RevisionId \cup {None}]
        BY <1>1, <1>2, <2>1, <2>2 DEF CreatePackage, TypeOK
    <2> QED
        BY <1>1, <1>2, <2>2, <2>4, <2>5 DEF CreatePackage, TypeOK, requestVars
<1>3. ASSUME NEW c \in Client, NEW j \in Requests, Submit(c, j) PROVE TypeOK'
    <2>1. j \in CreateJob \cup SetJob
        BY <1>3, RequestsType, JobKinds DEF Submit
    <2>2. Cardinality(RevisionsOf(j.packageId)) \in Nat
        BY <1>1, RevisionsFinite DEF Count
    <2>3. ControlOK'
        BY <1>1, <1>3, GotoTypes DEF Submit, Statements
    <2>4. /\ job' \in [Client -> CreateJob \cup SetJob \cup {NoJob}]
          /\ begun' \in [Client -> Nat]
        BY <1>1, <1>3, <2>1, <2>2 DEF Submit, TypeOK
    <2> QED
        BY <1>1, <1>3, <2>3, <2>4 DEF Submit, TypeOK, ControlOK, stored
<1>4. ASSUME NEW c \in Client, Receive(c) \/ Interrupt(c) PROVE TypeOK'
    BY <1>1, <1>4, LeaveTypes DEF Receive, Interrupt
<1>5. CASE UNCHANGED vars
    BY <1>1, <1>5 DEF TypeOK, vars
<1> QED
    BY <1>2, <1>3, <1>4, <1>5, HandleTypes DEF Next

-----------------------------------------------------------------------------
(* Frames *)

\* A statement of one client changes its own control only.
LEMMA HandleFrame ==
    ASSUME TypeOK, NEW c \in Client, Handle(c)
    PROVE  /\ UNCHANGED <<job, begun, owner>>
           /\ pc[c] \in CreateStatements \cup SetStatements \cup {"checkOwner"}
           /\ \A d \in Client : d # c => Same(d)
<1>1. UNCHANGED <<job, begun, owner>>
    BY DEF Handle, CheckOwner, Begin, FindByHash, UseExisting, CommitExisting, ReadMax,
           CheckParent, Insert, Reference, SetPointer, Commit, Recover, FindTarget,
           UpdateCurrent, stored
<1>2. pc[c] \in CreateStatements \cup SetStatements \cup {"checkOwner"}
    BY DEF Handle, CheckOwner, Begin, FindByHash, UseExisting, CommitExisting, ReadMax,
           CheckParent, Insert, Reference, SetPointer, Commit, Recover, FindTarget,
           UpdateCurrent, CreateStatements, SetStatements
<1>3. \/ \E a : Reply(c, a)
      \/ \E s : Goto(c, s)
      \/ \E s, local : GotoWith(c, s, local)
    BY DEF Handle, CheckOwner, Begin, FindByHash, UseExisting, CommitExisting, ReadMax,
           CheckParent, Insert, Reference, SetPointer, Commit, Recover, FindTarget,
           UpdateCurrent, RevConflict
<1>4. \A d \in Client : d # c =>
          pc'[d] = pc[d] /\ tx'[d] = tx[d] /\ answer'[d] = answer[d]
    BY <1>3 DEF TypeOK, Reply, Goto, GotoWith
<1> QED
    BY <1>1, <1>2, <1>4 DEF Same

\* So does the end of a request.
LEMMA LeaveFrame ==
    ASSUME TypeOK, NEW c \in Client, Leave(c)
    PROVE  \A d \in Client : d # c => Same(d)
BY DEF TypeOK, Leave, Same

\* So does a new request.
LEMMA SubmitFrame ==
    ASSUME TypeOK, NEW c \in Client, NEW j, Submit(c, j)
    PROVE  \A d \in Client : d # c => Same(d)
BY DEF TypeOK, Submit, Goto, Same

-----------------------------------------------------------------------------
(* Steps keep the bound *)

\* Requests that end or go on store no more than before.
LEMMA BoundKept ==
    ASSUME TypeOK, BoundOK, UNCHANGED rows, Pending' \subseteq Pending
    PROVE  BoundOK'
<1>1. Cardinality(Pending') \in Nat /\ Cardinality(Pending') <= Cardinality(Pending)
    BY PendingFinite, FS_Subset, FS_CardinalityType
<1> QED
    BY <1>1, RowIds, PendingFinite, Sentinels DEF BoundOK

\* Every step keeps the bound: a request that may store a row holds its place.
LEMMA BoundPreserved == PackagesInv /\ [Next]_vars => BoundOK'
<1> SUFFICES ASSUME PackagesInv, [Next]_vars PROVE BoundOK'
    OBVIOUS
<1>1. /\ TypeOK /\ BoundOK
      /\ Len(rows) \in Nat /\ Cardinality(Pending) \in Nat /\ MaxRevisions \in Nat
    BY RowIds, PendingFinite, Sentinels DEF PackagesInv
<1>2. ASSUME NEW j \in Requests, CreatePackage(j) PROVE BoundOK'
    <2>1. Pending' = Pending
        BY <1>2 DEF CreatePackage, Pending, requestVars
    <2>2. Len(rows) + Cardinality(Pending) < MaxRevisions
        BY <1>2 DEF CreatePackage, Reserved, Pending
    <2>3. Len(rows') = Len(rows) + 1
        BY <1>1, <1>2 DEF CreatePackage, TypeOK
    <2> QED
        BY <1>1, <2>1, <2>2, <2>3 DEF BoundOK
<1>3. ASSUME NEW c \in Client, NEW j \in Requests, Submit(c, j) PROVE BoundOK'
    <2>1. UNCHANGED rows
        BY <1>3 DEF Submit, stored
    <2>2. \A d \in Client : d # c => pc'[d] = pc[d] /\ job'[d] = job[d]
        BY <1>1, <1>3, SubmitFrame DEF Same
    <2>3. CASE j.op # "create"
        <3>1. job'[c] = j
            BY <1>1, <1>3 DEF Submit, TypeOK
        <3>2. Pending' \subseteq Pending
            BY <2>2, <2>3, <3>1 DEF Pending
        <3> QED
            BY <1>1, <2>1, <3>2, BoundKept
    <2>4. CASE j.op = "create"
        <3>1. Len(rows) + Cardinality(Pending) < MaxRevisions
            BY <1>3, <2>4 DEF Submit, Reserved, Pending
        <3>2. Pending' \subseteq Pending \cup {c}
            BY <2>2 DEF Pending
        <3>3. /\ IsFiniteSet(Pending \cup {c})
              /\ Cardinality(Pending \cup {c}) <= Cardinality(Pending) + 1
            <4>1. /\ IsFiniteSet(Pending \cup {c})
                  /\ Cardinality(Pending \cup {c}) =
                        IF c \in Pending THEN Cardinality(Pending) ELSE Cardinality(Pending) + 1
                BY PendingFinite, FS_AddElement
            <4> QED
                BY <1>1, <4>1
        <3>4. /\ Cardinality(Pending') \in Nat
              /\ Cardinality(Pending') <= Cardinality(Pending \cup {c})
              /\ Cardinality(Pending \cup {c}) \in Nat
            BY <3>2, <3>3, FS_Subset, FS_CardinalityType
        <3> QED
            BY <1>1, <2>1, <3>1, <3>3, <3>4 DEF BoundOK
    <2> QED
        BY <2>3, <2>4
<1>4. ASSUME NEW c \in Client, Receive(c) \/ Interrupt(c) PROVE BoundOK'
    <2>1. UNCHANGED rows /\ Leave(c)
        BY <1>4 DEF Receive, Interrupt, stored
    <2>2. job'[c].op # "create"
        BY <1>1, <2>1, JobKinds DEF Leave, TypeOK
    <2>3. Pending' \subseteq Pending
        BY <1>1, <2>1, <2>2, LeaveFrame DEF Pending, Same
    <2> QED
        BY <1>1, <2>1, <2>3, BoundKept
<1>5. ASSUME NEW c \in Client, Handle(c) PROVE BoundOK'
    <2>1. /\ job' = job
          /\ pc[c] # "done"
          /\ \A d \in Client : d # c => pc'[d] = pc[d]
        BY <1>1, <1>5, HandleFrame DEF Same, CreateStatements, SetStatements
    <2>2. CASE Commit(c)
        <3>1. c \in Pending
            BY <2>2, JobType, JobKinds DEF Commit, CreateStatements, Pending
        <3>2. Pending' \subseteq Pending \ {c}
            <4>1. pc'[c] = "done"
                BY <1>1, <2>2 DEF Commit, Reply, TypeOK
            <4> QED
                BY <2>1, <4>1 DEF Pending
        <3>3. /\ IsFiniteSet(Pending \ {c})
              /\ Cardinality(Pending \ {c}) = Cardinality(Pending) - 1
            BY <3>1, PendingFinite, FS_RemoveElement
        <3>4. /\ Cardinality(Pending') \in Nat
              /\ Cardinality(Pending') <= Cardinality(Pending \ {c})
            BY <3>2, <3>3, FS_Subset, FS_CardinalityType
        <3>5. Len(rows') = Len(rows) + 1
            BY <1>1, <2>2 DEF Commit, TypeOK
        <3> QED
            BY <1>1, <3>3, <3>4, <3>5 DEF BoundOK
    <2>3. CASE ~Commit(c)
        <3>1. UNCHANGED rows
            BY <1>5, <2>3 DEF Handle, CheckOwner, Begin, FindByHash, UseExisting,
               CommitExisting, ReadMax, CheckParent, Insert, Reference, SetPointer,
               Recover, FindTarget, UpdateCurrent, stored
        <3>2. Pending' \subseteq Pending
            BY <2>1 DEF Pending
        <3> QED
            BY <1>1, <3>1, <3>2, BoundKept
    <2> QED
        BY <2>2, <2>3
<1>6. CASE UNCHANGED vars
    <2>1. UNCHANGED rows /\ Pending' = Pending
        BY <1>6 DEF vars, Pending
    <2> QED
        BY <1>1, <2>1, BoundKept
<1> QED
    BY <1>2, <1>3, <1>4, <1>5, <1>6 DEF Next

-----------------------------------------------------------------------------
(* Steps keep the store as it must be *)

\* A step that only reads.
LEMMA ReadStore ==
    ASSUME StoreInv, UNCHANGED stored
    PROVE  StoreInv' /\ Grows
<1>1. owner' = owner /\ current' = current /\ rows' = rows
    BY DEF stored
<1>2. Grows
    BY <1>1 DEF Grows
<1>3. RevsAreDense' /\ HashesUnique'
    BY <1>1 DEF StoreInv, RevsAreDense, HashesUnique, RevisionsOf
<1>4. LineageDescends'
    BY <1>1 DEF StoreInv, LineageDescends, RevisionsOf
<1>5. OwnedOnly' /\ CurrentIsOwn'
    BY <1>1 DEF StoreInv, OwnedOnly, CurrentIsOwn, RevisionsOf
<1> QED
    BY <1>2, <1>3, <1>4, <1>5 DEF StoreInv

\* A step that moves the pointer of a package to a revision of it.
LEMMA PointerStore ==
    ASSUME TypeOK, StoreInv, UNCHANGED <<owner, rows>>,
           NEW p \in Package, NEW r \in RevisionsOf(p),
           current' = [current EXCEPT ![p] = r]
    PROVE  StoreInv' /\ Grows
<1>1. owner' = owner /\ rows' = rows
    OBVIOUS
<1>2. Grows
    BY <1>1 DEF Grows
<1>3. RevsAreDense' /\ HashesUnique' /\ LineageDescends' /\ OwnedOnly'
    BY <1>1 DEF StoreInv, RevsAreDense, HashesUnique, LineageDescends, OwnedOnly, RevisionsOf
<1>4. CurrentIsOwn'
    <2> SUFFICES ASSUME NEW q \in Package, owner'[q] # None
                 PROVE  current'[q] \in RevisionsOf(q)'
        BY DEF CurrentIsOwn
    <2>1. RevisionsOf(q)' = RevisionsOf(q)
        BY <1>1 DEF RevisionsOf
    <2>2. current'[q] = IF q = p THEN r ELSE current[q]
        BY DEF TypeOK
    <2> QED
        BY <1>1, <2>1, <2>2 DEF StoreInv, CurrentIsOwn
<1> QED
    BY <1>2, <1>3, <1>4 DEF StoreInv

\* A step that adds a good row to a package, which has an owner after it.
LEMMA RowStore ==
    ASSUME TypeOK, StoreInv,
           NEW x \in Row, rows' = Append(rows, x),
           NEW p \in Package, p = x.packageId,
           x.rev = Count(p),
           WithHash(p, x.revisionHash) = {},
           x.parent # None => x.parent \in RevisionsOf(p),
           owner'[p] # None,
           owner[p] # None => owner'[p] = owner[p],
           \/ current'[p] = Len(rows) + 1
           \/ current'[p] = current[p] /\ owner[p] # None,
           \A q \in Package : q # p => owner'[q] = owner[q] /\ current'[q] = current[q]
    PROVE  StoreInv' /\ Grows
<1>1. Grows
    BY AppendRow DEF Grows
<1>2. RevsAreDense' /\ HashesUnique' /\ LineageDescends'
    <2>1. /\ x.packageId \in Package /\ x.rev = Count(x.packageId)
          /\ WithHash(x.packageId, x.revisionHash) = {}
          /\ x.parent # None => x.parent \in RevisionsOf(x.packageId)
        OBVIOUS
    <2>2. RevsAreDense /\ HashesUnique /\ LineageDescends
        BY DEF StoreInv
    <2> QED
        BY <2>1, <2>2, GoodRow
<1>3. \A q \in Package : q # p => RevisionsOf(q)' = RevisionsOf(q)
    BY AddedRevision
<1>4. RevisionsOf(p)' = RevisionsOf(p) \cup {Len(rows) + 1}
    BY AddedRevision
<1>5. OwnedOnly'
    BY <1>3 DEF StoreInv, OwnedOnly
<1>6. CurrentIsOwn'
    <2> SUFFICES ASSUME NEW q \in Package, owner'[q] # None
                 PROVE  current'[q] \in RevisionsOf(q)'
        BY DEF CurrentIsOwn
    <2> QED
        BY <1>3, <1>4 DEF StoreInv, CurrentIsOwn
<1> QED
    BY <1>1, <1>2, <1>5, <1>6 DEF StoreInv

\* The row of a transaction that is going to commit is good.
LEMMA CommittedRow ==
    ASSUME PackagesInv, NEW c \in Client, pc[c] \in Inserted
    PROVE  /\ NewRow(c) \in Row
           /\ job[c].packageId \in Package
           /\ NewRow(c).packageId = job[c].packageId
           /\ NewRow(c).rev = Count(job[c].packageId)
           /\ NewRow(c).revisionHash = job[c].payload
           /\ WithHash(job[c].packageId, job[c].payload) = {}
           /\ NewRow(c).parent # None => NewRow(c).parent \in RevisionsOf(job[c].packageId)
           /\ owner[job[c].packageId] # None
<1>1. RightStatement(c) /\ RowsFound(c) /\ IsNext(c)
    BY DEF PackagesInv, Knows
<1> QED
    BY <1>1, JobType, NewRowType
       DEF RightStatement, RowsFound, IsNext, NewRow, CreateStatements, Inserted

\* Every step keeps the revisions dense, their lineage descending and the pointer
\* on a revision of its package, and removes nothing.
LEMMA StoreStep == PackagesInv /\ [Next]_vars => StoreInv' /\ Grows
<1> SUFFICES ASSUME PackagesInv, [Next]_vars PROVE StoreInv' /\ Grows
    OBVIOUS
<1>1. TypeOK /\ StoreInv
    BY DEF PackagesInv
<1>2. ASSUME NEW j \in Requests, CreatePackage(j) PROVE StoreInv' /\ Grows
    <2> DEFINE x == [packageId |-> j.packageId, rev |-> 0,
                     revisionHash |-> j.payload, parent |-> None]
    <2>1. /\ j.op = "import" /\ j.packageId \in Package
          /\ j.payload \in Payload /\ j.user \in User
        BY <1>2, RequestsType, JobKinds DEF CreatePackage
    <2>2. /\ x \in Row /\ x.packageId = j.packageId /\ x.rev = 0
          /\ x.revisionHash = j.payload /\ x.parent = None
        BY <2>1 DEF Row
    <2>3. rows' = Append(rows, x)
        BY <1>2 DEF CreatePackage
    <2>4. RevisionsOf(j.packageId) = {}
        BY <1>1, <1>2, <2>1 DEF CreatePackage, StoreInv, OwnedOnly
    <2>5. Count(j.packageId) = 0
        BY <1>1, <2>4, RevisionsFinite
    <2>6. WithHash(j.packageId, j.payload) = {}
        BY <2>4 DEF WithHash
    <2>7. /\ owner'[j.packageId] = j.user /\ current'[j.packageId] = Len(rows) + 1
          /\ \A q \in Package : q # j.packageId =>
                owner'[q] = owner[q] /\ current'[q] = current[q]
        BY <1>1, <1>2, <2>1 DEF CreatePackage, TypeOK
    <2>8. j.user # None /\ owner[j.packageId] = None
        BY <1>2, <2>1, Sentinels DEF CreatePackage
    <2> HIDE DEF x
    <2> QED
        BY <1>1, <2>1, <2>2, <2>3, <2>5, <2>6, <2>7, <2>8, RowStore
<1>3. ASSUME NEW c \in Client, NEW j \in Requests, Submit(c, j) PROVE StoreInv' /\ Grows
    BY <1>1, <1>3, ReadStore DEF Submit
<1>4. ASSUME NEW c \in Client, Receive(c) \/ Interrupt(c) PROVE StoreInv' /\ Grows
    BY <1>1, <1>4, ReadStore DEF Receive, Interrupt
<1>5. ASSUME NEW c \in Client, Handle(c) PROVE StoreInv' /\ Grows
    <2>1. CASE Commit(c)
        <3>1. PICK p \in Package : p = job[c].packageId
            BY <2>1, CommittedRow DEF Commit, Inserted
        <3>2. /\ NewRow(c) \in Row /\ NewRow(c).packageId = p /\ NewRow(c).rev = Count(p)
              /\ WithHash(p, NewRow(c).revisionHash) = {}
              /\ NewRow(c).parent # None => NewRow(c).parent \in RevisionsOf(p)
              /\ owner[p] # None
            BY <2>1, <3>1, CommittedRow DEF Commit, Inserted
        <3>3. /\ rows' = Append(rows, NewRow(c))
              /\ owner' = owner
              /\ current'[p] = Len(rows) + 1 \/ current'[p] = current[p]
              /\ \A q \in Package : q # p => current'[q] = current[q]
            BY <1>1, <2>1, <3>1 DEF Commit, TypeOK
        <3> QED
            BY <1>1, <3>2, <3>3, RowStore
    <2>2. CASE CommitExisting(c)
        <3>1. PICK p \in Package : p = job[c].packageId
            BY <2>2, JobType DEF CommitExisting
        <3>2. PICK r \in WithHash(p, job[c].payload) : current' = [current EXCEPT ![p] = r]
            BY <2>2, <3>1 DEF CommitExisting
        <3>3. r \in RevisionsOf(p) /\ UNCHANGED <<owner, rows>>
            BY <2>2 DEF CommitExisting, WithHash
        <3> QED
            BY <1>1, <3>2, <3>3, PointerStore
    <2>3. CASE UpdateCurrent(c)
        <3>1. PICK p \in Package : p = job[c].packageId
            BY <2>3, JobType DEF UpdateCurrent
        <3>2. job[c].id \in RevisionsOf(p)
            BY <2>3, <3>1 DEF UpdateCurrent, PackagesInv, Knows, RowsFound
        <3> QED
            BY <1>1, <2>3, <3>1, <3>2, PointerStore DEF UpdateCurrent
    <2>4. CASE ~Commit(c) /\ ~CommitExisting(c) /\ ~UpdateCurrent(c)
        <3>1. UNCHANGED stored
            BY <1>5, <2>4 DEF Handle, CheckOwner, Begin, FindByHash, UseExisting, ReadMax,
               CheckParent, Insert, Reference, SetPointer, Recover, FindTarget
        <3> QED
            BY <1>1, <3>1, ReadStore
    <2> QED
        BY <2>1, <2>2, <2>3, <2>4
<1>6. CASE UNCHANGED vars
    BY <1>1, <1>6, ReadStore DEF vars, stored
<1> QED
    BY <1>2, <1>3, <1>4, <1>5, <1>6 DEF Next

-----------------------------------------------------------------------------
(* Steps preserve what a handler knows *)

\* A handler that answers needs to justify its answer only.
LEMMA ReplyKnows ==
    ASSUME PackagesInv, TypeOK', Grows, NEW c \in Client, NEW a \in Answers, Reply(c, a),
           pc[c] # "idle", UNCHANGED <<job, begun>>,
           NEW p, p = job[c].packageId, NEW h, h = job[c].payload,
           a = "ok" /\ job[c].op = "create" => WithHash(p, h)' # {},
           a = "CONFLICT_RETRY_EXHAUSTED" => begun[c] + 2 <= Count(p)
    PROVE  Knows(c)'
<1>1. TypeOK /\ RightStatement(c) /\ Beaten(c)
    BY DEF PackagesInv, Knows
<1>2. pc'[c] = "done" /\ answer'[c] = a /\ tx'[c] = NoLocal
    BY <1>1 DEF TypeOK, Reply
<1>3. /\ job'[c] = job[c] /\ begun'[c] = begun[c]
      /\ job'[c].packageId = p /\ job'[c].payload = h
    OBVIOUS
<1>4. Count(p) \in Nat /\ Count(p)' \in Nat /\ Count(p) <= Count(p)'
    BY <1>1, FoundStays
<1>5. RightStatement(c)'
    BY <1>1, <1>2, <1>3 DEF RightStatement, CreateStatements, SetStatements
<1>6. RowsFound(c)'
    BY <1>2 DEF RowsFound, Inserted
<1>7. Beaten(c)'
    <2>1. begun[c] \in Nat /\ tx[c].attempt \in Nat
        <3>1. begun[c] \in Nat /\ tx[c] \in Local
            BY <1>1 DEF TypeOK
        <3> QED
            BY <3>1 DEF Local
    <2>2. NoLocal.attempt = 0
        BY DEF NoLocal
    <2>3. begun[c] <= Count(p)
        BY <1>1, <1>4, <2>1 DEF Beaten
    <2> QED
        BY <1>2, <1>3, <1>4, <2>1, <2>2, <2>3 DEF Beaten, Inserted
<1>8. TrueAnswer(c)'
    BY <1>2, <1>3, <1>4 DEF TrueAnswer
<1> QED
    BY <1>5, <1>6, <1>7, <1>8 DEF Knows

\* A handler that goes on needs to know what its next statement relies on.
LEMMA GotoKnows ==
    ASSUME PackagesInv, TypeOK', Grows, NEW c \in Client,
           NEW s \in CreateStatements \cup SetStatements,
           pc[c] # "done", pc'[c] = s, UNCHANGED <<job, begun>>, answer' = answer,
           NEW p \in Package, p = job[c].packageId,
           owner[p] # None, owner[p] = job[c].user,
           s \in CreateStatements => job[c] \in CreateJob,
           s \in SetStatements => job[c] \in SetJob,
           s \in {"useExisting", "commitExisting", "recover", "recoverCurrent"} =>
              WithHash(p, job[c].payload) # {},
           s \in {"useExisting", "commitExisting", "recoverCurrent"} => job[c].setCurrent,
           s = "updateCurrent" => job[c].id \in RevisionsOf(p),
           s \in {"insert"} \cup Inserted /\ tx'[c].parent # None =>
              tx'[c].parent \in RevisionsOf(p),
           begun[c] + tx'[c].attempt <= Count(p),
           s \in {"checkParent", "insert"} \cup Inserted =>
              /\ tx'[c].nextRev <= Count(p)
              /\ begun[c] + tx'[c].attempt <= tx'[c].nextRev
    PROVE  Knows(c)'
<1>1. TypeOK /\ TrueAnswer(c)
    BY DEF PackagesInv, Knows
<1>2. job'[c] = job[c] /\ begun'[c] = begun[c] /\ job'[c].packageId = p
    OBVIOUS
<1>3. answer'[c] = None
    BY <1>1 DEF TrueAnswer
<1>4. None # "ok" /\ None # "CONFLICT_RETRY_EXHAUSTED"
    BY NoneIsNoAnswer DEF Answers
<1>5. /\ RevisionsOf(p) \subseteq RevisionsOf(p)'
      /\ Count(p) \in Nat /\ Count(p)' \in Nat /\ Count(p) <= Count(p)'
      /\ \A h : WithHash(p, h) # {} => WithHash(p, h)' # {}
    BY <1>1, FoundStays
<1>6. s # "idle" /\ s # "done"
    BY DEF CreateStatements, SetStatements
<1>7. owner'[p] # None /\ owner'[p] = job[c].user
    BY DEF Grows
<1>8. RightStatement(c)'
    BY <1>2, <1>6, <1>7 DEF RightStatement
<1>9. RowsFound(c)'
    BY <1>2, <1>5 DEF RowsFound
<1>10. Beaten(c)'
    <2>1. begun[c] \in Nat /\ tx'[c].attempt \in Nat /\ tx'[c].nextRev \in Nat
        <3>1. begun[c] \in Nat /\ tx'[c] \in Local
            BY <1>1 DEF TypeOK
        <3> QED
            BY <3>1 DEF Local
    <2> QED
        BY <1>2, <1>3, <1>4, <1>5, <2>1 DEF Beaten
<1>11. TrueAnswer(c)'
    BY <1>3, <1>4, <1>6 DEF TrueAnswer
<1> QED
    BY <1>8, <1>9, <1>10, <1>11 DEF Knows

\* A conflict on the number: the row with it was committed since it was read, so
\* the request was beaten once more.
LEMMA RevConflictKnows ==
    ASSUME PackagesInv, TypeOK', Grows, NEW c \in Client, RevConflict(c),
           pc[c] = "insert", UNCHANGED <<job, begun>>,
           NEW r \in RevisionsOf(job[c].packageId), rows[r].rev = tx[c].nextRev
    PROVE  Knows(c)'
<1>1. TypeOK /\ RevsAreDense /\ Knows(c)
    BY DEF PackagesInv, StoreInv
<1>2. PICK p \in Package : p = job[c].packageId
    BY JobType
<1>3. /\ Count(p) \in Nat
      /\ tx[c].nextRev < Count(p)
      /\ begun[c] + tx[c].attempt <= tx[c].nextRev
    BY <1>1, <1>2, NumbersTaken, RevisionsFinite DEF Knows, Beaten
<1>4. begun[c] \in Nat /\ tx[c].attempt \in 0..1 /\ tx[c].nextRev \in Nat
    <2>1. begun[c] \in Nat /\ tx[c] \in Local
        BY <1>1 DEF TypeOK
    <2> QED
        BY <2>1 DEF Local
<1>5. job[c] \in CreateJob /\ owner[p] # None /\ owner[p] = job[c].user
    BY <1>1, <1>2 DEF Knows, RightStatement, CreateStatements
<1>6. CASE tx[c].attempt = 0
    <2>1. /\ pc'[c] = "begin" /\ answer' = answer
          /\ tx'[c] = [NoLocal EXCEPT !.attempt = 1]
        BY <1>1, <1>6 DEF RevConflict, GotoWith, TypeOK
    <2>2. tx'[c].attempt = 1
        BY <2>1 DEF NoLocal
    <2>3. begun[c] + tx'[c].attempt <= Count(p)
        BY <1>3, <1>4, <1>6, <2>2
    <2>4. "begin" \in CreateStatements /\ "begin" \notin SetStatements /\ "begin" \notin Inserted
        BY DEF CreateStatements, SetStatements, Inserted
    <2> QED
        BY <1>2, <1>5, <2>1, <2>3, <2>4, GotoKnows
<1>7. CASE tx[c].attempt # 0
    <2>1. Reply(c, "CONFLICT_RETRY_EXHAUSTED")
        BY <1>7 DEF RevConflict
    <2>2. begun[c] + 2 <= Count(p)
        BY <1>3, <1>4, <1>7
    <2>3. "CONFLICT_RETRY_EXHAUSTED" \in Answers
        BY DEF Answers
    <2> QED
        BY <1>2, <2>1, <2>2, <2>3, ReplyKnows
<1> QED
    BY <1>6, <1>7

\* The statement of a client's own handler, one action at a time.
LEMMA OwnStep ==
    ASSUME PackagesInv, TypeOK', Grows, NEW c \in Client, Handle(c)
    PROVE  Knows(c)'
<1>1. TypeOK /\ RevsAreDense /\ Knows(c) /\ pc[c] # "idle" /\ pc[c] # "done"
    BY HandleFrame DEF PackagesInv, StoreInv, CreateStatements, SetStatements
<1>2. UNCHANGED <<job, begun, owner>>
    BY <1>1, HandleFrame
<1>3. PICK p, h : p \in Package /\ p = job[c].packageId /\ h = job[c].payload
    BY <1>1, JobType
<1>4. /\ Count(p) \in Nat /\ begun[c] + tx[c].attempt <= Count(p)
      /\ begun[c] \in Nat /\ tx[c].attempt \in Nat /\ tx[c].nextRev \in Nat
    <2>1. begun[c] \in Nat /\ tx[c] \in Local
        BY <1>1 DEF TypeOK
    <2>2. tx[c].attempt \in Nat /\ tx[c].nextRev \in Nat
        BY <2>1 DEF Local
    <2> QED
        BY <1>1, <1>3, <2>1, <2>2, RevisionsFinite DEF Knows, Beaten
<1>5. /\ pc[c] \in CreateStatements =>
            job[c] \in CreateJob /\ owner[p] # None /\ owner[p] = job[c].user
      /\ pc[c] \in SetStatements =>
            job[c] \in SetJob /\ owner[p] # None /\ owner[p] = job[c].user
      /\ job[c] \in CreateJob \cup SetJob
    BY <1>1, <1>3 DEF Knows, RightStatement
<1>6. /\ \A s \in CreateStatements : s \notin SetStatements
      /\ {"ok", "NOT_FOUND", "FORBIDDEN", "INVALID_INPUT"} \subseteq Answers
      /\ Inserted = {"reference", "setPointer", "commit"}
    BY DEF CreateStatements, SetStatements, Answers, Inserted
<1>7. ASSUME NEW a \in {"NOT_FOUND", "FORBIDDEN", "INVALID_INPUT"}, Reply(c, a)
      PROVE  Knows(c)'
    BY <1>1, <1>2, <1>3, <1>6, <1>7, ReplyKnows
<1>8. ASSUME Reply(c, "ok"), job[c].op = "create" => WithHash(p, job[c].payload) # {}
      PROVE  Knows(c)'
    <2>1. job[c].op = "create" => WithHash(p, h)' # {}
        BY <1>1, <1>3, <1>8, FoundStays
    <2> QED
        BY <1>1, <1>2, <1>3, <1>6, <1>8, <2>1, ReplyKnows
<1>9. ASSUME NEW s, Goto(c, s)
      PROVE  pc'[c] = s /\ answer' = answer /\ tx'[c] = tx[c]
    BY <1>1, <1>9 DEF Goto, TypeOK
<1>10. CASE CheckOwner(c)
    <2>1. CASE owner[p] = None \/ owner[p] # job[c].user
        BY <1>3, <1>7, <1>10, <2>1 DEF CheckOwner
    <2>2. CASE owner[p] # None /\ owner[p] = job[c].user
        <3>1. CASE job[c].op = "create"
            <4>1. Goto(c, "begin")
                BY <1>3, <1>10, <2>2, <3>1 DEF CheckOwner
            <4>2. job[c] \in CreateJob
                BY <1>5, <3>1, JobKinds
            <4>3. "begin" \in CreateStatements /\ "begin" \notin SetStatements
                BY DEF CreateStatements, SetStatements
            <4> QED
                BY <1>1, <1>2, <1>3, <1>4, <1>6, <1>9, <2>2, <4>1, <4>2, <4>3, GotoKnows
        <3>2. CASE job[c].op # "create"
            <4>1. Goto(c, "findTarget")
                BY <1>3, <1>10, <2>2, <3>2 DEF CheckOwner
            <4>2. job[c] \in SetJob
                BY <1>5, <3>2, JobKinds
            <4>3. "findTarget" \in SetStatements /\ "findTarget" \notin CreateStatements
                BY DEF CreateStatements, SetStatements
            <4> QED
                BY <1>1, <1>2, <1>3, <1>4, <1>6, <1>9, <2>2, <4>1, <4>2, <4>3, GotoKnows
        <3> QED
            BY <3>1, <3>2
    <2> QED
        BY <2>1, <2>2
<1>11. CASE Begin(c)
    <2>1. CASE owner[p] = None \/ owner[p] # job[c].user
        BY <1>3, <1>7, <1>11, <2>1 DEF Begin
    <2>2. CASE owner[p] # None /\ owner[p] = job[c].user
        <3>1. GotoWith(c, "findByHash", [tx[c] EXCEPT !.current = current[p]])
            BY <1>3, <1>11, <2>2 DEF Begin
        <3>2. /\ pc'[c] = "findByHash" /\ answer' = answer
              /\ tx'[c] = [tx[c] EXCEPT !.current = current[p]]
            BY <1>1, <3>1 DEF GotoWith, TypeOK
        <3>3. tx'[c].attempt = tx[c].attempt
            <4>1. tx[c] \in Local
                BY <1>1 DEF TypeOK
            <4> QED
                BY <3>2, <4>1 DEF Local
        <3>4. "findByHash" \in CreateStatements /\ "findByHash" \notin SetStatements
              /\ job[c] \in CreateJob
            BY <1>5, <1>11 DEF Begin, CreateStatements, SetStatements
        <3> QED
            BY <1>1, <1>2, <1>3, <1>4, <1>6, <2>2, <3>2, <3>3, <3>4, GotoKnows
    <2> QED
        BY <2>1, <2>2
<1>12. CASE FindByHash(c)
    <2>1. job[c] \in CreateJob /\ owner[p] # None /\ owner[p] = job[c].user
        BY <1>5, <1>12 DEF FindByHash, CreateStatements
    <2>2. CASE WithHash(p, job[c].payload) = {}
        <3>1. Goto(c, "readMax")
            BY <1>3, <1>12, <2>2 DEF FindByHash
        <3>2. "readMax" \in CreateStatements /\ "readMax" \notin SetStatements
            BY DEF CreateStatements, SetStatements
        <3> QED
            BY <1>1, <1>2, <1>3, <1>4, <1>6, <1>9, <2>1, <3>1, <3>2, GotoKnows
    <2>3. CASE WithHash(p, job[c].payload) # {} /\ job[c].setCurrent
        <3>1. Goto(c, "useExisting")
            BY <1>3, <1>12, <2>3 DEF FindByHash
        <3>2. "useExisting" \in CreateStatements /\ "useExisting" \notin SetStatements
            BY DEF CreateStatements, SetStatements
        <3> QED
            BY <1>1, <1>2, <1>3, <1>4, <1>6, <1>9, <2>1, <2>3, <3>1, <3>2, GotoKnows
    <2>4. CASE WithHash(p, job[c].payload) # {} /\ ~job[c].setCurrent
        BY <1>3, <1>8, <1>12, <2>4 DEF FindByHash
    <2> QED
        BY <2>2, <2>3, <2>4
<1>13. CASE UseExisting(c)
    <2>1. /\ job[c] \in CreateJob /\ owner[p] # None /\ owner[p] = job[c].user
          /\ WithHash(p, job[c].payload) # {} /\ job[c].setCurrent
        BY <1>1, <1>3, <1>5, <1>13 DEF UseExisting, CreateStatements, Knows, RowsFound
    <2>2. Goto(c, "commitExisting")
        BY <1>13 DEF UseExisting
    <2>3. "commitExisting" \in CreateStatements /\ "commitExisting" \notin SetStatements
        BY DEF CreateStatements, SetStatements
    <2> QED
        BY <1>1, <1>2, <1>3, <1>4, <1>6, <1>9, <2>1, <2>2, <2>3, GotoKnows
<1>21. CASE CommitExisting(c)
    <2>1. WithHash(p, job[c].payload) # {}
        BY <1>1, <1>3, <1>21 DEF CommitExisting, Knows, RowsFound
    <2> QED
        BY <1>8, <1>21, <2>1 DEF CommitExisting
<1>22. CASE Reference(c) \/ SetPointer(c)
    <2>1. job[c] \in CreateJob /\ owner[p] # None /\ owner[p] = job[c].user /\ pc[c] \in Inserted
        BY <1>5, <1>22 DEF Reference, SetPointer, CreateStatements, Inserted
    <2>2. /\ tx[c].nextRev <= Count(p) /\ begun[c] + tx[c].attempt <= tx[c].nextRev
          /\ tx[c].parent # None => tx[c].parent \in RevisionsOf(p)
        BY <1>1, <1>3, <2>1 DEF Knows, Beaten, RowsFound
    <2>3. PICK s \in {"setPointer", "commit"} : Goto(c, s)
        BY <1>22 DEF Reference, SetPointer
    <2>4. s \in CreateStatements /\ s \notin SetStatements
        BY DEF CreateStatements, SetStatements
    <2> QED
        BY <1>1, <1>2, <1>3, <1>4, <1>6, <1>9, <2>1, <2>2, <2>3, <2>4, GotoKnows
<1>14. CASE ReadMax(c)
    <2>1. job[c] \in CreateJob /\ owner[p] # None /\ owner[p] = job[c].user
        BY <1>5, <1>14 DEF ReadMax, CreateStatements
    <2>2. NextRev(p) = Count(p)
        BY <1>1, <1>3, NextRevIsCount
    <2> DEFINE parent == IF job[c].parent = Unset THEN tx[c].current ELSE job[c].parent
               s == IF parent = None THEN "insert" ELSE "checkParent"
    <2>3. /\ pc'[c] = s /\ answer' = answer
          /\ tx'[c] = [attempt |-> tx[c].attempt, current |-> None,
                       nextRev |-> Count(p), parent |-> parent]
        BY <1>1, <1>3, <1>14, <2>2 DEF ReadMax, GotoWith, TypeOK
    <2>4. tx'[c].attempt = tx[c].attempt /\ tx'[c].nextRev = Count(p) /\ tx'[c].parent = parent
        BY <2>3
    <2>5. /\ s \in CreateStatements /\ s \notin SetStatements
          /\ s \in {"insert", "checkParent"} /\ s # "updateCurrent"
          /\ s = "insert" => parent = None
        BY DEF CreateStatements, SetStatements
    <2> HIDE DEF s, parent
    <2> QED
        BY <1>1, <1>2, <1>3, <1>4, <1>6, <2>1, <2>3, <2>4, <2>5, GotoKnows
<1>15. CASE CheckParent(c)
    <2>1. job[c] \in CreateJob /\ owner[p] # None /\ owner[p] = job[c].user /\ pc[c] = "checkParent"
        BY <1>5, <1>15 DEF CheckParent, CreateStatements
    <2>2. CASE tx[c].parent \in RevisionsOf(p)
        <3>1. Goto(c, "insert")
            BY <1>3, <1>15, <2>2 DEF CheckParent, RevisionsOf
        <3>2. "insert" \in CreateStatements /\ "insert" \notin SetStatements
            BY DEF CreateStatements, SetStatements
        <3>3. tx[c].nextRev <= Count(p) /\ begun[c] + tx[c].attempt <= tx[c].nextRev
            BY <1>1, <1>3, <2>1 DEF Knows, Beaten
        <3> QED
            BY <1>1, <1>2, <1>3, <1>4, <1>6, <1>9, <2>1, <2>2, <3>1, <3>2, <3>3, GotoKnows
    <2>3. CASE tx[c].parent \notin RevisionsOf(p)
        BY <1>3, <1>7, <1>15, <2>3 DEF CheckParent, RevisionsOf
    <2> QED
        BY <2>2, <2>3
<1>16. CASE Insert(c)
    <2>1. job[c] \in CreateJob /\ owner[p] # None /\ owner[p] = job[c].user /\ pc[c] = "insert"
        BY <1>5, <1>16 DEF Insert, CreateStatements
    <2>2. CASE Goto(c, "reference")
        <3>1. "reference" \in CreateStatements /\ "reference" \notin SetStatements
            BY DEF CreateStatements, SetStatements
        <3>2. /\ tx[c].nextRev <= Count(p) /\ begun[c] + tx[c].attempt <= tx[c].nextRev
              /\ tx[c].parent # None => tx[c].parent \in RevisionsOf(p)
            BY <1>1, <1>3, <2>1 DEF Knows, Beaten, RowsFound
        <3> QED
            BY <1>1, <1>2, <1>3, <1>4, <1>6, <1>9, <2>1, <2>2, <3>1, <3>2, GotoKnows
    <2>3. CASE /\ \E r \in RevisionsOf(p) : rows[r].revisionHash = job[c].payload
               /\ Goto(c, "recover")
        <3>1. "recover" \in CreateStatements /\ "recover" \notin SetStatements
            BY DEF CreateStatements, SetStatements
        <3>2. WithHash(p, job[c].payload) # {}
            BY <2>3 DEF WithHash
        <3> QED
            BY <1>1, <1>2, <1>3, <1>4, <1>6, <1>9, <2>1, <2>3, <3>1, <3>2, GotoKnows
    <2>4. CASE /\ \E r \in RevisionsOf(p) : rows[r].rev = tx[c].nextRev
               /\ RevConflict(c)
        BY <1>2, <1>3, <2>1, <2>4, RevConflictKnows
    <2> QED
        BY <1>3, <1>16, <2>2, <2>3, <2>4 DEF Insert
<1>17. CASE Commit(c)
    <2>1. WithHash(p, h)' # {}
        <3>1. NewRow(c) \in Row /\ NewRow(c).packageId = p /\ NewRow(c).revisionHash = h
            BY <1>3, <1>17, CommittedRow DEF Commit, Inserted
        <3>2. rows' = Append(rows, NewRow(c))
            BY <1>17 DEF Commit
        <3>3. Len(rows) + 1 \in RevisionsOf(p)' /\ rows'[Len(rows) + 1].revisionHash = h
            BY <1>1, <3>1, <3>2, AddedRevision, AppendRow
        <3> QED
            BY <3>3 DEF WithHash
    <2> QED
        BY <1>1, <1>2, <1>3, <1>6, <1>17, <2>1, ReplyKnows DEF Commit
<1>18. CASE Recover(c)
    <2>1. /\ job[c] \in CreateJob /\ owner[p] # None /\ owner[p] = job[c].user
          /\ WithHash(p, job[c].payload) # {}
        BY <1>1, <1>3, <1>5, <1>18 DEF Recover, CreateStatements, Knows, RowsFound
    <2>2. CASE job[c].setCurrent
        <3>1. Goto(c, "recoverCurrent")
            BY <1>3, <1>18, <2>1, <2>2 DEF Recover
        <3>2. "recoverCurrent" \in CreateStatements /\ "recoverCurrent" \notin SetStatements
            BY DEF CreateStatements, SetStatements
        <3> QED
            BY <1>1, <1>2, <1>3, <1>4, <1>6, <1>9, <2>1, <2>2, <3>1, <3>2, GotoKnows
    <2>3. CASE ~job[c].setCurrent
        BY <1>3, <1>8, <1>18, <2>1, <2>3 DEF Recover
    <2> QED
        BY <2>2, <2>3
<1>19. CASE FindTarget(c)
    <2>1. job[c] \in SetJob /\ owner[p] # None /\ owner[p] = job[c].user
        BY <1>5, <1>19 DEF FindTarget, SetStatements
    <2>2. CASE job[c].id \in RevisionsOf(p)
        <3>1. Goto(c, "updateCurrent")
            BY <1>3, <1>19, <2>2 DEF FindTarget, RevisionsOf
        <3>2. "updateCurrent" \in SetStatements /\ "updateCurrent" \notin CreateStatements
            BY DEF CreateStatements, SetStatements
        <3> QED
            BY <1>1, <1>2, <1>3, <1>4, <1>6, <1>9, <2>1, <2>2, <3>1, <3>2, GotoKnows
    <2>3. CASE job[c].id \notin RevisionsOf(p)
        BY <1>3, <1>7, <1>19, <2>3 DEF FindTarget, RevisionsOf
    <2> QED
        BY <2>2, <2>3
<1>20. CASE UpdateCurrent(c)
    <2>1. job[c].op # "create"
        BY <1>5, <1>20, JobKinds DEF UpdateCurrent, SetStatements
    <2> QED
        BY <1>8, <1>20, <2>1 DEF UpdateCurrent
<1> QED
    BY <1>10, <1>11, <1>12, <1>13, <1>14, <1>15, <1>16, <1>17, <1>18, <1>19, <1>20,
       <1>21, <1>22 DEF Handle

\* A new request knows nothing yet, and has not been beaten.
LEMMA SubmitStep ==
    ASSUME PackagesInv, TypeOK', Grows, NEW c \in Client, NEW j \in Requests, Submit(c, j)
    PROVE  Knows(c)'
<1>1. TypeOK /\ Knows(c)
    BY DEF PackagesInv
<1>2. /\ pc'[c] = "checkOwner" /\ job'[c] = j /\ tx'[c] = tx[c] /\ answer'[c] = answer[c]
      /\ begun'[c] = Count(j.packageId)
    BY <1>1 DEF Submit, Goto, TypeOK, Count
<1>3. tx[c] = NoLocal /\ answer[c] = None /\ j \in CreateJob \cup SetJob
    BY <1>1, RequestsType, JobKinds DEF Submit, Knows, RightStatement, TrueAnswer
<1>4. PICK p : p = j.packageId
    OBVIOUS
<1>5. RightStatement(c)'
    BY <1>2, <1>3 DEF RightStatement, CreateStatements, SetStatements
<1>6. RowsFound(c)'
    BY <1>2 DEF RowsFound, Inserted
<1>7. Beaten(c)'
    <2>1. Count(p) \in Nat /\ Count(p)' \in Nat /\ Count(p) <= Count(p)'
        BY <1>1, FoundStays
    <2>2. tx'[c].attempt = 0
        BY <1>2, <1>3 DEF NoLocal
    <2>3. answer'[c] # "CONFLICT_RETRY_EXHAUSTED"
        BY <1>2, <1>3, NoneIsNoAnswer DEF Answers
    <2>4. job'[c].packageId = p /\ begun'[c] = Count(p)
        BY <1>2, <1>4
    <2> QED
        BY <1>2, <2>1, <2>2, <2>3, <2>4 DEF Beaten, Inserted
<1>8. TrueAnswer(c)'
    BY <1>2, <1>3, NoneIsNoAnswer DEF TrueAnswer, Answers
<1> QED
    BY <1>5, <1>6, <1>7, <1>8 DEF Knows

\* A client whose request is over claims nothing.
LEMMA LeaveStep ==
    ASSUME TypeOK, NEW c \in Client, Leave(c)
    PROVE  Knows(c)'
<1>1. /\ pc'[c] = "idle" /\ job'[c] = NoJob /\ tx'[c] = NoLocal /\ answer'[c] = None
    BY DEF Leave, TypeOK
<1> QED
    BY <1>1, NoneIsNoAnswer
       DEF Knows, RightStatement, RowsFound, Beaten, TrueAnswer, Answers,
           CreateStatements, SetStatements, Inserted

-----------------------------------------------------------------------------
(* Steps keep the waiting rows the next ones *)

\* A client that still waits for its commit after a step without new rows.
LEMMA NextStays ==
    ASSUME UNCHANGED rows,
           \A c \in Client : pc'[c] \in Inserted =>
              pc[c] \in Inserted /\ tx'[c] = tx[c] /\ job'[c] = job[c],
           \A c \in Client : IsNext(c)
    PROVE  \A c \in Client : IsNext(c)'
<1> SUFFICES ASSUME NEW c \in Client, pc'[c] \in Inserted PROVE IsNext(c)'
    BY DEF IsNext
<1>1. PICK p, h : p = job[c].packageId /\ h = job[c].payload
    OBVIOUS
<1>2. Count(p)' = Count(p) /\ WithHash(p, h)' = WithHash(p, h)
    BY DEF Count, WithHash, RevisionsOf
<1>3. pc[c] \in Inserted /\ tx'[c] = tx[c] /\ job'[c] = job[c]
    OBVIOUS
<1>4. tx[c].nextRev = Count(p) /\ WithHash(p, h) = {}
    BY <1>1, <1>3 DEF IsNext
<1>5. \A d \in Client \ {c} : pc'[d] \in Inserted => job'[d].packageId # job'[c].packageId
    BY <1>3 DEF IsNext
<1>6. job'[c].packageId = p /\ job'[c].payload = h
    BY <1>1, <1>3
<1> QED
    BY <1>2, <1>3, <1>4, <1>5, <1>6 DEF IsNext

\* A client that still waits for its commit after a row for another package.
LEMMA NextStaysElsewhere ==
    ASSUME TypeOK, NEW x \in Row, rows' = Append(rows, x),
           \A c \in Client : pc'[c] \in Inserted =>
              /\ pc[c] \in Inserted /\ tx'[c] = tx[c] /\ job'[c] = job[c]
              /\ job[c].packageId # x.packageId,
           \A c \in Client : IsNext(c)
    PROVE  \A c \in Client : IsNext(c)'
<1> SUFFICES ASSUME NEW c \in Client, pc'[c] \in Inserted PROVE IsNext(c)'
    BY DEF IsNext
<1>1. PICK p, h : p = job[c].packageId /\ h = job[c].payload
    OBVIOUS
<1>2. p # x.packageId
    BY <1>1
<1>3. Count(p)' = Count(p) /\ RevisionsOf(p)' = RevisionsOf(p)
    BY <1>2, AddedRevision
<1>4. WithHash(p, h)' = WithHash(p, h)
    <2>1. \A r \in RevisionsOf(p) : rows'[r] = rows[r]
        BY AppendRow DEF RevisionsOf
    <2> QED
        BY <1>3, <2>1 DEF WithHash
<1>5. pc[c] \in Inserted /\ tx'[c] = tx[c] /\ job'[c] = job[c]
    OBVIOUS
<1>6. tx[c].nextRev = Count(p) /\ WithHash(p, h) = {}
    BY <1>1, <1>5 DEF IsNext
<1>7. \A d \in Client \ {c} : pc'[d] \in Inserted => job'[d].packageId # job'[c].packageId
    BY <1>5 DEF IsNext
<1>8. job'[c].packageId = p /\ job'[c].payload = h
    BY <1>1, <1>5
<1> QED
    BY <1>3, <1>4, <1>5, <1>6, <1>7, <1>8 DEF IsNext

\* An insert that succeeds meets no row with its number or its payload, waits for
\* no other insert that would be one, and so has the next row of its package.
LEMMA InsertIsNext ==
    ASSUME PackagesInv, NEW c \in Client, Insert(c), pc'[c] = "reference"
    PROVE  \A d \in Client : IsNext(d)'
<1>1. TypeOK /\ RevsAreDense /\ Knows(c) /\ pc[c] = "insert" /\ \A d \in Client : IsNext(d)
    BY DEF PackagesInv, StoreInv, Insert
<1>2. PICK p, h : p \in Package /\ p = job[c].packageId /\ h = job[c].payload
    BY <1>1, JobType
<1>3. UNCHANGED <<rows, job, tx>> /\ \A d \in Client : d # c => pc'[d] = pc[d]
    <2>1. UNCHANGED <<rows, job>>
        BY DEF Insert, stored
    <2>2. pc' = [pc EXCEPT ![c] = "reference"] /\ tx' = tx
        BY <1>1 DEF Insert, RevConflict, Goto, GotoWith, Reply, TypeOK
    <2> QED
        BY <1>1, <2>1, <2>2 DEF TypeOK
<1>4. \A r \in RevisionsOf(p) : rows[r].rev # tx[c].nextRev /\ rows[r].revisionHash # h
    <2>1. {r \in RevisionsOf(p) : Collides(c, rows[r])} = {}
        BY <1>1, <1>2 DEF Insert, RevConflict, Goto, GotoWith, Reply, TypeOK
    <2>2. \A r \in RevisionsOf(p) : rows[r].packageId = p
        BY DEF RevisionsOf
    <2> QED
        BY <1>2, <2>1, <2>2 DEF Collides
<1>5. tx[c].nextRev = Count(p)
    <2>1. tx[c].nextRev \in Nat
        <3>1. tx[c] \in Local
            BY <1>1 DEF TypeOK
        <3> QED
            BY <3>1 DEF Local
    <2>2. tx[c].nextRev <= Count(p)
        BY <1>1, <1>2 DEF Knows, Beaten
    <2>3. ~(tx[c].nextRev < Count(p))
        BY <1>1, <1>2, <1>4, <2>1, NumbersTaken
    <2> QED
        BY <1>1, <2>1, <2>2, <2>3, RevisionsFinite
<1>6. WithHash(p, h) = {}
    BY <1>4 DEF WithHash
<1>7. ASSUME NEW d \in Client \ {c}, pc[d] \in Inserted
      PROVE  job[d].packageId # p
    <2>1. ~Collides(c, NewRow(d))
        BY <1>7 DEF Insert, Waits
    <2>2. NewRow(d).packageId = job[d].packageId /\ NewRow(d).rev = Count(job[d].packageId)
        BY <1>7, CommittedRow
    <2> QED
        BY <1>2, <1>5, <2>1, <2>2 DEF Collides
<1>8. \A q, g : Count(q)' = Count(q) /\ WithHash(q, g)' = WithHash(q, g)
    BY <1>3 DEF Count, WithHash, RevisionsOf
<1>9. ASSUME NEW d \in Client, pc'[d] \in Inserted PROVE IsNext(d)'
    <2>1. PICK q, g : q = job[d].packageId /\ g = job[d].payload
        OBVIOUS
    <2>2. job'[d].packageId = q /\ job'[d].payload = g /\ tx'[d] = tx[d]
        BY <1>3, <2>1
    <2>3. tx[d].nextRev = Count(q) /\ WithHash(q, g) = {}
        <3>1. CASE d = c
            BY <1>2, <1>5, <1>6, <2>1, <3>1
        <3>2. CASE d # c
            BY <1>1, <1>3, <1>9, <2>1, <3>2 DEF IsNext
        <3> QED
            BY <3>1, <3>2
    <2>4. tx'[d].nextRev = Count(q)' /\ WithHash(q, g)' = {}
        BY <1>8, <2>2, <2>3
    <2>5. ASSUME NEW e \in Client \ {d}, pc'[e] \in Inserted
          PROVE  job'[e].packageId # q
        <3>1. CASE e = c
            BY <1>2, <1>3, <1>7, <1>9, <2>1, <3>1
        <3>2. CASE d = c
            BY <1>2, <1>3, <1>7, <2>1, <2>5, <3>2
        <3>3. CASE e # c /\ d # c
            BY <1>1, <1>3, <1>9, <2>1, <2>5, <3>3 DEF IsNext
        <3> QED
            BY <3>1, <3>2, <3>3
    <2> QED
        BY <2>2, <2>4, <2>5 DEF IsNext
<1> QED
    BY <1>9 DEF IsNext

\* Every step keeps the waiting rows the next ones of their packages.
LEMMA NextPreserved ==
    ASSUME PackagesInv, [Next]_vars
    PROVE  \A c \in Client : IsNext(c)'
<1>1. TypeOK /\ \A c \in Client : IsNext(c)
    BY DEF PackagesInv
<1>2. ASSUME NEW j \in Requests, CreatePackage(j)
      PROVE  \A c \in Client : IsNext(c)'
    <2>1. /\ j.packageId \in Package /\ j.payload \in Payload
        BY <1>2, RequestsType, JobKinds DEF CreatePackage
    <2> DEFINE x == [packageId |-> j.packageId, rev |-> 0,
                     revisionHash |-> j.payload, parent |-> None]
    <2>2. x \in Row /\ x.packageId = j.packageId
        BY <2>1 DEF Row
    <2>3. rows' = Append(rows, x) /\ UNCHANGED <<pc, tx, job>>
        BY <1>2 DEF CreatePackage, requestVars
    <2>4. \A c \in Client : pc[c] \in Inserted => owner[job[c].packageId] # None
        BY CommittedRow
    <2>5. \A c \in Client : pc[c] \in Inserted => job[c].packageId # x.packageId
        BY <1>2, <2>2, <2>4 DEF CreatePackage
    <2> HIDE DEF x
    <2> QED
        BY <1>1, <2>2, <2>3, <2>5, NextStaysElsewhere
<1>3. ASSUME NEW c \in Client, NEW j \in Requests, Submit(c, j)
      PROVE  \A d \in Client : IsNext(d)'
    <2>1. pc'[c] = "checkOwner" /\ UNCHANGED rows
        BY <1>1, <1>3 DEF Submit, Goto, TypeOK, stored
    <2> QED
        BY <1>1, <1>3, <2>1, SubmitFrame, NextStays DEF Same, Inserted
<1>4. ASSUME NEW c \in Client, Receive(c) \/ Interrupt(c)
      PROVE  \A d \in Client : IsNext(d)'
    <2>1. pc'[c] = "idle" /\ UNCHANGED rows /\ Leave(c)
        BY <1>1, <1>4 DEF Receive, Interrupt, Leave, TypeOK, stored
    <2> QED
        BY <1>1, <2>1, LeaveFrame, NextStays DEF Same, Inserted
<1>5. ASSUME NEW c \in Client, Handle(c)
      PROVE  \A d \in Client : IsNext(d)'
    <2>1. UNCHANGED job /\ \A d \in Client : d # c => Same(d)
        BY <1>1, <1>5, HandleFrame
    <2>2. CASE Commit(c)
        <3>1. /\ NewRow(c) \in Row /\ NewRow(c).packageId = job[c].packageId
              /\ pc[c] \in Inserted /\ rows' = Append(rows, NewRow(c))
            BY <2>2, CommittedRow DEF Commit, Inserted
        <3>2. pc'[c] \notin Inserted
            BY <1>1, <2>2 DEF Commit, Reply, Inserted, TypeOK
        <3>3. ASSUME NEW d \in Client, pc'[d] \in Inserted
              PROVE  /\ pc[d] \in Inserted /\ tx'[d] = tx[d] /\ job'[d] = job[d]
                     /\ job[d].packageId # NewRow(c).packageId
            <4>1. d # c
                BY <3>2, <3>3
            <4>2. pc[d] \in Inserted /\ tx'[d] = tx[d] /\ job'[d] = job[d]
                BY <2>1, <3>3, <4>1 DEF Same
            <4> QED
                BY <1>1, <3>1, <4>1, <4>2 DEF IsNext
        <3> QED
            BY <1>1, <3>1, <3>3, NextStaysElsewhere
    <2>3. CASE Insert(c) /\ pc'[c] = "reference"
        BY <2>3, InsertIsNext
    <2>4. CASE ~Commit(c) /\ ~(Insert(c) /\ pc'[c] = "reference")
        <3>1. UNCHANGED rows
            BY <1>5, <2>4 DEF Handle, CheckOwner, Begin, FindByHash, UseExisting,
               CommitExisting, ReadMax, CheckParent, Insert, Reference, SetPointer,
               Recover, FindTarget, UpdateCurrent, stored
        <3>2. pc'[c] \in Inserted => pc[c] \in Inserted /\ tx'[c] = tx[c]
            <4>1. CASE Reference(c) \/ SetPointer(c)
                BY <1>1, <4>1 DEF Reference, SetPointer, Goto, Inserted, TypeOK
            <4>2. CASE Insert(c)
                BY <1>1, <2>4, <4>2 DEF Insert, RevConflict, Reply, Goto, GotoWith, Inserted, TypeOK
            <4>3. CASE ~Insert(c) /\ ~Reference(c) /\ ~SetPointer(c)
                <5>1. \/ \E a : Reply(c, a)
                      \/ \E s : s \notin Inserted /\ Goto(c, s)
                      \/ \E s, local : s \notin Inserted /\ GotoWith(c, s, local)
                    BY <1>5, <2>4, <4>3 DEF Handle, CheckOwner, Begin, FindByHash, UseExisting,
                       CommitExisting, ReadMax, CheckParent, Recover, FindTarget,
                       UpdateCurrent, RevConflict, Inserted
                <5> QED
                    BY <1>1, <5>1 DEF Reply, Goto, GotoWith, Inserted, TypeOK
            <4> QED
                BY <4>1, <4>2, <4>3
        <3> QED
            BY <1>1, <2>1, <3>1, <3>2, NextStays DEF Same
    <2> QED
        BY <2>2, <2>3, <2>4
<1>6. CASE UNCHANGED vars
    BY <1>1, <1>6, NextStays DEF vars
<1> QED
    BY <1>2, <1>3, <1>4, <1>5, <1>6 DEF Next

-----------------------------------------------------------------------------
(* The invariant *)

\* At first there is nothing.
LEMMA InvInit == Init => PackagesInv
<1> SUFFICES ASSUME Init PROVE PackagesInv
    OBVIOUS
<1>1. /\ rows = <<>> /\ Len(rows) = 0 /\ DOMAIN rows = {}
      /\ \A c \in Client : /\ pc[c] = "idle" /\ job[c] = NoJob /\ tx[c] = NoLocal
                           /\ answer[c] = None
      /\ \A p \in Package : owner[p] = None
    BY DEF Init
<1>2. TypeOK
    <2>1. NoLocal \in Local
        BY DEF NoLocal, Local
    <2>2. rows \in Seq(Row) /\ Len(rows) <= MaxRevisions
        BY <1>1, Sentinels
    <2> QED
        BY <2>1, <2>2 DEF Init, TypeOK
<1>3. BoundOK
    <2>1. Pending = {}
        BY <1>1, JobKinds DEF Pending
    <2> QED
        BY <1>1, <2>1, FS_EmptySet, Sentinels DEF BoundOK
<1>4. \A p : RevisionsOf(p) = {}
    BY <1>1 DEF RevisionsOf
<1>5. RevsAreDense
    <2> SUFFICES ASSUME NEW p \in Package
                 PROVE  {rows[r].rev : r \in RevisionsOf(p)} = 0..(Count(p) - 1)
        BY DEF RevsAreDense, Count
    <2>1. Count(p) = 0
        BY <1>4, FS_EmptySet DEF Count
    <2>2. 0..(Count(p) - 1) = {}
        BY <2>1
    <2> QED
        BY <1>4, <2>2
<1>6. HashesUnique /\ LineageDescends /\ OwnedOnly /\ CurrentIsOwn
    BY <1>1, <1>4 DEF HashesUnique, LineageDescends, OwnedOnly, CurrentIsOwn
<1>7. ASSUME NEW c \in Client PROVE Knows(c) /\ IsNext(c)
    BY <1>1, NoneIsNoAnswer
       DEF Knows, RightStatement, RowsFound, Beaten, TrueAnswer, IsNext, Answers,
           CreateStatements, SetStatements, Inserted
<1> QED
    BY <1>2, <1>3, <1>5, <1>6, <1>7 DEF PackagesInv, StoreInv

\* The invariant is inductive: the client that moves is covered by OwnStep,
\* SubmitStep or LeaveStep, every other one by OthersKnow.
LEMMA InvPreserved == PackagesInv /\ [Next]_vars => PackagesInv'
<1> SUFFICES ASSUME PackagesInv, [Next]_vars PROVE PackagesInv'
    OBVIOUS
<1>1. TypeOK /\ \A c \in Client : Knows(c)
    BY DEF PackagesInv
<1>2. TypeOK' /\ BoundOK' /\ StoreInv' /\ Grows
    BY TypePreserved, BoundPreserved, StoreStep
<1>3. \A c \in Client : IsNext(c)'
    BY NextPreserved
<1>4. \A d \in Client : Same(d) => Knows(d)'
    BY <1>1, <1>2, OthersKnow
<1>5. ASSUME NEW d \in Client PROVE Knows(d)'
    <2>1. ASSUME NEW j \in Requests, CreatePackage(j) PROVE Knows(d)'
        BY <1>4, <2>1 DEF CreatePackage, requestVars, Same
    <2>2. ASSUME NEW c \in Client, NEW j \in Requests, Submit(c, j) PROVE Knows(d)'
        BY <1>1, <1>2, <1>4, <2>2, SubmitFrame, SubmitStep
    <2>3. ASSUME NEW c \in Client, Receive(c) \/ Interrupt(c) PROVE Knows(d)'
        BY <1>1, <1>4, <2>3, LeaveFrame, LeaveStep DEF Receive, Interrupt
    <2>4. ASSUME NEW c \in Client, Handle(c) PROVE Knows(d)'
        BY <1>1, <1>2, <1>4, <2>4, HandleFrame, OwnStep
    <2>5. CASE UNCHANGED vars
        BY <1>4, <2>5 DEF vars, Same
    <2> QED
        BY <2>1, <2>2, <2>3, <2>4, <2>5 DEF Next
<1> QED
    BY <1>2, <1>3, <1>5 DEF PackagesInv

\* The inductive invariant holds in every reachable state.
LEMMA PackagesInvariant == Spec => []PackagesInv
BY InvInit, InvPreserved, PTL DEF Spec

-----------------------------------------------------------------------------
(* Theorems *)

\* Every request, local variable and row has its type, and the bound on the rows
\* is kept.
THEOREM PackagesTypeCorrect == Spec => []TypeOK
<1>1. PackagesInv => TypeOK
    BY DEF PackagesInv
<1> QED
    BY <1>1, PackagesInvariant, PTL

\* The revisions of every package are numbered 0, 1, 2, ... without a gap and
\* without a number twice, for any number of racing transactions.
THEOREM PackagesRevsDense == Spec => []RevsAreDense
<1>1. PackagesInv => RevsAreDense
    BY DEF PackagesInv, StoreInv
<1> QED
    BY <1>1, PackagesInvariant, PTL

\* A parent is an earlier revision of the same package, so that every walk along
\* the lineage ends.
THEOREM PackagesLineageDescends == Spec => []LineageDescends
<1>1. PackagesInv => LineageDescends
    BY DEF PackagesInv, StoreInv
<1> QED
    BY <1>1, PackagesInvariant, PTL

\* Every package has a current revision, one of its own.
THEOREM PackagesCurrentIsOwn == Spec => []CurrentIsOwn
<1>1. PackagesInv => CurrentIsOwn
    BY DEF PackagesInv, StoreInv
<1> QED
    BY <1>1, PackagesInvariant, PTL

\* A request is told to give up only after two other revisions of its package
\* were committed while it ran.
THEOREM PackagesExhaustedLostTwice == Spec => []ExhaustedLostTwice
<1>1. PackagesInv => ExhaustedLostTwice
    <2> SUFFICES ASSUME PackagesInv,
                        NEW c \in Client, answer[c] = "CONFLICT_RETRY_EXHAUSTED"
                 PROVE  Count(job[c].packageId) >= begun[c] + 2
        BY DEF ExhaustedLostTwice, Count
    <2>1. begun[c] + 2 <= Count(job[c].packageId)
        BY DEF PackagesInv, Knows, Beaten
    <2>2. begun[c] \in Nat /\ Count(job[c].packageId) \in Nat
        BY RevisionsFinite DEF PackagesInv, TypeOK
    <2> QED
        BY <2>1, <2>2
<1> QED
    BY <1>1, PackagesInvariant, PTL

\* A create request told "ok" finds its payload stored exactly once.
THEOREM PackagesCreatedOnce == Spec => []CreatedOnce
<1>1. PackagesInv => CreatedOnce
    <2> SUFFICES ASSUME PackagesInv,
                        NEW c \in Client, answer[c] = "ok", job[c].op = "create"
                 PROVE  Cardinality(WithHash(job[c].packageId, job[c].payload)) = 1
        BY DEF CreatedOnce
    <2>1. PICK r : r \in WithHash(job[c].packageId, job[c].payload)
        BY DEF PackagesInv, Knows, TrueAnswer
    <2>2. \A s \in WithHash(job[c].packageId, job[c].payload) : s = r
        BY <2>1 DEF PackagesInv, StoreInv, HashesUnique, WithHash, RevisionsOf
    <2>3. WithHash(job[c].packageId, job[c].payload) = {r}
        BY <2>1, <2>2
    <2> QED
        BY <2>3, FS_Singleton
<1> QED
    BY <1>1, PackagesInvariant, PTL

\* A step that moves the pointer of a package is the answer "ok" to a request of
\* its owner for that package that asked for it.
LEMMA PointerStep ==
    ASSUME PackagesInv, [Next]_vars, NEW p \in Package,
           owner[p] # None, current'[p] # current[p]
    PROVE  \E c \in Client : Pointed(c) /\ job[c].packageId = p /\ job[c].user = owner[p]
<1>1. TypeOK /\ \A c \in Client : Knows(c)
    BY DEF PackagesInv
<1>2. PICK c \in Client : Commit(c) \/ CommitExisting(c) \/ UpdateCurrent(c)
    <2>1. ASSUME NEW j \in Requests, CreatePackage(j) PROVE FALSE
        <3>1. j.packageId # p
            BY <2>1 DEF CreatePackage
        <3> QED
            BY <1>1, <2>1, <3>1 DEF CreatePackage, TypeOK
    <2>2. ASSUME NEW c \in Client, NEW j \in Requests, Submit(c, j) PROVE FALSE
        BY <2>2 DEF Submit, stored
    <2>3. ASSUME NEW c \in Client, Receive(c) \/ Interrupt(c) PROVE FALSE
        BY <2>3 DEF Receive, Interrupt, stored
    <2>4. ASSUME NEW c \in Client, Handle(c),
                 ~(Commit(c) \/ CommitExisting(c) \/ UpdateCurrent(c))
          PROVE  FALSE
        BY <2>4 DEF Handle, CheckOwner, Begin, FindByHash, UseExisting, ReadMax, CheckParent,
                    Insert, Reference, SetPointer, Recover, FindTarget, stored
    <2>5. ~UNCHANGED vars
        BY DEF vars
    <2> QED
        BY <2>1, <2>2, <2>3, <2>4, <2>5 DEF Next
<1>3. /\ pc[c] \in CreateStatements \cup SetStatements
      /\ pc[c] # "done" /\ Reply(c, "ok")
    BY <1>2 DEF Commit, CommitExisting, UpdateCurrent, CreateStatements, SetStatements
<1>4. pc'[c] = "done" /\ answer'[c] = "ok"
    BY <1>1, <1>3 DEF Reply, TypeOK
<1>5. job[c].packageId = p
    <2>1. CASE Commit(c)
        BY <1>1, <2>1 DEF Commit, TypeOK
    <2>2. CASE CommitExisting(c)
        <3>1. PICK r : current' = [current EXCEPT ![job[c].packageId] = r]
            BY <2>2 DEF CommitExisting
        <3> QED
            BY <1>1, <3>1 DEF TypeOK
    <2>3. CASE UpdateCurrent(c)
        BY <1>1, <2>3 DEF UpdateCurrent, TypeOK
    <2> QED
        BY <1>2, <2>1, <2>2, <2>3
<1>6. job[c].user = owner[p]
    BY <1>1, <1>3, <1>5 DEF Knows, RightStatement
<1>7. ASSUME job[c].op = "create" PROVE job[c].setCurrent
    <2>1. CASE Commit(c)
        <3>1. current'[p] = IF job[c].setCurrent THEN Len(rows) + 1 ELSE current[p]
            BY <1>1, <1>5, <2>1 DEF Commit, TypeOK
        <3> QED
            BY <3>1
    <2>2. CASE CommitExisting(c)
        BY <1>1, <2>2 DEF CommitExisting, Knows, RowsFound
    <2>3. CASE UpdateCurrent(c)
        BY <1>1, <1>7, <2>3, JobKinds DEF UpdateCurrent, Knows, RightStatement, SetStatements
    <2> QED
        BY <1>2, <2>1, <2>2, <2>3
<1> QED
    BY <1>3, <1>4, <1>5, <1>6, <1>7 DEF Pointed

\* Whoever asked for the pointer and is told "ok" has moved it where it was asked
\* to go.
LEMMA PointedStep ==
    ASSUME PackagesInv, [Next]_vars, NEW c \in Client, Pointed(c)
    PROVE  IF job[c].op = "set" THEN current'[job[c].packageId] = job[c].id
           ELSE current'[job[c].packageId] \in WithHash(job[c].packageId, job[c].payload)'
<1>1. TypeOK /\ Knows(c)
    BY DEF PackagesInv
<1>2. /\ pc[c] # "done" /\ pc'[c] = "done" /\ answer'[c] = "ok"
      /\ job[c].op = "create" => job[c].setCurrent
    BY DEF Pointed
<1>3. Handle(c)
    <2>1. ASSUME NEW j \in Requests, CreatePackage(j) PROVE FALSE
        BY <1>2, <2>1 DEF CreatePackage, requestVars
    <2>2. ASSUME NEW d \in Client, NEW j \in Requests, Submit(d, j) PROVE FALSE
        BY <1>1, <1>2, <2>2, SubmitFrame DEF Same, Submit, Goto, TypeOK
    <2>3. ASSUME NEW d \in Client, Receive(d) \/ Interrupt(d) PROVE FALSE
        <3>1. Leave(d)
            BY <2>3 DEF Receive, Interrupt
        <3>2. CASE d = c
            BY <1>1, <1>2, <3>1, <3>2 DEF Leave, TypeOK
        <3>3. CASE d # c
            BY <1>1, <1>2, <3>1, <3>3, LeaveFrame DEF Same
        <3> QED
            BY <3>2, <3>3
    <2>4. ASSUME NEW d \in Client, Handle(d), d # c PROVE FALSE
        BY <1>1, <1>2, <2>4, HandleFrame DEF Same
    <2>5. ~UNCHANGED vars
        BY <1>2 DEF vars
    <2> QED
        BY <2>1, <2>2, <2>3, <2>4, <2>5 DEF Next
<1>4. PICK p : p = job[c].packageId
    OBVIOUS
<1>5. /\ pc[c] \in CreateStatements => job[c].op = "create"
      /\ pc[c] \in SetStatements => job[c].op = "set"
      /\ pc[c] \in CreateStatements \cup SetStatements => p \in Package
    BY <1>1, <1>4, JobKinds DEF Knows, RightStatement
<1>6. ASSUME NEW a \in Answers, a # "ok", Reply(c, a) PROVE FALSE
    BY <1>1, <1>2, <1>6 DEF Reply, TypeOK
<1>7. ASSUME NEW s, s # "done", Goto(c, s) PROVE FALSE
    BY <1>1, <1>2, <1>7 DEF Goto, TypeOK
<1>8. ASSUME NEW s, NEW local, s # "done", GotoWith(c, s, local) PROVE FALSE
    BY <1>1, <1>2, <1>8 DEF GotoWith, TypeOK
<1>9. /\ {"NOT_FOUND", "FORBIDDEN", "INVALID_INPUT", "CONFLICT_RETRY_EXHAUSTED"} \subseteq Answers
      /\ ~RevConflict(c)
    <2>1. {"NOT_FOUND", "FORBIDDEN", "INVALID_INPUT", "CONFLICT_RETRY_EXHAUSTED"} \subseteq Answers
        BY DEF Answers
    <2> QED
        BY <1>6, <1>8, <2>1 DEF RevConflict
<1>10. Commit(c) \/ CommitExisting(c) \/ UpdateCurrent(c)
    <2>1. CASE CheckOwner(c) \/ FindTarget(c)
        BY <1>6, <1>7, <1>9, <2>1 DEF CheckOwner, FindTarget
    <2>2. CASE Begin(c) \/ ReadMax(c)
        BY <1>6, <1>8, <1>9, <2>2 DEF Begin, ReadMax
    <2>3. CASE FindByHash(c) \/ Recover(c)
        <3>1. pc[c] \in CreateStatements
            BY <2>3 DEF FindByHash, Recover, CreateStatements
        <3>2. job[c].setCurrent
            BY <1>2, <1>5, <3>1
        <3> QED
            BY <1>7, <1>9, <2>3, <3>2 DEF FindByHash, Recover
    <2>4. CASE UseExisting(c) \/ CheckParent(c) \/ Insert(c) \/ Reference(c) \/ SetPointer(c)
        BY <1>6, <1>7, <1>9, <2>4 DEF UseExisting, CheckParent, Insert, Reference, SetPointer
    <2> QED
        BY <1>3, <2>1, <2>2, <2>3, <2>4 DEF Handle
<1>11. CASE Commit(c)
    <2>1. pc[c] \in CreateStatements /\ pc[c] \in Inserted /\ rows' = Append(rows, NewRow(c))
        BY <1>11 DEF Commit, CreateStatements, Inserted
    <2>2. job[c].setCurrent /\ job[c].op = "create" /\ p \in Package
        BY <1>2, <1>5, <2>1
    <2>3. current'[p] = Len(rows) + 1
        BY <1>1, <1>4, <1>11, <2>2 DEF Commit, TypeOK
    <2>4. /\ NewRow(c) \in Row /\ NewRow(c).packageId = p
          /\ NewRow(c).revisionHash = job[c].payload
        BY <1>4, <2>1, CommittedRow
    <2>5. Len(rows) + 1 \in RevisionsOf(p)' /\ rows'[Len(rows) + 1].revisionHash = job[c].payload
        BY <1>1, <2>1, <2>4, AddedRevision, AppendRow
    <2>6. UNCHANGED job
        BY <1>11 DEF Commit
    <2>7. current'[p] \in WithHash(p, job[c].payload)'
        BY <2>3, <2>5, <2>6 DEF WithHash
    <2> QED
        BY <1>4, <2>2, <2>6, <2>7 DEF WithHash, RevisionsOf
<1>12. CASE CommitExisting(c)
    <2>1. pc[c] \in CreateStatements /\ UNCHANGED <<rows, job>>
        BY <1>12 DEF CommitExisting, CreateStatements
    <2>2. job[c].op = "create" /\ p \in Package
        BY <1>5, <2>1
    <2>3. PICK r \in WithHash(p, job[c].payload) : current' = [current EXCEPT ![p] = r]
        BY <1>4, <1>12 DEF CommitExisting
    <2>4. current'[p] \in WithHash(p, job[c].payload)
        BY <1>1, <2>2, <2>3 DEF TypeOK
    <2> QED
        BY <1>4, <2>1, <2>2, <2>4 DEF WithHash, RevisionsOf
<1>13. CASE UpdateCurrent(c)
    <2>1. job[c].op = "set" /\ p \in Package
        BY <1>5, <1>13 DEF UpdateCurrent, SetStatements
    <2> QED
        BY <1>1, <1>4, <1>13, <2>1 DEF UpdateCurrent, TypeOK
<1> QED
    BY <1>10, <1>11, <1>12, <1>13

\* The current revision of a package moves only in the step that answers a
\* request of its owner that asked for it, and goes where that request asked.
THEOREM PackagesCurrentMovesOnRequest == Spec => CurrentMovesOnRequest
<1>1. PackagesInv /\ [Next]_vars =>
        [/\ \A p \in Package :
              owner[p] # None /\ current'[p] # current[p] =>
                 \E c \in Client :
                     Pointed(c) /\ job[c].packageId = p /\ job[c].user = owner[p]
         /\ \A c \in Client :
              Pointed(c) =>
                 IF job[c].op = "set" THEN current'[job[c].packageId] = job[c].id
                 ELSE current'[job[c].packageId] \in WithHash(job[c].packageId, job[c].payload)'
        ]_vars
    BY PointerStep, PointedStep
<1> QED
    BY <1>1, PackagesInvariant, PTL DEF Spec, CurrentMovesOnRequest
=============================================================================
