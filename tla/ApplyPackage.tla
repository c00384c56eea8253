----------------------------- MODULE ApplyPackage -----------------------------
(***************************************************************************)
(* Applying a task package: the current revision meets a target payload, a *)
(* net delta between two revisions and, if a model is asked for one, the   *)
(* delta it proposes. Nothing is written: the answer is a report and, when *)
(* the caller wants an audit, an execution record that is replayed first.  *)
(* The answer is a function of the revisions (NetDelta) and of the request,*)
(* so this module adds operators to that one and no action.                *)
(*                                                                         *)
(* The audit is an option of the service that the HTTP route never sets.   *)
(***************************************************************************)
EXTENDS NetDelta

\* revisionToSemanticState: the units, and the hash of the revision, which no
\* other revision of the package has. Both go into the hash of a state.
StateOf(r) == [revision |-> r, units |-> revisions[r].units]

\* applyDelta keeps the hash of the revision that it starts from.
ApplyTo(state, delta) == [state EXCEPT !.units = Apply(@, delta).units]

CurrentRevision == Len(revisions)

-----------------------------------------------------------------------------
(* The three parts of a report, each with the states before and after it *)

Report(before, delta, applied) ==
    [delta |-> delta, conflicts |-> applied.conflicts, before |-> before,
     after |-> [before EXCEPT !.units = applied.units]]

Applied(state, delta) == Report(state, delta, Apply(state.units, delta))

\* applyRevisionNetDelta: a delta without a conflict leads to the target itself.
OrTarget(report, to) ==
    IF report.conflicts = {} THEN [report EXCEPT !.after = StateOf(to)] ELSE report

NetDeltaReport(from, to) ==
    OrTarget(Applied(StateOf(from), CrossBranchNetDelta(from, to)), to)

\* The proposal of a model: in best effort applied as it is, in strict mode
\* reduced to what the closure plan accepts, entries of it (see ClosurePlan).
ModelDeltaReport(delta) == Applied(StateOf(CurrentRevision), delta)

\* Without a net delta: from the current revision to the payload of the request.
TransitionReport(payload) ==
    ModelDeltaReport(Diff(revisions[CurrentRevision].units, payload))

-----------------------------------------------------------------------------
(* Requests, reports and records *)

\* A request names the two revisions of a net delta or not, brings a model's
\* delta or not, and has a target payload. What it, or an answer, has not is <<>>.
HasNet(request) == request.net # <<>>
HasModel(request) == request.model # <<>>

Reports(request) ==
    [net |-> IF HasNet(request) THEN <<NetDeltaReport(request.net[1], request.net[2])>>
             ELSE <<>>,
     model |-> IF HasModel(request) THEN <<ModelDeltaReport(request.model[1])>> ELSE <<>>,
     payload |-> IF HasNet(request) THEN <<>> ELSE <<TransitionReport(request.payload)>>]

TransitionOf(reports) == IF HasNet(reports) THEN reports.net[1] ELSE reports.payload[1]

\* A strict net delta with a conflict refuses the request.
Refused(request, reports) ==
    HasNet(request) /\ request.mode = "strict" /\ reports.net[1].conflicts # {}

ModeOf(request) ==
    CASE HasNet(request)                       -> "revision_net_delta"
      [] ~HasNet(request) /\ HasModel(request)  -> "llm_delta"
      [] ~HasNet(request) /\ ~HasModel(request) -> "transition"

\* attachV1: the net delta comes first. Its conflicts are those of the transition
\* unless the report is about the model's delta.
ReportedPart(request, reports) ==
    IF ModeOf(request) = "llm_delta" THEN reports.model[1] ELSE TransitionOf(reports)

\* buildApplyReportV1
ReportV1(request, reports) ==
    LET part == ReportedPart(request, reports) IN
    [mode |-> ModeOf(request), before |-> part.before, after |-> part.after,
     conflicts |-> part.conflicts]

\* Mutant of RecordedPart: the net delta comes first, as in the report.
RecordedPartNetFirst(reports) ==
    IF HasNet(reports) THEN reports.net[1]
    ELSE IF HasModel(reports) THEN reports.model[1] ELSE TransitionOf(reports)

\* attachExecutionAudit: in the record the model's delta comes first.
RecordedPart(reports) ==
    IF HasModel(reports) THEN reports.model[1] ELSE TransitionOf(reports)

\* The delta that the audit hands over: the model's, else the net delta, else none.
RecordedDelta(reports) ==
    IF HasModel(reports) THEN reports.model[1].delta
    ELSE IF HasNet(reports) THEN reports.net[1].delta
    ELSE None

\* buildExecutionRecordV1
ExecutionRecordV1(request, reports) ==
    LET part == RecordedPart(reports) IN
    [mode |-> ModeOf(request), before |-> part.before, after |-> part.after,
     delta |-> RecordedDelta(reports)]

\* The replay starts from the state before the model's delta, else from the first
\* revision of the net delta, else there is none.
ReplayBase(request) ==
    IF HasModel(request) THEN StateOf(CurrentRevision)
    ELSE IF HasNet(request) THEN StateOf(request.net[1])
    ELSE None

\* replayExecutionRecordV1, always in best effort.
Audit(request, record) ==
    IF ~HasNet(request) /\ ~HasModel(request) THEN "E_REPLAY_UNSUPPORTED"
    ELSE IF ApplyTo(ReplayBase(request), record.delta) = record.after THEN "matches"
    ELSE "E_REPLAY_MISMATCH"

-----------------------------------------------------------------------------
(* The requests to a package whose last revision has just been created; those
   about earlier revisions were considered when they were the last. *)
NetPair ==
    {<<>>} \cup {pair \in (DOMAIN revisions) \X (DOMAIN revisions) :
                    CurrentRevision \in ToSet(pair) /\ Related(pair[1], pair[2])}

Proposals == {<<Diff(revisions[r].units, revisions[CurrentRevision].units)>> :
                r \in DOMAIN revisions}

\* A model's delta comes alone or with the net delta to the current revision from
\* the one before it. Strict requests differ in being refused only.
Request ==
    LET request(nets, models, modes) ==
            [net: nets, model: models, mode: modes, payload: {revisions[1].units}]
        latest == {pair \in NetPair \ {<<>>} :
                      pair[1] = CurrentRevision - 1 /\ pair[2] = CurrentRevision}
    IN
    request(NetPair, {<<>>}, {"best_effort"}) \cup
    request(latest, {<<>>}, {"strict"}) \cup
    request({<<>>} \cup latest, Proposals, {"best_effort"})

AuditIsExact(request, reports) ==
    LET record == ExecutionRecordV1(request, reports) IN
    ~Refused(request, reports) =>
    /\ HasNet(request) \/ HasModel(request) =>
        (Audit(request, record) = "E_REPLAY_MISMATCH" <=>
            /\ ~HasModel(request)
            /\ request.net[1] # request.net[2]
            /\ reports.net[1].conflicts = {})
    /\ ReportV1(request, reports).after # record.after =>
           HasNet(request) /\ HasModel(request)

\* An audit fails just where it should not: on a net delta between two different
\* revisions that met no conflict, because the recorded state is the target
\* itself and the replay keeps the hash of the first revision. A net delta with
\* conflicts is replayed to the recorded state, and so is every delta of a
\* model, whatever net delta comes with it. But then the report that the record
\* holds is about the net delta, and the two may name different states.
AuditVerdictIsExact ==
    revisions # <<>> =>
        \A request \in Request : AuditIsExact(request, Reports(request))
=============================================================================
