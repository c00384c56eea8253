------------------------------ MODULE ClosurePlan ------------------------------
(***************************************************************************)
(* The delta closure planner: which part of a delta that a language model  *)
(* proposed is applied in strict mode. The proposal is cut into            *)
(* candidates, in a fixed order; each is tried on top of those accepted    *)
(* before it and refused if that meets a conflict or if one it depends on  *)
(* was refused. What was refused is explained by suggestions, and the      *)
(* contract of the plan counts what they cover.                            *)
(*                                                                         *)
(* Keys are ordered by domain first. A unit's one field is the answer of a *)
(* final decision, the rule or the threshold of a constraint, the level of *)
(* a risk, or what a unit without an id is named by. All paths of a unit   *)
(* being one, no path is a prefix of another.                              *)
(***************************************************************************)
EXTENDS StateAlgebra, FiniteSets, TLC

CONSTANTS
    Base,            \* the states that proposals are made for
    Proposal,        \* sequences of entries
    Policy,          \* risk policies as they are given
    MaxSuggestions,  \* 64 in the code
    Unsafe           \* a change whose path names a prototype

ASSUME LimitType == MaxSuggestions \in Nat \ {0}

ASSUME BaseType == Base \subseteq Seq(Unit)

\* The parser of a model's answer lets no other kinds and ops through.
ASSUME EntryType ==
    \A p \in Proposal :
        /\ p \in Seq(ToSet(p))
        /\ \A e \in ToSet(p) :
              /\ e.key \in Key
              /\ e.kind \in {"add", "remove", "modify"}
              /\ e.kind = "modify" =>
                    /\ e.changes \in Seq(ToSet(e.changes))
                    /\ \A c \in ToSet(e.changes) \ {Unsafe} :
                          /\ c.op \in {"set", "unset", "append", "remove"}
                          /\ ArrayOp(c) => c.value \in Element

VARIABLES
    base,        \* the current revision's state
    proposal,
    policy,
    candidates,  \* in the order in which they are considered
    unsafe,      \* keys of the changes that were refused at once
    next,        \* the candidate that is considered next
    accepted,    \* indices of candidates
    delta,       \* acceptedDelta
    refused,     \* what was refused, and why
    report       \* the plan's diagnostics and contract

vars == <<base, proposal, policy, candidates, unsafe, next, accepted, delta,
          refused, report>>

-----------------------------------------------------------------------------
(* The risk policy *)

Rule == {"POST_APPLY_CONFLICT", "MISSING_KEY", "DUP_KEY_ADD", "INVARIANT_BREAK",
         "CROSS_DOMAIN_DEP", "UNKNOWN"}

DefaultLevel ==
    [rule \in Rule |->
        CASE rule \in {"POST_APPLY_CONFLICT", "INVARIANT_BREAK"}        -> "L3"
          [] rule \in {"MISSING_KEY", "DUP_KEY_ADD", "CROSS_DOMAIN_DEP"} -> "L2"
          [] rule = "UNKNOWN"                                            -> "L1"]

\* normalizeRules: of several rules with one name the last one counts, and only
\* UNKNOWN may be missing.
IsValid(given) ==
    Rule \ {"UNKNOWN"} \subseteq {given.rules[i][1] : i \in DOMAIN given.rules}

LevelFor(given, rule) ==
    LET named == {i \in DOMAIN given.rules : given.rules[i][1] = rule} IN
    IF given.rules = <<>> THEN DefaultLevel[rule]
    ELSE IF named = {} THEN "L1"
    ELSE given.rules[CHOOSE i \in named : \A j \in named : j <= i][2]

-----------------------------------------------------------------------------
(* Candidates *)

Flat(entries, Of(_)) == FlattenSeq([i \in DOMAIN entries |-> Of(entries[i])])

EntryEffect(entry) ==
    CASE entry.kind = "add"    -> AddEffect(entry.value)
      [] entry.kind = "remove" -> RemoveEffect
      [] entry.kind = "modify" -> ModifyEffect(entry.before, entry.after, entry.changes)

WholeUnit(entry) ==
    [key |-> entry.key, path |-> "whole", op |-> entry.kind, effect |-> EntryEffect(entry)]

\* A change of a field by itself: an unset counts as a set.
OfField(entry, change) ==
    [key |-> entry.key, path |-> "field",
     op |-> IF change.op = "unset" THEN "set" ELSE change.op,
     effect |-> ModifyEffect(entry.before, entry.after, <<change>>)]

IsSplit(entry, given) ==
    entry.kind = "modify" /\ given.fieldLevelModify /\ entry.changes # <<>>

\* Mutant of CandidatesOf: the first change stands for the entry.
CandidatesOfFirst(entry, given) ==
    IF ~IsSplit(entry, given) \/ entry.changes[1] = Unsafe THEN <<WholeUnit(entry)>>
    ELSE <<OfField(entry, entry.changes[1])>>

CandidatesOf(entry, given) ==
    IF ~IsSplit(entry, given) THEN <<WholeUnit(entry)>>
    ELSE Flat(entry.changes, LAMBDA c : IF c = Unsafe THEN <<>> ELSE <<OfField(entry, c)>>)

UnsafeOf(entry, given) ==
    IF ~IsSplit(entry, given) THEN <<>>
    ELSE Flat(entry.changes, LAMBDA c : IF c = Unsafe THEN <<entry.key>> ELSE <<>>)

OpOrder == <<"remove", "add", "set", "append", "modify">>

\* compareCandidates: a whole unit comes after its fields.
Before(a, b) ==
    LET rank(c) == SelectInSeq(OpOrder, LAMBDA op : op = c.op) IN
    \/ a.key < b.key
    \/ a.key = b.key /\ a.path = "field" /\ b.path = "whole"
    \/ a.key = b.key /\ a.path = b.path /\ rank(a) < rank(b)

\* A stable sort.
SortedBy(s, Less(_, _)) ==
    LET order == Listed(DOMAIN s, LAMBDA i, j : Less(s[i], s[j])
                                                \/ (i < j /\ ~Less(s[j], s[i])))
    IN  [i \in DOMAIN s |-> s[order[i]]]

Expand(entries, given) ==
    SortedBy(Flat(entries, LAMBDA e : CandidatesOf(e, given)), Before)

\* Mutant of DependsOn: it depends on the one before it, of whatever unit.
DependsOnAny(i) == IF i > 1 THEN {i - 1} ELSE {}

\* A candidate depends on the one before it of the same unit.
DependsOn(i) ==
    IF i > 1 /\ candidates[i - 1].key = candidates[i].key THEN {i - 1} ELSE {}

Blockers(i) == DependsOn(i) \ accepted

-----------------------------------------------------------------------------
(* Conflicts *)

Codes(conflicts) == {c[1] : c \in conflicts}

\* determineConflictOutcome
ConflictRule(conflicts) ==
    IF Codes(conflicts) \cap {"E_REMOVE_MISSING", "E_MODIFY_MISSING"} # {}
    THEN "MISSING_KEY"
    ELSE IF Codes(conflicts) \cap {"E_ADD_EXISTS", "E_MODIFY_KEY_COLLISION"} # {}
    THEN "DUP_KEY_ADD"
    ELSE "UNKNOWN"

\* Mutant of Tentative: the candidate is tried by itself.
TentativeAlone(i) == [Empty EXCEPT ![candidates[i].key] = candidates[i].effect]

Tentative(i) ==
    Compose(delta, [Empty EXCEPT ![candidates[i].key] = candidates[i].effect])

Refusal(i, reason, rule) ==
    [key |-> candidates[i].key, path |-> candidates[i].path, op |-> candidates[i].op,
     reason |-> reason, rule |-> rule, level |-> LevelFor(policy, rule), candidate |-> i]

-----------------------------------------------------------------------------
(* Suggestions and the contract *)

ActionOrder == <<"ADD_MISSING_DEP", "REQUEST_HUMAN_CONFIRM", "RETRY_WITH_CONTEXT",
                 "PROMOTE_TO_L3_REVIEW">>

\* The actions suggested for what was refused.
ActionsFor(r) ==
    (CASE r.reason = "DEPENDENCY_BLOCKED" -> <<"ADD_MISSING_DEP">>
       [] r.reason = "CONFLICT" -> <<"REQUEST_HUMAN_CONFIRM", "RETRY_WITH_CONTEXT">>
       [] OTHER -> <<>>)
    \o (IF r.level = "L3" THEN <<"PROMOTE_TO_L3_REVIEW">> ELSE <<>>)

\* compareRejected
OpByName == <<"add", "append", "modify", "remove", "set">>
RefusedBefore(a, b) ==
    LET rank(r) == SelectInSeq(OpByName, LAMBDA op : op = r.op) IN
    \/ a.key < b.key
    \/ a.key = b.key /\ a.path = "field" /\ b.path = "whole"
    \/ a.key = b.key /\ a.path = b.path /\ rank(a) < rank(b)
    \/ /\ <<a.key, a.path, a.op>> = <<b.key, b.path, b.op>>
       /\ a.reason = "CONFLICT" /\ b.reason # "CONFLICT"

\* compareSuggestions: no path sorts as the text NULL, before the names of fields.
SuggestionBefore(a, b) ==
    LET rank(s) == SelectInSeq(ActionOrder, LAMBDA x : x = s.action) IN
    \/ a.key < b.key
    \/ a.key = b.key /\ a.path = "whole" /\ b.path = "field"
    \/ a.key = b.key /\ a.path = b.path /\ rank(a) < rank(b)

Target(r) == <<r.key, r.path, r.op>>

\* Mutant of Suggestions: the limit is taken before the suggestions are sorted.
SuggestionsUnsorted(rejected) ==
    LET For(r) == [i \in DOMAIN ActionsFor(r) |->
                     [key |-> r.key, path |-> r.path, op |-> r.op,
                      action |-> ActionsFor(r)[i]]]
        all == Flat(rejected, For)
    IN  SubSeq(Reverse(all), 1, IF Len(all) < MaxSuggestions THEN Len(all) ELSE MaxSuggestions)

\* buildClosureSuggestionsV1
Suggestions(rejected) ==
    LET For(r) == [i \in DOMAIN ActionsFor(r) |->
                     [key |-> r.key, path |-> r.path, op |-> r.op,
                      action |-> ActionsFor(r)[i]]]
        all == SortedBy(Flat(rejected, For), SuggestionBefore)
    IN  SubSeq(all, 1, IF Len(all) < MaxSuggestions THEN Len(all) ELSE MaxSuggestions)

\* What buildClosureContractV1 counts: targets, where the plan counts entries.
Contract(rejected, suggestions) ==
    LET covered == {Target(s) : s \in ToSet(suggestions)} \cap
                   {Target(r) : r \in ToSet(rejected)}
    IN
    [rejectedCount |-> Len(rejected),
     coveredKeys |-> Cardinality(covered),
     actionableKeys |-> Cardinality({Target(s) : s \in
        {x \in ToSet(suggestions) : x.action # "REQUEST_HUMAN_CONFIRM"}} \cap covered),
     l3Rejected |-> Cardinality({i \in DOMAIN rejected : rejected[i].level = "L3"}),
     l3Suggestions |-> Cardinality({i \in DOMAIN suggestions :
                                      suggestions[i].action = "PROMOTE_TO_L3_REVIEW"})]

-----------------------------------------------------------------------------
(* applyPackage in strict mode with a proposal at hand *)

\* Bound: unsafe paths are proposed only where changes are split, the one place
\* that looks for them.
Init ==
    /\ base \in Base
    /\ proposal \in Proposal
    /\ policy \in Policy
    /\ \A i \in DOMAIN proposal :
          ~policy.fieldLevelModify /\ proposal[i].kind = "modify" =>
              Unsafe \notin ToSet(proposal[i].changes)
    /\ candidates = <<>>
    /\ unsafe = <<>>
    /\ next = 0
    /\ accepted = {}
    /\ delta = Empty
    /\ refused = <<>>
    /\ report = None

\* An invalid policy ends the request. A change with an unsafe path is split
\* off: the entry stays without it.
InvalidPolicy ==
    /\ next = 0
    /\ policy.rules # <<>> /\ ~IsValid(policy)
    /\ report = None
    /\ report' = [error |-> "E_RISK_POLICY_INVALID"]
    /\ UNCHANGED <<base, proposal, policy, candidates, unsafe, next, accepted,
                   delta, refused>>

ExpandCandidates ==
    /\ next = 0
    /\ policy.rules = <<>> \/ IsValid(policy)
    /\ candidates' = Expand(proposal, policy)
    /\ unsafe' = Flat(proposal, LAMBDA e : UnsafeOf(e, policy))
    /\ refused' = [i \in DOMAIN unsafe' |->
                     [key |-> unsafe'[i], path |-> "field", op |-> "modify",
                      reason |-> "UNSAFE_PATH", rule |-> "INVARIANT_BREAK",
                      level |-> LevelFor(policy, "INVARIANT_BREAK"), candidate |-> 0]]
    /\ next' = 1
    /\ UNCHANGED <<base, proposal, policy, accepted, delta, report>>

Considered == report = None /\ next \in DOMAIN candidates

RefuseBlocked ==
    /\ Considered
    /\ Blockers(next) # {}
    /\ refused' = Append(refused, Refusal(next, "DEPENDENCY_BLOCKED", "UNKNOWN"))
    /\ next' = next + 1
    /\ UNCHANGED <<base, proposal, policy, candidates, unsafe, accepted, delta, report>>

\* The reason POST_APPLY_CONFLICT is never given: what it would be given for is
\* among the conflicts of the application already.
RefuseConflict ==
    LET outcome == Apply(base, Tentative(next)) IN
    /\ Considered
    /\ Blockers(next) = {}
    /\ outcome.conflicts \cup DetectConflicts(outcome.units) # {}
    /\ refused' =
         Append(refused,
                IF outcome.conflicts # {}
                THEN Refusal(next, "CONFLICT", ConflictRule(outcome.conflicts))
                ELSE Refusal(next, "POST_APPLY_CONFLICT", "POST_APPLY_CONFLICT"))
    /\ next' = next + 1
    /\ UNCHANGED <<base, proposal, policy, candidates, unsafe, accepted, delta, report>>

Accept ==
    LET outcome == Apply(base, Tentative(next)) IN
    /\ Considered
    /\ Blockers(next) = {}
    /\ outcome.conflicts \cup DetectConflicts(outcome.units) = {}
    /\ accepted' = accepted \cup {next}
    /\ delta' = Compose(delta, [Empty EXCEPT ![candidates[next].key] =
                                    candidates[next].effect])
    /\ next' = next + 1
    /\ UNCHANGED <<base, proposal, policy, candidates, unsafe, refused, report>>

Finish ==
    LET rejected == SortedBy(refused, RefusedBefore)
        suggestions == Suggestions(rejected)
        outcome == Apply(base, delta)
    IN
    /\ next = Len(candidates) + 1
    /\ report = None
    /\ report' =
         [candidateCount |-> Len(candidates) + Len(unsafe),
          acceptedCount |-> Cardinality(accepted),
          suggestions |-> suggestions,
          contract |-> Contract(rejected, suggestions),
          closureViolation |-> outcome.conflicts \cup DetectConflicts(outcome.units) # {}]
    /\ UNCHANGED <<base, proposal, policy, candidates, unsafe, next, accepted,
                   delta, refused>>

Next ==
    \/ InvalidPolicy
    \/ ExpandCandidates
    \/ RefuseBlocked
    \/ RefuseConflict
    \/ Accept
    \/ Finish

Spec == Init /\ [][Next]_vars

-----------------------------------------------------------------------------
(* Properties *)

Finished == report # None /\ next > 0

IsClean(units) == DetectConflicts(units) = {}

\* One entry for a unit, with changes as a difference of two states has them.
IsProper ==
    /\ \A i, j \in DOMAIN proposal : proposal[i].key = proposal[j].key => i = j
    /\ \A i \in DOMAIN proposal :
          proposal[i].kind = "modify" =>
              /\ Unsafe \notin ToSet(proposal[i].changes)
              /\ proposal[i].changes = ComposeChanges(<<>>, proposal[i].changes)

\* No entry gives a unit another key.
KeysAreKept == \A i \in DOMAIN proposal : KeepsKey(proposal[i].key, EntryEffect(proposal[i]))

\* A proper proposal as one delta.
Proposed ==
    [k \in Key |->
        LET at == {i \in DOMAIN proposal : proposal[i].key = k} IN
        IF at = {} THEN NoEffect ELSE EntryEffect(proposal[CHOOSE i \in at : TRUE])]

\* What has been accepted by then applies to the base without a conflict and
\* leaves none behind, whenever the base had none; the plan reports a violation
\* only for a base with conflicts of which nothing could be accepted
\* (buildPlan, applyCandidateSequence; applyPackage applies acceptedDelta
\* without looking at the plan again).
AcceptedIsClean ==
    /\ IsClean(base) \/ accepted # {} => Apply(base, delta).conflicts = {}
    /\ Finished => (report.closureViolation <=> accepted = {} /\ ~IsClean(base))

\* A proposal that applies to the base as a whole and renames no unit is not
\* picked apart: entries are refused only for conditions that hold on the way (a
\* threshold is tried before the risks it is about), and never when the base is
\* clean and no constraint changes; if none is refused, the plan leads where the
\* proposal leads. (A unit may be renamed to the name of one that is removed: as a
\* whole the removal comes first, the planner tries the renaming first.)
CleanProposalIsTaken ==
    Finished /\ IsProper /\ KeysAreKept /\ Apply(base, Proposed).conflicts = {} =>
        /\ \A r \in ToSet(refused) :
              r.reason = "DEPENDENCY_BLOCKED" \/ r.rule = "UNKNOWN"
        /\ IsClean(base) /\ (\A i \in DOMAIN proposal : proposal[i].key \notin Constraint)
              => refused = <<>>
        /\ refused = <<>> =>
              Apply(base, delta).units = Apply(base, Proposed).units

\* A refusal for a unit that is missing or exists already is final, if the
\* proposal renames no unit: no later candidate that was accepted would let it
\* in. A blocked candidate has an earlier one of its unit to blame that was
\* refused for a conflict.
RefusalsStand ==
    Finished =>
        \A r \in ToSet(refused) :
            /\ KeysAreKept /\ r.rule \in {"MISSING_KEY", "DUP_KEY_ADD"} =>
                  Apply(base, Tentative(r.candidate)).conflicts # {}
            /\ r.reason = "DEPENDENCY_BLOCKED" =>
                  \E s \in ToSet(refused) :
                      /\ s.reason = "CONFLICT"
                      /\ s.key = r.key
                      /\ s.candidate < r.candidate

\* The limit of suggestions never costs a refused entry its suggestions in
\* favour of one of a later unit, and each of the counts in the contract is at
\* most the one it is divided by.
CoverageIsHonest ==
    Finished =>
        LET c == report.contract
            Given(r) == {x \in ToSet(report.suggestions) : Target(x) = Target(r)}
        IN
        /\ c.actionableKeys <= c.coveredKeys
        /\ c.coveredKeys <= c.rejectedCount
        /\ c.l3Suggestions <= c.l3Rejected
        /\ \A r, s \in ToSet(refused) :
              r.key < s.key /\ Given(s) # {} =>
                  ToSet(ActionsFor(r)) \subseteq {x.action : x \in Given(r)}
=============================================================================
