---------------------------- MODULE PilotLedgers ----------------------------
(***************************************************************************)
(* The ledgers a pilot is judged by: feedback (203P, 204P), outcomes of    *)
(* the daily loop (205P), issues (218P), safety incidents (219P), usage    *)
(* (169P), activations (223P) and review packs (224P); and the reports     *)
(* computed from them: quality of suggestions and preparations (206P,      *)
(* 207P), weekly report (220P), learning queue (225P) and the gate that    *)
(* decides whether the pilot may be charged for (226P).                    *)
(***************************************************************************)
EXTENDS Integers, FiniteSets, FiniteSetsExt, Sequences, SequencesExt

CONSTANTS Feedback,   \* what may be said: [whose, item, tag, day]
          Outcomes,   \* [whose, outcome, day]
          Issues,     \* [whose, user, command, severity, item, day]
          Incidents,  \* [whose, user, type, severity, day]
          Usage,      \* [whose, cost in cents, status, month]
          PilotUsers, Month, DaysNeeded, DaysWatched,
          MaxCaptured   \* bound on the captures

(* An issue has one of these severities (218P). *)
Severities == {"low", "medium", "high", "critical"}

ASSUME LedgersAssumption == \A i \in Issues : i.severity \in Severities

VARIABLES feedback, outcomes, issues, incidents, usage, activations, packs,
          provisioned, exits

pilotVars == <<feedback, outcomes, issues, incidents, usage, activations, packs, provisioned, exits>>

PilotInit ==
  /\ feedback = << >> /\ outcomes = << >> /\ issues = << >> /\ incidents = << >> /\ usage = << >>
  /\ activations = << >> /\ packs = {} /\ provisioned = {} /\ exits = {}

MoreCaptures == Len(feedback) + Len(outcomes) + Len(issues) + Len(incidents) + Len(usage) + Len(activations)
                  + Cardinality(provisioned) + Cardinality(exits) < MaxCaptured

(* 203P: the type of an item is read off its name; an item is <<prefix, number>>. *)
ItemType(item) ==
  LET known == [sugg |-> "suggestion", suggestion |-> "suggestion", mem |-> "memory", memory |-> "memory",
                prep |-> "prep", meeting |-> "prep", draft |-> "draft", doc |-> "document", brief |-> "daily_brief"]
  IN  IF Head(item) \in DOMAIN known THEN known[Head(item)] ELSE "unknown"

Tags == {"useful", "not_useful", "wrong", "noisy", "missing_source", "bad_draft", "too_verbose", "stale", "duplicate",
         "missing_context", "wrong_context", "weak_agenda", "bad_risk", "bad_next_step", "not_actionable"}

CaptureFeedback(f) ==
  /\ MoreCaptures /\ f.tag \in Tags
  /\ feedback' = Append(feedback, [whose |-> f.whose, item |-> f.item, type |-> ItemType(f.item), tag |-> f.tag, day |-> f.day])
  /\ UNCHANGED <<outcomes, issues, incidents, usage, activations, packs, provisioned, exits>>

TrackOutcome(o) ==
  /\ MoreCaptures
  /\ outcomes' = Append(outcomes, o)
  /\ UNCHANGED <<feedback, issues, incidents, usage, activations, packs, provisioned, exits>>

(* 218P *)
Category(command) ==
  CASE command = "/report_confusing" -> "confusing"
    [] command = "/report_wrong"     -> "wrong_output"
    [] command = "/report_missing"   -> "missing_context"
    [] OTHER                         -> "general"

CaptureIssue(i) ==
  /\ MoreCaptures
  /\ issues' = Append(issues, [whose |-> i.whose, user |-> i.user, category |-> Category(i.command),
                               severity |-> i.severity, item |-> i.item, day |-> i.day])
  /\ UNCHANGED <<feedback, outcomes, incidents, usage, activations, packs, provisioned, exits>>

LogIncident(i) ==
  /\ MoreCaptures
  /\ incidents' = Append(incidents, i)
  /\ UNCHANGED <<feedback, outcomes, issues, usage, activations, packs, provisioned, exits>>

RecordUsage(u) ==
  /\ MoreCaptures
  /\ usage' = Append(usage, u)
  /\ UNCHANGED <<feedback, outcomes, issues, incidents, activations, packs, provisioned, exits>>

(* 223P: the receipt says allowlist and consent are ready, whatever was provisioned. *)
Activate(user) ==
  /\ MoreCaptures
  /\ activations' = Append(activations, [whose |-> "owner", user |-> user, consent |-> "ready_local"])
  /\ UNCHANGED <<feedback, outcomes, issues, incidents, usage, packs, provisioned, exits>>

(* 214P: who provisions himself is the founder; another waits for consent. *)
Provision(user, by) ==
  /\ MoreCaptures
  /\ provisioned' = provisioned \cup {[user |-> user, status |-> IF user = by THEN "active_local" ELSE "pending_consent"]}
  /\ UNCHANGED <<feedback, outcomes, issues, incidents, usage, activations, packs, exits>>

(* 221P: leaving is a receipt; no ledger is touched. *)
LeavePilot(user, what) ==
  /\ MoreCaptures
  /\ exits' = exits \cup {[user |-> user, action |-> what, known |-> \E p \in provisioned : p.user = user]}
  /\ UNCHANGED <<feedback, outcomes, issues, incidents, usage, activations, packs, provisioned>>

(* The places a ledger has for the owner, and what is there. *)
Own(ledger) == {k \in DOMAIN ledger : ledger[k].whose = "owner"}

OwnRecords(ledger) == {ledger[k] : k \in Own(ledger)}

Count(ledger, counted(_)) == Cardinality({k \in Own(ledger) : counted(ledger[k])})

Tagged(type, tags) ==
  LET counted(f) == f.type = type /\ f.tag \in tags
  IN  Count(feedback, counted)

OutcomeCount(kinds) ==
  LET counted(o) == o.outcome \in kinds
  IN  Count(outcomes, counted)

(* 169P: the summary is of one month. *)
UsageSummary ==
  LET cost(k)   == usage[k].cost
      failed(u) == u.month = Month /\ u.status \in {"failed", "blocked"}
  IN  [cost   |-> MapThenSumSet(cost, {k \in Own(usage) : usage[k].month = Month}),
       failed |-> Count(usage, failed)]

SuggestionDecision_UsefulFirst(item) ==
  LET tags == {f.tag : f \in {g \in OwnRecords(feedback) : g.item = item /\ g.type = "suggestion"}}
  IN  IF "useful" \in tags THEN "promote"
      ELSE IF tags \cap {"wrong", "stale"} # {} THEN "suppress"
      ELSE IF tags \cap {"noisy", "missing_source", "not_useful"} # {} THEN "downgrade"
      ELSE "keep"

(* 206P *)
SuggestionDecision(item) ==
  LET tags == {f.tag : f \in {g \in OwnRecords(feedback) : g.item = item /\ g.type = "suggestion"}}
      against(f) ==
        f.item = item /\ f.type = "suggestion" /\ f.tag \in {"wrong", "noisy", "stale", "missing_source", "not_useful"}
  IN  IF Count(feedback, against) >= 2 \/ "wrong" \in tags \/ "stale" \in tags THEN "suppress"
      ELSE IF Count(feedback, against) = 1 THEN "downgrade"
      ELSE IF "useful" \in tags THEN "promote"
      ELSE "keep"

(* 207P *)
PrepDecision(item) ==
  LET tags == {f.tag : f \in {g \in OwnRecords(feedback) : g.item = item /\ g.type = "prep"}}
  IN  IF "wrong_context" \in tags THEN "block_stale_prep"
      ELSE IF tags \cap {"missing_context", "bad_risk"} # {} THEN "require_source_review"
      ELSE IF tags \cap {"bad_next_step", "not_actionable"} # {} THEN "rewrite_next_step"
      ELSE IF tags \cap {"weak_agenda", "too_verbose"} # {} THEN "tighten"
      ELSE "keep"

(* 219P *)
LogHealth ==
  CASE Own(incidents) = {} -> "no_local_incidents"
    [] \E i \in OwnRecords(incidents) : i.severity \in {"high", "critical"} -> "needs_operator_review"
    [] OTHER -> "recorded_local"

(* 224P: what a review recommends, of one user's issues and incidents and of everybody's feedback. *)
RecommendedFixes(user) ==
  LET tags       == {f.tag : f \in OwnRecords(feedback)}
      categories == {i.category : i \in {j \in OwnRecords(issues) : j.user = user}}
  IN  (IF "missing_source" \in tags \/ "missing_context" \in categories THEN {<<"P1", "sources">>} ELSE {})
      \cup (IF tags \cap {"bad_draft", "wrong"} # {} \/ "wrong_output" \in categories THEN {<<"P1", "quality">>} ELSE {})
      \cup (IF "too_verbose" \in tags \/ "confusing" \in categories THEN {<<"P2", "copy">>} ELSE {})
      \cup (IF \E i \in OwnRecords(incidents) : i.user = user THEN {<<"P0", "safety">>} ELSE {})

ReviewPilot(user) ==
  /\ packs' = packs \cup {[user |-> user, fixes |-> RecommendedFixes(user)]}
  /\ UNCHANGED <<feedback, outcomes, issues, incidents, usage, activations, provisioned, exits>>

(* 225P *)
Rank == [P0 |-> 0, P1 |-> 1, P2 |-> 2, P3 |-> 3]

LearningsFromSafety ==
  {[id |-> <<"safety", i.type, 0>>, priority |-> "P0"] : i \in OwnRecords(incidents)}

LearningsFromIssues ==
  LET priority == [critical |-> "P0", high |-> "P0", medium |-> "P1", low |-> "P2"]
  IN  {[id |-> <<"issue", i.category, i.item>>, priority |-> priority[i.severity]] : i \in OwnRecords(issues)}

LearningsFromFeedback ==
  LET grave    == {"missing_source", "bad_draft", "wrong"}
      negative == {f.tag : f \in OwnRecords(feedback)} \cap (grave \cup {"stale", "noisy", "too_verbose", "not_useful"})
  IN  {[id |-> <<"feedback", tag, 0>>, priority |-> IF tag \in grave THEN "P1" ELSE "P2"] : tag \in negative}

LearningsFromReviews ==
  UNION {{[id |-> <<"review", fix[2], pack.user>>, priority |-> fix[1]] : fix \in pack.fixes} : pack \in packs}

LearningsFromUsage ==
  LET spent == UsageSummary
  IN  (IF spent.failed > 0 THEN {[id |-> <<"usage", "failed", 0>>, priority |-> "P1"]} ELSE {})
      \cup (IF spent.cost >= 5 THEN {[id |-> <<"usage", "cost", 0>>, priority |-> "P2"]} ELSE {})

Deduped_WholeItems(items) == items

(* Of the items with one identity, the most urgent. *)
Deduped(items) ==
  {item \in items : \A other \in items : other.id = item.id => Rank[item.priority] <= Rank[other.priority]}

LearningQueue ==
  Deduped(LearningsFromSafety \cup LearningsFromIssues \cup LearningsFromFeedback \cup LearningsFromReviews \cup LearningsFromUsage)

UrgentLearnings == {item \in LearningQueue : item.priority = "P0"}

(* 220P: the three trends of the week's report. *)
TopLearnings ==
  (IF Own(feedback) # {} THEN {"feedback"} ELSE {})
  \cup (IF Own(issues) # {} THEN {"support"} ELSE {})
  \cup (IF Own(incidents) # {} THEN {"safety"} ELSE {})

ActiveDays ==
  Cardinality({entry.day : entry \in OwnRecords(outcomes)} \cup {entry.day : entry \in OwnRecords(feedback)}
              \cup {entry.day : entry \in OwnRecords(issues)} \cup {entry.day : entry \in OwnRecords(incidents)})

(* A rate in thousandths, rounded, at most one. *)
Rate(n, d) ==
  LET rounded == (2000 * n + d) \div (2 * d)
  IN  IF d <= 0 THEN 0 ELSE IF rounded > 1000 THEN 1000 ELSE rounded

Check(passed, watched) == IF passed THEN "pass" ELSE IF watched THEN "watch" ELSE "fail"

UsefulRate ==
  LET useful(f) == f.tag = "useful"
      signal(o) == o.outcome # "viewed"
  IN  Rate(Count(feedback, useful)
             + OutcomeCount({"suggestion_opened", "draft_created", "draft_approved", "memory_approved", "document_reviewed"}),
           Cardinality(Own(feedback)) + Count(outcomes, signal))

DraftRate == Rate(OutcomeCount({"draft_approved"}), OutcomeCount({"draft_created"}))

SuggestionRate ==
  LET accepted == Tagged("suggestion", {"useful"})
      refused  == Tagged("suggestion", {"wrong", "noisy", "stale", "not_useful", "missing_source"})
  IN  [known |-> accepted + refused > 0, rate |-> Rate(accepted, accepted + refused)]

AtLeastOne(n) == IF n > 1 THEN n ELSE 1

(* Corrections of memories per memory approved, in thousandths. *)
CorrectionRate ==
  (1000 * Tagged("memory", {"wrong", "stale", "duplicate", "not_useful"})) \div AtLeastOne(OutcomeCount({"memory_approved"}))

SafetyCheck(severe) == Check(severe = 0 /\ UrgentLearnings = {}, severe = 0)

(* 226P: how the ten checks come out. *)
GateChecks ==
  LET severe(e) == e.severity \in {"high", "critical"}
      harm      == Count(issues, severe)
      users     == Cardinality(Own(activations))
  IN  {Check(users >= 1, FALSE),
        Check(ActiveDays >= DaysNeeded, ActiveDays >= DaysWatched),
        Check(UsefulRate >= 600, UsefulRate >= 300),
        Check(DraftRate >= 500, OutcomeCount({"draft_created"}) = 0 \/ DraftRate >= 250),
        Check(SuggestionRate.rate >= 500, ~SuggestionRate.known \/ SuggestionRate.rate >= 250),
        Check(CorrectionRate <= 500, CorrectionRate <= 1000),
        Check(harm = 0, harm <= 1),
        SafetyCheck(Count(incidents, severe)),
        Check(UsageSummary.cost <= 25 * AtLeastOne(users), UsageSummary.cost <= 100 * AtLeastOne(users)),
        Check(2 * Cardinality(Own(issues)) <= AtLeastOne(ActiveDays), Cardinality(Own(issues)) <= AtLeastOne(ActiveDays))}

GateDecision ==
  IF "fail" \in GateChecks THEN "NOT_READY"
  ELSE IF "watch" \in GateChecks THEN "READY_WITH_LIMITATIONS"
  ELSE "READY_FOR_PAID_PILOT"

PilotNext ==
  \/ \E f \in Feedback : CaptureFeedback(f)
  \/ \E o \in Outcomes : TrackOutcome(o)
  \/ \E i \in Issues : CaptureIssue(i)
  \/ \E i \in Incidents : LogIncident(i)
  \/ \E u \in Usage : RecordUsage(u)
  \/ \E user \in PilotUsers : Activate(user)
  \/ \E user, by \in PilotUsers : Provision(user, by)
  \/ \E user \in PilotUsers, what \in {"end_pilot", "delete_pilot_memory"} : LeavePilot(user, what)
  \/ \E user \in PilotUsers : ReviewPilot(user)

PilotSpec == PilotInit /\ [][PilotNext]_pilotVars

(***************************************************************************)
(* Types; every entry of a ledger has the type, category and consent its   *)
(* stage gives, whoever is provisioned; and every pack was made of the     *)
(* incidents that are still there.                                         *)
(***************************************************************************)
PilotTypeOK ==
  /\ \A f \in Range(feedback) : f.tag \in Tags /\ f.type = ItemType(f.item)
  /\ \A i \in Range(issues) : i.category \in {"confusing", "wrong_output", "missing_context", "general"}
  /\ Range(outcomes) \subseteq Outcomes /\ Range(incidents) \subseteq Incidents /\ Range(usage) \subseteq Usage
  /\ \A a \in Range(activations) : a.user \in PilotUsers
  /\ \A p \in provisioned \cup exits : p.user \in PilotUsers
  /\ \A pack \in packs : <<"P0", "safety">> \in pack.fixes => \E i \in OwnRecords(incidents) : i.user = pack.user
  /\ LET queue == LearningQueue
     IN  \A item, other \in queue : item.id = other.id => item = other

(***************************************************************************)
(* The gate is closed over harm: when it says the pilot may be charged     *)
(* for, no incident of any severity and no severe issue was ever logged,   *)
(* the week's report shows no safety trend, and no review recommended a    *)
(* safety fix.                                                             *)
(***************************************************************************)
PaidOnlyWithoutHarm ==
  GateDecision = "READY_FOR_PAID_PILOT" =>
    /\ LogHealth = "no_local_incidents" /\ "safety" \notin TopLearnings
    /\ \A i \in OwnRecords(issues) : i.severity \notin {"high", "critical"}
    /\ \A pack \in packs : <<"P0", "safety">> \notin pack.fixes

(***************************************************************************)
(* Harm counts, and stays counted whatever is said, fixed or left later:   *)
(* an urgent learning keeps its urgency, a suggestion suppressed and a     *)
(* preparation blocked stay so, and the pilot is never charged for over    *)
(* any of it.                                                              *)
(***************************************************************************)
HarmCounts ==
  /\ []PaidOnlyWithoutHarm
  /\ [][/\ \A item \in UrgentLearnings : item \in UrgentLearnings'
        /\ \A f \in OwnRecords(feedback) :
             /\ SuggestionDecision(f.item) = "suppress" => SuggestionDecision(f.item)' = "suppress"
             /\ PrepDecision(f.item) = "block_stale_prep" => PrepDecision(f.item)' = "block_stale_prep"]_pilotVars
=============================================================================
