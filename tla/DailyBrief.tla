------------------------------ MODULE DailyBrief ------------------------------
(***************************************************************************)
(* "What Did I Miss?": a brief of what the stages 105P to 123P recorded in *)
(* a window of time (app/daily_brief_what_did_i_miss.py, stage 124P).      *)
(*                                                                         *)
(* The stages keep their records as they go.  A brief takes those of the   *)
(* owner that were created in its window, puts each in the sections that   *)
(* its status calls for, and is kept under its window: who asks for the    *)
(* same window again gets the same brief.                                  *)
(***************************************************************************)
EXTENDS Integers, FiniteSets

CONSTANTS
    Entries,     \* [stage, status] of the records that are made, see Given
    Subjects,    \* the delivery, proposal or opportunity a record is about
    Windows,     \* [from, to] of the briefs asked for
    FixedTime,   \* 2026-06-20T00:00:00Z
    MaxTime,     \* bound: time
    MaxRecords   \* bound: records made

\* The stages whose records a bundle has, and the statuses that three of them give;
\* of the others a brief tells every status.
Stages ==
    {"103P", "105P", "106P", "107P", "108P", "109P", "110P", "111P", "114P", "115P", "116P",
     "117P", "118P", "119P", "120P", "121P", "122P", "123P"}

Given(e) ==
    /\ e.stage = "106P" => e.status \in {"recorded", "blocked"}
    /\ e.stage = "115P" =>
           e.status \in {"pending_user_review", "no_memory_recommended", "rejected_source"}
    /\ e.stage = "116P" =>
           e.status \in {"approved_pending_writeback", "edited_pending_writeback",
                        "rejected_no_write", "rejected_sensitive_edit", "blocked",
                        "lineage_summary_requested"}

ASSUME BriefAssumption ==
    /\ Entries \subseteq [stage : Stages, status : STRING] /\ \A e \in Entries : Given(e)
    /\ FixedTime \in Nat /\ MaxTime \in Nat /\ MaxRecords \in Nat

VARIABLES
    today,     \* the time
    records,   \* DailyBriefSourceBundle: [stage, status, subject, made]
    briefs     \* DailyBriefRegistry: window -> items, or no items before it is made

briefVars == <<today, records, briefs>>

-----------------------------------------------------------------------------
(* Which records a brief is about *)

\* The records of these stages carry no created_at.
Undated == {"105P", "106P", "107P", "108P", "109P", "110P", "111P"}

CreatedAt(r) == IF r.stage \in Undated THEN FixedTime ELSE r.made

\* Both ends belong to the window.
InWindow(r, w) == w.from <= CreatedAt(r) /\ CreatedAt(r) <= w.to

\* An inbox record of 103P has no lineage, so it is never among them.
InScope(w) == {r \in records : InWindow(r, w) /\ r.stage # "103P"}

Told(scope, stage, statuses, subject) ==
    \E r \in scope : r.stage = stage /\ r.status \in statuses /\ r.subject = subject

\* _has_result_ack
Acknowledged(scope, subject) == Told(scope, "106P", {"recorded"}, subject)

Written_OnlyNew(scope, subject) == Told(scope, "117P", {"written"}, subject)

\* written_proposal_ids: what was in memory already counts as written.
Written(scope, subject) == Told(scope, "117P", {"written", "duplicate_existing"}, subject)

-----------------------------------------------------------------------------
(* Where each record goes: [section, severity] *)

In(section, severity) == {[section |-> section, severity |-> severity]}

Pick(condition, then, otherwise) == IF condition THEN then ELSE otherwise

\* 105P and 106P
Results(r, scope) ==
    CASE r.stage = "105P" /\ r.status = "delivered" ->
             Pick(Acknowledged(scope, r.subject), {}, In("pending_results", "high"))
      [] r.stage = "105P" /\ r.status \in {"blocked", "failed"} ->
             In("blocked_or_rejected_items", "critical")
      [] r.stage = "106P" ->
             Pick(r.status = "blocked", In("blocked_or_rejected_items", "high"),
                                        In("completed_today", "low"))
      [] OTHER -> {}

\* 107P to 109P: an intent that was dismissed is among the pending ones too.
Plans(r) ==
    CASE r.stage = "107P" ->
             Pick(r.status \in {"pending_review", "dismissed", "resolved_no_action"},
                  In("pending_followups",
                     Pick(r.status = "pending_review", "high", "medium")),
                  In("blocked_or_rejected_items", "medium"))
      [] r.stage \in {"108P", "109P"} ->
             Pick(r.status \in {"drafted", "rendered", "delivered"},
                  In("pending_followups", "medium"),
                  In("blocked_or_rejected_items", "high"))
      [] OTHER -> {}

\* 110P, 111P and 114P
UserChoices(r) ==
    CASE r.stage = "110P" ->
             CASE r.status = "blocked" -> In("blocked_or_rejected_items", "high")
               [] r.status = "cancelled_no_action" ->
                      In("blocked_or_rejected_items", "low")
               [] OTHER -> In("pending_followups", "high")
      [] r.stage = "111P" ->
             Pick(r.status = "registered", In("pending_followups", "high"),
                                           In("blocked_or_rejected_items", "medium"))
      [] r.stage = "114P" ->
             Pick(r.status \in {"acknowledged", "dismissed", "lineage_summary_requested"},
                  In("completed_today", "low"), In("blocked_or_rejected_items", "high"))
      [] OTHER -> {}

\* 115P and 116P: nothing of a proposal is pending once it is written.
Proposals(r, scope) ==
    CASE r.stage = "115P" ->
             CASE r.status \in {"pending_user_review", "no_memory_recommended"} ->
                      Pick(Written(scope, r.subject), {},
                           In("pending_memory_reviews", "medium"))
               [] r.status = "rejected_source" ->
                      In("blocked_or_rejected_items", "medium")
               [] OTHER -> {}
      [] r.stage = "116P" ->
             CASE r.status \in {"approved_pending_writeback", "edited_pending_writeback"} ->
                      Pick(Written(scope, r.subject), {},
                           In("pending_memory_reviews", "high"))
               [] r.status = "blocked" -> In("blocked_or_rejected_items", "high")
               [] r.status \in {"rejected_no_write", "rejected_sensitive_edit"} ->
                      In("blocked_or_rejected_items", "medium")
               [] OTHER -> {}
      [] OTHER -> {}

\* 117P and 118P
Memories(r) ==
    CASE r.stage = "117P" ->
             CASE r.status = "written" -> In("memory_written_today", "low")
               [] r.status = "duplicate_existing" -> In("completed_today", "low")
               [] OTHER -> In("blocked_or_rejected_items", "high")
      [] r.stage = "118P" -> In("completed_today", "informational")
      [] OTHER -> {}

\* Of an opportunity the status is its type; these are pressing.
Pressing ==
    {"meeting_brief_missing", "invoice_due_soon", "customer_issue_needs_attention",
     "lead_followup_due", "task_deadline_risk"}

\* 119P and 120P: an opportunity stays one until it was suggested and taken up, both
\* in this window.
Opportunities(r, scope) ==
    CASE r.stage = "119P" ->
             Pick(\/ r.status = "no_opportunity"
                  \/ /\ \E s \in scope : s.stage = "120P" /\ s.subject = r.subject
                     /\ \E s \in scope : s.stage = "121P" /\ s.subject = r.subject,
                  {},
                  In("proactive_opportunities", Pick(r.status \in Pressing, "high", "medium")))
      [] r.stage = "120P" ->
             Pick(r.status = "delivered_local",
                  In("proactive_suggestions_sent_local", "low"),
                  In("blocked_or_rejected_items", "high"))
      [] OTHER -> {}

\* 121P to 123P: an attempt that did not succeed is told twice.
Delegations(r) ==
    CASE r.stage \in {"121P", "122P"} ->
             Pick(r.status \in {"adapted_to_followup_intent", "delegated_registered"},
                  In("pending_followups", Pick(r.stage = "121P", "medium", "high")),
                  In("blocked_or_rejected_items", "high"))
      [] r.stage = "123P" ->
             Pick(r.status = "completed_candidate_created",
                  In("proactive_execution_candidates", "medium"),
                  In("proactive_execution_candidates", "high")
                      \cup In("blocked_or_rejected_items", "high"))
      [] OTHER -> {}

Places(r, scope) ==
    Results(r, scope) \cup Plans(r) \cup UserChoices(r) \cup Proposals(r, scope)
        \cup Memories(r) \cup Opportunities(r, scope) \cup Delegations(r)

\* An item is made once per section, stage and record.
Items(scope) ==
    UNION {{[section |-> p.section, severity |-> p.severity, of |-> r] :
                p \in Places(r, scope)} : r \in scope}

-----------------------------------------------------------------------------
(* What needs attention, and the headline *)

Severity == [critical |-> 0, high |-> 1, medium |-> 2, low |-> 3, informational |-> 4]

\* _attention_sort_key up to the ids, which follow no order.
Urgency(item) ==
    10 * (CASE item.section = "blocked_or_rejected_items" -> 1
            [] item.section = "pending_followups"         -> 2
            [] item.section = "pending_results"           -> 3
            [] item.section = "proactive_execution_candidates"
                   /\ item.of.status = "failure_candidate_created" -> 4
            [] item.section = "proactive_opportunities"   -> 5
            [] item.section = "pending_memory_reviews"    -> 6
            [] OTHER                                      -> 7)
        + Severity[item.severity]

NotForAttention == {"completed_today", "memory_written_today",
                    "proactive_suggestions_sent_local"}
MaxAttention == 5

\* The five most urgent, each record once.
Attention(items) ==
    LET candidates == {i \in items : i.section \notin NotForAttention}
        ahead(i)   == {j.of : j \in {k \in candidates : Urgency(k) < Urgency(i)}} \ {i.of}
    IN  {i.of : i \in {k \in candidates : Cardinality(ahead(k)) < MaxAttention}}

\* suggested_next_reviews: one for each kind of which there is anything.
Reviews(items) ==
    {i.section : i \in items} \ {"memory_written_today", "proactive_suggestions_sent_local"}

\* A suggestion that was sent is in no count of the headline.
Counted(items) == {i \in items : i.section # "proactive_suggestions_sent_local"}

\* The headline says that there is nothing new.
NoUpdates(items) == Counted(items) = {}

-----------------------------------------------------------------------------
\* What a stage makes of a record of an earlier one.
Follows(stage, subject) ==
    LET after(earlier, statuses) == Told(records, earlier, statuses, subject)
    IN  CASE stage = "106P" -> after("105P", {"delivered"})
          [] stage = "116P" -> after("115P", {"pending_user_review"})
          [] stage = "117P" ->
                 after("116P", {"approved_pending_writeback", "edited_pending_writeback"})
          [] stage = "120P" -> \E r \in records : r.stage = "119P" /\ r.subject = subject
          [] stage = "121P" -> after("120P", {"delivered_local"})
          [] OTHER -> TRUE

NotMade == [made |-> -1, items |-> {}, attention |-> {}, reviews |-> {},
            none |-> TRUE, from |-> {}]

BriefInit ==
    /\ today = 0 /\ records = {} /\ briefs = [w \in Windows |-> NotMade]

\* A stage records something about a subject, once.
Record(entry, subject) ==
    /\ Cardinality(records) < MaxRecords
    /\ ~\E r \in records : r.stage = entry.stage /\ r.subject = subject
    /\ Follows(entry.stage, subject)
    /\ records' = records \cup {[stage |-> entry.stage, status |-> entry.status,
                                 subject |-> subject, made |-> today]}
    /\ UNCHANGED <<today, briefs>>

Pass ==
    /\ today < MaxTime
    /\ today' = today + 1
    /\ UNCHANGED <<records, briefs>>

\* _validate_window
Valid(w) == w.from < w.to

\* create_daily_brief_snapshot
Brief(w) ==
    /\ Valid(w)
    /\ briefs[w] = NotMade
    /\ LET scope == InScope(w)
           items == Items(scope)
       IN  briefs' = [briefs EXCEPT ![w] =
               [made |-> today, items |-> items, attention |-> Attention(items),
                reviews |-> Reviews(items), none |-> NoUpdates(items), from |-> records]]
    /\ UNCHANGED <<today, records>>

BriefNext ==
    \/ \E entry \in Entries, subject \in Subjects : Record(entry, subject)
    \/ Pass
    \/ \E w \in Windows : Brief(w)

BriefSpec == BriefInit /\ [][BriefNext]_briefVars

-----------------------------------------------------------------------------
Shows(brief, stages, section, subject) ==
    \E i \in brief.items :
        i.of.stage \in stages /\ i.section = section /\ i.of.subject = subject

\* A memory that is there settles what was proposed about it.
SettledIn(brief, r) ==
    \E q \in brief.from :
        /\ q.subject = r.subject /\ q.made >= r.made
        /\ q.stage = "117P" /\ q.status \in {"written", "duplicate_existing"}

\* Types; a brief is of its window and of records there were; and what needs attention
\* is something it shows, under a headline that says there is something.
BriefTypeOK ==
    /\ today \in 0 .. MaxTime
    /\ \A r \in records : r.made <= today /\ [stage |-> r.stage, status |-> r.status] \in Entries
    /\ \A w \in Windows :
           /\ briefs[w] # NotMade => w.from < w.to /\ briefs[w].made <= today
           /\ briefs[w].from \subseteq records
           /\ \A i \in briefs[w].items : i.of \in briefs[w].from
           /\ briefs[w].none => briefs[w].attention = {}
           /\ briefs[w].attention \subseteq {i.of : i \in briefs[w].items}

\* Whoever only asked where a proposal came from decided nothing about it.
OnlyAsked(r) == r.stage = "116P" /\ r.status = "lineage_summary_requested"

\* A brief calls nothing pending that it calls done: no result it knows to be
\* acknowledged, no proposal whose memory it knows to be there.  And it leaves out
\* no dated record of its window, but for opportunities, settled proposals and
\* questions about a proposal.
TellsTheWindow ==
    \A w \in {v \in Windows : briefs[v].made >= 0} :
        /\ \A s \in Subjects :
               /\ ~(/\ Shows(briefs[w], {"106P"}, "completed_today", s)
                    /\ Shows(briefs[w], {"105P"}, "pending_results", s))
               /\ ~(/\ \/ Shows(briefs[w], {"117P"}, "memory_written_today", s)
                       \/ Shows(briefs[w], {"117P"}, "completed_today", s)
                    /\ Shows(briefs[w], {"115P", "116P"}, "pending_memory_reviews", s))
        /\ \A r \in briefs[w].from :
               /\ r.stage \notin Undated \cup {"103P", "119P"} /\ ~OnlyAsked(r)
               /\ w.from <= r.made /\ r.made <= w.to
               => (\E i \in briefs[w].items : i.of = r) \/ SettledIn(briefs[w], r)
=============================================================================
