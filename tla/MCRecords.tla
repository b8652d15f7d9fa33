------------------------------ MODULE MCRecords ------------------------------
(***************************************************************************)
(* The records the robot keeps for its owner and the commands that show    *)
(* them share no state in this model: drafts, preparations of meetings,    *)
(* the pilot's ledgers, one command at a time, the daily brief, and the    *)
(* demos.  TLC explores them in one run: one of them moves in a behaviour, *)
(* the others rest in an initial state.  Of the drafts either the way from *)
(* a suggestion to Gmail moves, or the receipts that lead nowhere else.    *)
(***************************************************************************)
EXTENDS Drafts, Meetings, PilotLedgers, RobotCommands, DailyBrief, DemoFlows

VARIABLE part   \* which of them moves

Parts == {"suggestions", "receipts", "meetings", "ledgers", "commands", "brief", "demos"}

MCInit ==
    /\ DraftInit /\ MeetingInit /\ PilotInit /\ CommandInit /\ BriefInit /\ DemoInit
    /\ part \in Parts
    /\ part # "meetings" => ~direct /\ agenda = CHOOSE a \in Agendas : TRUE

-----------------------------------------------------------------------------
(* What the sources give, the owner decides, and the stages record *)

Signal(key, trigger, title, whose) ==
    [key |-> key, trigger |-> trigger, title |-> title, whose |-> whose]

\* One signal under two titles, and the second again beside another owner's.
MCReadings ==
    {<<Signal("k1", "email_thread_no_followup", "a", "owner"),
       Signal("k1", "email_thread_no_followup", "b", "owner")>>,
     <<Signal("k2", "open_task_due_soon", "c", "other"),
       Signal("k1", "email_thread_no_followup", "b", "owner")>>}

MCOutputs == {[item |-> "o1", whose |-> "owner"], [item |-> "o2", whose |-> "other"]}

Event(event, title, state, marks) ==
    [event |-> event, title |-> title, state |-> state, marks |-> marks]

\* A calendar; one event of it cancelled and the other renamed; or both there and one more.
MCAgendas ==
    {<<Event("e1", "a", "confirmed", {"prep", "people"}),
       Event("e2", "b", "confirmed", {"business", "prep"})>>,
     <<Event("e1", "a", "cancelled", {"prep", "people"}),
       Event("e2", "c", "confirmed", {"business", "prep"})>>,
     <<Event("e1", "a", "confirmed", {"prep", "people", "business"}),
       Event("e2", "b", "confirmed", {"prep", "business"}),
       Event("e3", "d", "confirmed", {"prep"})>>}

Said(item, tag) == [whose |-> "owner", item |-> <<item, 1>>, tag |-> tag, day |-> 1]
MCFeedback == {Said("sugg", "useful"), Said("sugg", "wrong"), Said("meeting", "wrong_context")}
MCOutcomes ==
    {[whose |-> "owner", outcome |-> "draft_created", day |-> 1],
     [whose |-> "owner", outcome |-> "draft_approved", day |-> 2]}
MCIssues ==
    {[whose |-> "owner", user |-> "ana", command |-> "/report_wrong", severity |-> s,
      item |-> <<"sugg", 1>>, day |-> 1] : s \in {"low", "critical"}}
MCIncidents ==
    {[whose |-> "owner", user |-> "ana", type |-> "missing_consent", severity |-> "low", day |-> 1]}
MCUsage == {[whose |-> "owner", cost |-> 30, status |-> "failed", month |-> 1]}

\* Commands with and without what they need, a document, a caption and silence.
MCTexts ==
    {Text(word, "none", FALSE) : word \in {"/today", "/memory", "/inbox_done", "/prep", "/loops", "hello", ""}}
    \cup {Text("/feedback", "bad", FALSE), Text("/gmail_thread", "some", FALSE),
          Text("/export_email", "rejected", FALSE), Text("/export_email", "approved", FALSE),
          Text("/pilot_provision", "not_positive", FALSE), Text("", "none", TRUE)}

MCEntries ==
    {[stage |-> e[1], status |-> e[2]] : e \in
        {<<"105P", "delivered">>, <<"106P", "recorded">>, <<"107P", "dismissed">>,
         <<"114P", "acknowledged">>, <<"115P", "pending_user_review">>,
         <<"116P", "approved_pending_writeback">>, <<"116P", "lineage_summary_requested">>,
         <<"117P", "written">>,
         <<"117P", "duplicate_existing">>, <<"119P", "invoice_due_soon">>,
         <<"120P", "delivered_local">>, <<"121P", "adapted_to_followup_intent">>,
         <<"123P", "failure_candidate_created">>}}

\* A window that is none, and two that share an end.
MCWindows == {[from |-> 1, to |-> 0], [from |-> 0, to |-> 1], [from |-> 1, to |-> 2]}

Fixture(demo, id, hints, at, says) ==
    [demo |-> demo, id |-> id, hints |-> hints, at |-> at, window |-> "week", says |-> says]

\* A document to review, one with a claim and one that is a stale proposal; a meeting on
\* the second day, and a thread of messages.  Ana writes in two chats.
Asked(whose, fixture, days) ==
    {[owner |-> who[1], chat |-> who[2], fixture |-> fixture, day |-> day] : who \in whose, day \in days}

AnaAtHome == {<<"ana", "home">>}
Everybody == {<<"ana", "home">>, <<"ana", "work">>, <<"ben", "home">>}

MCDemoRuns ==
    Asked(Everybody, Fixture("document", "d1", "document_review_needed", 0, "plain"), {1, 2})
    \cup Asked(AnaAtHome, Fixture("document", "d2", "document_review_needed", 0, "claim"), {1})
    \cup Asked(AnaAtHome, Fixture("document", "d3", "stale_proposal_followup", 0, "plain"), {1})
    \cup Asked(Everybody, Fixture("meeting", "m1", "meeting_brief_missing", 2, "plain"), {2, 3})
    \cup Asked(AnaAtHome, Fixture("meeting", "m1", "meeting_brief_missing", 2, "plain"), {1})
    \cup Asked(AnaAtHome, Fixture("meeting", "m2", "unread_context_needs_summary", 1, "plain"), {1})

-----------------------------------------------------------------------------
MCNext ==
    /\ UNCHANGED part
    /\ \/ /\ \/ part = "suggestions" /\ SuggestNext
             \/ part = "receipts" /\ ReceiptNext
          /\ UNCHANGED <<meetingVars, pilotVars, commandVars, briefVars, demoVars>>
       \/ part = "meetings" /\ MeetingNext /\ UNCHANGED <<draftVars, pilotVars, commandVars, briefVars, demoVars>>
       \/ part = "ledgers" /\ PilotNext /\ UNCHANGED <<draftVars, meetingVars, commandVars, briefVars, demoVars>>
       \/ part = "commands" /\ CommandNext /\ UNCHANGED <<draftVars, meetingVars, pilotVars, briefVars, demoVars>>
       \/ part = "brief" /\ BriefNext /\ UNCHANGED <<draftVars, meetingVars, pilotVars, commandVars, demoVars>>
       \/ part = "demos" /\ DemoNext /\ UNCHANGED <<draftVars, meetingVars, pilotVars, commandVars, briefVars>>

MCSpec == MCInit /\ [][MCNext]_<<draftVars, meetingVars, pilotVars, commandVars, briefVars, demoVars, part>>

\* The type invariants of the six: receipts are about what their stages found, tokens
\* were issued, ledgers hold what was captured, replies show what there was,
\* the demos keep one record for a key.
TypesOK == DraftTypeOK /\ MeetingTypeOK /\ PilotTypeOK /\ CommandTypeOK /\ BriefTypeOK /\ DemoTypeOK
=============================================================================
