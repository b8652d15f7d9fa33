---------------------------- MODULE RobotCommands ----------------------------
(***************************************************************************)
(* One command of the pilot robot (app/runnable_telegram_robot_mvp.py:     *)
(* load_telegram_robot_config_from_env, parse_telegram_incoming_command,   *)
(* handle_incoming_command, render_command_reply) and the fast path that   *)
(* answers some commands with a reply saved earlier                        *)
(* (app/fast_path_cache.py, stage 192P).                                   *)
(*                                                                         *)
(* The handler keeps nothing: every branch asks again whether the sender   *)
(* is an owner, builds the record of its own command, and the reply shows  *)
(* that record.  What it reads outside the robot (Calendar, Gmail) changes *)
(* behind its back.                                                        *)
(***************************************************************************)
EXTENDS Integers, FiniteSets

CONSTANTS
    Users,       \* those who write to the bot
    Texts,       \* the messages they send, see Text
    Robots,      \* robots whose replies are saved; ThisRobot is the configured one
    ThisRobot,
    Ttl,         \* DEFAULT_FAST_PATH_TTL_SECONDS
    MaxClock,    \* bound: time
    MaxSaved     \* bound: replies saved

ASSUME CommandsAssumption ==
    /\ ThisRobot \in Robots
    /\ Ttl \in Nat \ {0} /\ MaxClock \in Nat /\ MaxSaved \in Nat

VARIABLES
    owners,   \* owner_ids of the loaded configuration, {} before it is loaded
    clock,    \* int(time.time())
    changed,  \* external: when what the replies show last changed, and before that
    entries,  \* FastPathCacheEntry: replies saved
    last      \* TelegramSendReceipt of the last command, and what it touched

commandVars == <<owners, clock, changed, entries, last>>

-----------------------------------------------------------------------------
(* Messages *)

\* A text is its first word, what follows it, and whether a document came along.
Text(word, rest, document) == [word |-> word, rest |-> rest, document |-> document]

\* A document makes the message a /document whatever its caption says.
Command(text) == IF text.document THEN "/document" ELSE text.word

\* normalize_telegram_command: nothing is left of a message without words.
Readable(text) == text.document \/ text.word # ""

\* extract_telegram_command_argument: what follows the command, if this is the
\* command that was written.  A document's text is a placeholder without one.
Following(text, command) ==
    IF text.document \/ text.word # command THEN "none" ELSE text.rest

\* Each branch takes what follows its own command, so only one of them finds any.
Argument(text) == Following(text, Command(text))

\* is_owner_authorized
IsOwner(user) == user \in owners

-----------------------------------------------------------------------------
(* The fast path *)

Cacheable == {"/status", "/today", "/usage", "/memory"}

\* A clock that was set back makes an entry as young as can be.
Age(e) == IF clock > e.at THEN clock - e.at ELSE 0

Fresh(e) == Age(e) <= Ttl

Hits_OfAnyRobot(command) == {e \in entries : e.command = command /\ Fresh(e)}

Hits(command) ==
    {e \in entries : e.robot = ThisRobot /\ e.command = command /\ Fresh(e)}

\* find_fast_path_cache_entry: the newest.
Newest(found) == CHOOSE e \in found : \A other \in found : other.at <= e.at

-----------------------------------------------------------------------------
(* What each branch of the handler does, for an owner *)

\* /brief, /suggest_brief, /today and /daily_brief; a saved /today reads nothing.
DayTouches(command, hit) ==
    CASE command \in {"/brief", "/suggest_brief"} -> {"calendar"}
      [] command = "/today"       -> IF hit THEN {} ELSE {"calendar"}
      [] command = "/daily_brief" -> {"calendar", "gmail"}
      [] OTHER                    -> {}

\* The pilot's commands up to the safety log.  Its own draft is approved by itself
\* and made with the fixture client; no reply of theirs asks anything outside.
PilotRaises(command, argument) ==
    command = "/pilot_provision" /\ argument = "not_positive"

\* From the weekly report to the drafts' revisions: these build a receipt of what
\* was written, or show how to write it.
Asks(command, argument) ==
    /\ command \in {"/feedback", "/founder_outcome", "/draft_revise"}
    /\ argument # "well_formed"

\* /gmail_thread, /loops, /inbox and the decisions about one item of the inbox.
InboxTouches(command, argument) ==
    CASE command \in {"/loops", "/inbox"} -> {"calendar"}
      [] command = "/gmail_thread" -> IF argument = "none" THEN {} ELSE {"gmail"}
      [] OTHER                     -> {}

InboxRaises(command, argument) ==
    command \in {"/inbox_done", "/inbox_dismiss"} /\ argument = "none"

PrepTouches(command) == IF command = "/prep" THEN {"calendar", "gmail"} ELSE {}

DocumentRaises(command, document) == command = "/document" /\ ~document

\* /export_text, /export_file and /export_email: only the last leaves the robot, and
\* only for a confirmation that approves.
ExportTouches(command, argument) ==
    IF command = "/export_email" /\ argument = "approved" THEN {"gmail_draft"} ELSE {}

\* What the memory, suggestion, approval and draft commands build are receipts of
\* their own (modules MemoryCenter and Drafts); none of them reads outside.
Raises(command, argument, document) ==
    \/ PilotRaises(command, argument)
    \/ InboxRaises(command, argument)
    \/ DocumentRaises(command, document)

\* Every record is empty until the branch of the one command fills its own.
Touches(command, argument, hit) ==
    DayTouches(command, hit) \cup InboxTouches(command, argument)
        \cup PrepTouches(command) \cup ExportTouches(command, argument)

-----------------------------------------------------------------------------
(* render_command_reply: which kind of reply it is *)

DayCommands ==
    {"/start", "/help", "/menu", "/status", "/checkup", "/setup", "/miss", "/today",
     "/daily_brief", "/brief", "/suggest_brief"}
PilotCommands ==
    {"/demo", "/pilot", "/pilot_pack", "/pilot_audit", "/live_smoke", "/pilot_metrics",
     "/friendly_onboarding", "/friendly_pilot", "/pilot_users", "/pilot_user",
     "/pilot_health", "/pilot_invite", "/pilot_consent", "/pilot_provision",
     "/pilot_allowlist", "/pilot_boundary", "/pilot_runbook", "/report_issue",
     "/report_bug", "/report_confusing", "/report_wrong", "/report_missing",
     "/report_slow", "/pilot_safety", "/pilot_weekly_report", "/end_pilot",
     "/export_pilot_data", "/delete_pilot_memory", "/disable_pilot_connectors",
     "/pilot_launch", "/pilot_activate", "/pilot_review", "/pilot_learnings",
     "/paid_pilot_gate", "/founder_loop", "/feedback", "/feedback_ledger",
     "/founder_outcome", "/suggestion_quality", "/prep_quality", "/draft_revise"}
\* /memory_review and what is decided about one memory or proposal.
MemoryReceipts ==
    {"/memory_review", "/memory_approve", "/memory_reject", "/memory_edit",
     "/memory_forget", "/memory_wrong", "/memory_stale", "/memory_duplicate",
     "/memory_merge", "/memory_never_use"}
\* The inboxes of suggestions, approvals and drafts, and a decision about one item:
\* each is shown, or decided on, as it is without any item handed in.
OutputReceipts ==
    {"/suggestions", "/suggestion_dismiss", "/suggestion_snooze", "/suggestion_memory",
     "/suggestion_draft", "/suggestion_followup", "/approvals", "/approve", "/reject",
     "/drafts", "/draft_approve", "/draft_reject", "/draft_edit", "/draft_expire"}
OwnerCommands ==
    MemoryReceipts \cup OutputReceipts \cup
    {"/gmail_thread", "/loops", "/inbox", "/inbox_done", "/inbox_dismiss", "/prep",
     "/export_text", "/export_email", "/export_file", "/usage", "/memory",
     "/memory_limits", "/memory_pending", "/document"}

\* Anything else goes past the skill gates to "I do not know that command yet".
Reply(command, argument) ==
    IF Asks(command, argument) THEN "usage"
    ELSE IF command \in DayCommands \cup PilotCommands \cup OwnerCommands THEN "built"
    ELSE "unknown"

-----------------------------------------------------------------------------
Nothing == [to |-> "nobody", robot |-> ThisRobot, command |-> "none",
            how |-> "none", shows |-> 0, at |-> 0, touched |-> {}, argument |-> "none"]

CommandInit ==
    /\ owners = {} /\ clock = 0 /\ changed = {0} /\ entries = {} /\ last = Nothing

\* The configuration is refused without an owner, a robot, a token or with a poll
\* limit or timeout that is not positive; one that is accepted names owners.
Load(allowed) ==
    /\ owners = {} /\ allowed # {}
    /\ owners' = allowed
    /\ UNCHANGED <<clock, changed, entries, last>>

Tick ==
    /\ clock < MaxClock
    /\ clock' = clock + 1
    /\ UNCHANGED <<owners, changed, entries, last>>

\* External: the calendar, the mailbox, a memory or the usage changes.
Change ==
    /\ clock \notin changed
    /\ changed' = changed \cup {clock}
    /\ UNCHANGED <<owners, clock, entries, last>>

\* What holds now is told by when it began.
Current == CHOOSE t \in changed : \A u \in changed : u <= t

\* handle_incoming_command for a stranger: only the refusal.
Refuse(user, text) ==
    /\ owners # {} /\ Readable(text) /\ ~IsOwner(user)
    /\ last' = [Nothing EXCEPT !.to = user, !.command = Command(text),
                               !.how = "private", !.at = clock]
    /\ UNCHANGED <<owners, clock, changed, entries>>

\* ... and for an owner, whose command is not one of the fast path or was not
\* answered lately.
Handle(user, text) ==
    LET command  == Command(text)
        argument == Argument(text)
    IN  /\ owners # {} /\ Readable(text) /\ IsOwner(user)
        /\ Hits(command) = {}
        /\ ~Raises(command, argument, text.document)
        /\ last' = [Nothing EXCEPT !.to = user, !.command = command,
                        !.how = Reply(command, argument), !.shows = Current, !.at = clock,
                        !.touched = Touches(command, argument, FALSE),
                        !.argument = argument]
        /\ UNCHANGED <<owners, clock, changed, entries>>

\* The saved reply stands in for whatever the branch built.
HandleFromCache(user, text) ==
    LET command == Command(text)
        entry   == Newest(Hits(command))
    IN  /\ owners # {} /\ Readable(text) /\ IsOwner(user)
        /\ Hits(command) # {}
        /\ last' = [Nothing EXCEPT !.to = user, !.robot = entry.robot,
                        !.command = entry.command, !.how = "cached",
                        !.shows = entry.shows, !.at = clock,
                        !.touched = Touches(command, Argument(text), TRUE)]
        /\ UNCHANGED <<owners, clock, changed, entries>>

\* The exception leaves the loop, see PilotPolling; nothing was sent or touched.
HandleRaising(user, text) ==
    LET command == Command(text)
    IN  /\ owners # {} /\ Readable(text) /\ IsOwner(user)
        /\ Hits(command) = {}
        /\ Raises(command, Argument(text), text.document)
        /\ last' = [Nothing EXCEPT !.command = command, !.how = "raised", !.at = clock]
        /\ UNCHANGED <<owners, clock, changed, entries>>

\* build_fast_path_cache_entry with a reply just built, here or by another robot of
\* the household: what that one shows began with its own last change.
Save(robot, command) ==
    /\ Cardinality(entries) < MaxSaved /\ command \in Cacheable
    /\ robot = ThisRobot => last.how = "built" /\ last.command = command
    /\ LET at    == IF robot = ThisRobot THEN last.at ELSE clock
           shows == IF robot = ThisRobot THEN last.shows ELSE clock
       IN  entries' = entries \cup
               {[robot |-> robot, command |-> command, at |-> at, shows |-> shows]}
    /\ UNCHANGED <<owners, clock, changed, last>>

CommandNext ==
    \/ \E allowed \in SUBSET Users : Load(allowed)
    \/ Tick
    \/ Change
    \/ \E user \in Users, text \in Texts :
           \/ Refuse(user, text)
           \/ Handle(user, text)
           \/ HandleFromCache(user, text)
           \/ HandleRaising(user, text)
    \/ \E robot \in Robots, command \in {t.word : t \in Texts} : Save(robot, command)

CommandSpec == CommandInit /\ [][CommandNext]_commandVars

-----------------------------------------------------------------------------
\* Types; a saved reply shows what was there when it was built; and a reply shows what
\* changed no later than it was sent.
CommandTypeOK ==
    /\ owners \subseteq Users /\ clock \in 0 .. MaxClock /\ changed \subseteq 0 .. clock
    /\ \A e \in entries : /\ e.robot \in Robots /\ e.command \in Cacheable
                         /\ e.shows <= e.at /\ e.at <= clock
    /\ last.to \in Users \cup {"nobody"} /\ last.shows <= last.at /\ last.at <= clock
    /\ last.how \in {"none", "private", "raised", "usage", "built", "cached", "unknown"}

\* A stranger gets the refusal and touches nothing; the calendar and the mailbox are
\* read only for the commands that show them; and a Gmail draft is made for nothing
\* but an export that names an approval.
WithinTheCommand ==
    /\ last.to \notin owners => last.touched = {} /\ last.how \in {"none", "private", "raised"}
    /\ "calendar" \in last.touched =>
           last.command \in {"/brief", "/suggest_brief", "/today", "/daily_brief",
                             "/loops", "/inbox", "/prep"}
    /\ "gmail_draft" \in last.touched =>
           last.command = "/export_email" /\ last.argument = "approved"

\* Nobody but an owner makes the robot do anything, and a command does no more than
\* its own; an owner is answered about their own robot, and with nothing that had
\* already been out of date for longer than a saved reply may live.
OwnAndRecent ==
    /\ WithinTheCommand
    /\ last.how \in {"built", "cached"} =>
           /\ last.robot = ThisRobot
           /\ \A t \in changed :
                  last.shows < t /\ t <= last.at => last.at - t <= Ttl
=============================================================================
