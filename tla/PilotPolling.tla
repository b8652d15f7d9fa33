----------------------------- MODULE PilotPolling -----------------------------
(***************************************************************************)
(* The long-polling loop of the pilot robot                                *)
(* (app/runnable_telegram_robot_mvp.py: main, run_polling_loop,            *)
(* run_polling_once, handle_incoming_command).                             *)
(*                                                                         *)
(* Telegram numbers the updates and keeps each until getUpdates is called  *)
(* with a larger offset.  The offset is a local variable of the loop, so a *)
(* process that stops forgets it, and the next one is handed everything    *)
(* again that was not confirmed.  No exception of a handler or of the      *)
(* client is caught before it leaves main.                                 *)
(***************************************************************************)
EXTENDS Integers, Sequences

CONSTANTS
    PollLimit,   \* ROBOTICXS_TELEGRAM_POLL_LIMIT
    MaxUpdates,  \* bound: updates that arrive
    MaxFailures  \* bound: failing calls of Telegram and stops by hand

\* validate_telegram_robot_config refuses a limit that is not positive.
ASSUME PollLimitAssumption == PollLimit \in Nat \ {0}
ASSUME BoundsAssumption    == MaxUpdates \in Nat /\ MaxFailures \in Nat

VARIABLES
    updates,    \* Telegram: what each update is, in the order of their ids
    confirmed,  \* Telegram: the first id not confirmed
    up,         \* the process runs
    offset,     \* current_offset / next_offset of the loop
    at,         \* the update of the batch to be handled next ...
    upTo,       \* ... and the last of the batch
    answered,   \* history: updates whose reply reached its chat
    times,      \* history: replies to each update in this life of the process
    failures

pollVars == <<updates, confirmed, up, offset, at, upTo, answered, times, failures>>

\* parse_telegram_incoming_command takes it for a command or for nothing; some
\* commands end in an exception before their reply is sent: /inbox_done and
\* /inbox_dismiss without an item, /document as a text.
UpdateKinds == {"unreadable", "command", "raising"}

NoOffset == 0
Ids      == 1 .. MaxUpdates
Known    == 1 .. Len(updates)
Fetched  == at .. upTo

PollInit ==
    /\ updates = <<>> /\ confirmed = 1
    /\ up = TRUE /\ offset = NoOffset /\ at = 1 /\ upTo = 0
    /\ answered = {} /\ times = [u \in Ids |-> 0] /\ failures = 0

-----------------------------------------------------------------------------
(* getUpdates *)

Arrive(kind) ==
    /\ Len(updates) < MaxUpdates
    /\ updates' = Append(updates, kind)
    /\ UNCHANGED <<confirmed, up, offset, at, upTo, answered, times, failures>>

\* The offset confirms every update before it; without one nothing is confirmed.
FirstPending == IF offset > confirmed THEN offset ELSE confirmed

LastOfBatch_Unlimited(first) == Len(updates)

\* At most poll_limit updates, the oldest first.
LastOfBatch(first) ==
    IF first + PollLimit - 1 < Len(updates) THEN first + PollLimit - 1 ELSE Len(updates)

Poll ==
    /\ up /\ Fetched = {}
    /\ confirmed' = FirstPending
    /\ at' = FirstPending
    /\ upTo' = LastOfBatch(FirstPending)
    /\ UNCHANGED <<updates, up, offset, answered, times, failures>>

-----------------------------------------------------------------------------
(* One update of the batch *)

\* next_offset = update_id + 1
NextOffset(u) == u + 1

Handled(u) == at' = u + 1 /\ offset' = NextOffset(u)

Ignore_Unconfirmed(u) ==
    /\ updates[u] = "unreadable"
    /\ at' = u + 1
    /\ UNCHANGED <<updates, confirmed, up, offset, upTo, answered, times, failures>>

Ignore(u) ==
    /\ updates[u] = "unreadable"
    /\ Handled(u)
    /\ UNCHANGED <<updates, confirmed, up, upTo, answered, times, failures>>

\* Owners and everybody else are answered; only the text differs.
Answer(u) ==
    /\ updates[u] = "command"
    /\ answered' = answered \cup {u}
    /\ times' = [times EXCEPT ![u] = @ + 1]
    /\ Handled(u)
    /\ UNCHANGED <<updates, confirmed, up, upTo, failures>>

-----------------------------------------------------------------------------
(* The process ends, and with it the offset and the rest of the batch *)

EndProcess ==
    /\ up' = FALSE
    /\ offset' = NoOffset /\ at' = 1 /\ upTo' = 0
    /\ times' = [u \in Ids |-> 0]

Raise(u) ==
    /\ updates[u] = "raising"
    /\ EndProcess
    /\ UNCHANGED <<updates, confirmed, answered, failures>>

Fail == failures < MaxFailures /\ failures' = failures + 1

SendFails_NextPlease(u) ==
    /\ updates[u] = "command" /\ Fail
    /\ Handled(u)
    /\ UNCHANGED <<updates, confirmed, up, upTo, answered, times>>

\* sendMessage raises: refused or unreachable, or delivered and its receipt lost.
SendFails(u) ==
    /\ updates[u] = "command" /\ Fail
    /\ answered' \in {answered, answered \cup {u}}
    /\ EndProcess
    /\ UNCHANGED <<updates, confirmed>>

\* getUpdates raises: before Telegram saw the offset, or after it.
PollFails ==
    /\ up /\ Fetched = {} /\ Fail
    /\ confirmed' \in {confirmed, FirstPending}
    /\ EndProcess
    /\ UNCHANGED <<updates, answered>>

\* --once, --max-cycles or an interrupt.
Stop ==
    /\ up /\ Fail
    /\ EndProcess
    /\ UNCHANGED <<updates, confirmed, answered>>

\* main begins without an offset.
Start ==
    /\ ~up
    /\ up' = TRUE
    /\ UNCHANGED <<updates, confirmed, offset, at, upTo, answered, times, failures>>

-----------------------------------------------------------------------------
HandleUpdate == up /\ at <= upTo /\ (Ignore(at) \/ Answer(at) \/ Raise(at))

PollNext ==
    \/ \E kind \in UpdateKinds : Arrive(kind)
    \/ Poll
    \/ HandleUpdate
    \/ up /\ at <= upTo /\ SendFails(at)
    \/ PollFails
    \/ Stop
    \/ Start

\* The loop never rests, and whoever runs the robot starts it again.
PollSpec == PollInit /\ [][PollNext]_pollVars /\ WF_pollVars(Poll) /\ WF_pollVars(HandleUpdate) /\ WF_pollVars(Start)

-----------------------------------------------------------------------------
(* Properties *)

\* Types and ranges; the batch and the offset stay among the updates there are.
PollTypeOK ==
    /\ updates \in Seq(UpdateKinds) /\ Len(updates) <= MaxUpdates
    /\ confirmed \in 1 .. Len(updates) + 1
    /\ up \in BOOLEAN
    /\ offset \in 0 .. Len(updates) + 1
    /\ at \in 1 .. Len(updates) + 1 /\ upTo \in 0 .. Len(updates)
    /\ answered \subseteq Known
    /\ times \in [Ids -> Nat]
    /\ failures \in 0 .. MaxFailures

\* Nothing is asked of an update that is no command; a command is answered.
Settled(u) == updates[u] = "unreadable" \/ u \in answered

\* The loop hands updates to handle_incoming_command in their order and confirms
\* only what was handled: no command is left behind by a later answer or by a
\* confirmation, wherever calls fail or the process stops.
NoneOvertaken ==
    \A u \in Known : u < confirmed \/ (\E v \in answered : u < v) => Settled(u)

\* What a new process may answer a second time is at most one batch: every answer
\* lies within poll_limit updates of what Telegram has been told.
ReplayWindow == \A u \in answered : u < confirmed + PollLimit

\* Within one life of the process the advancing offset keeps every command from
\* being answered twice.
OncePerLife == \A u \in Ids : times[u] <= 1

ClearWay(u) == u \in Known /\ (\A v \in 1 .. u : updates[v] # "raising")

\* A command with no raising command before it is answered in the end, although
\* calls fail and the process stops and starts again.
AnsweredInTheEnd ==
    \A u \in Ids : (ClearWay(u) /\ updates[u] = "command") ~> (u \in answered)

\* Whoever writes a command gets a reply, as the loop's test on malformed updates
\* and the roadmap's account of stage 130P have it.
EveryCommandAnswered ==
    \A u \in Ids : (u \in Known /\ updates[u] = "command") ~> (u \in answered)
=============================================================================
