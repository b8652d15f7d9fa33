-------------------------- MODULE ConversationHistory --------------------------
(***************************************************************************)
(* The free conversation with Robbie (app/telegram_runtime.py,             *)
(* run_telegram_conversation_loop, past the interview and the memory loop) *)
(* and the short history it keeps (app/conversation_history.py).           *)
(*                                                                         *)
(* A turn is found again by the message id alone.  Telegram posts updates  *)
(* in order and posts one again when its answer is lost; the saved turn is *)
(* then to be replayed instead of asking the model a second time.          *)
(***************************************************************************)
EXTENDS Integers, FiniteSets, Sequences

CONSTANTS
    Chats,      \* the chats in which the user writes to the bot
    MaxTurns,   \* conversation_history_max_turns
    TTL,        \* conversation_history_ttl_minutes, in ticks of the clock
    MaxId,      \* bound: messages in a chat, numbered from 1
    MaxClock,   \* bound: ticks
    MaxQueue,   \* bound: updates posted and not yet answered
    MaxLost     \* bound: answers that do not reach Telegram

\* Settings.__post_init__ clamps both settings to at least one.
SettingsAssumption == MaxTurns \in Nat \ {0} /\ TTL \in Nat \ {0}
BoundsAssumption   == MaxId \in Nat /\ MaxClock \in Nat /\ MaxQueue \in Nat /\ MaxLost \in Nat

VARIABLES
    turns,     \* ConversationTurn rows of the user; the order of created_at is that of their answers
    clock,
    calls,     \* answers the model has given
    reply,     \* the last reply: what it answers, and with which answer
    prompt,    \* the turns the model was last given
    sent,      \* messages written, per chat
    queue,     \* the updates Telegram has to deliver, oldest first
    lost,      \* answers lost so far
    session,   \* history: every turn since the last clear
    given      \* history: per message, its first answer and when it was given

store     == <<turns, calls, prompt, session>>
telegram  == <<sent, queue, lost>>
vars      == <<turns, clock, calls, reply, prompt, sent, queue, lost, session, given>>

Messages == [chat : Chats, id : 1 .. MaxId]

\* A text is for the model, clears the conversation, is answered by the action
\* boundary, or has been taken by the memory loop before it gets here.
Kinds   == {"talk", "clear", "guarded", "memory"}
Updates == [message : Messages, says : Kinds]

NoMessage == [chat |-> "none", id |-> 0]
NoAnswer  == [nr |-> 0, to |-> NoMessage]

-----------------------------------------------------------------------------
(* conversation_history.py *)

\* created_at is not before the cutoff.
Live(turn) == turn.at >= clock - TTL

Newer(turn, ts) == {other \in ts : other.answer.nr > turn.answer.nr}

Newest(ts) == {turn \in ts : Cardinality(Newer(turn, ts)) < MaxTurns}

Pruned_OnlyCount(ts) == Newest(ts)

\* prune_conversation_turns
Pruned(ts) == Newest({turn \in ts : Live(turn)})

Saved_None(message, ts) == {}

\* get_conversation_turn_by_source: user, robot, channel and message id.
Saved(message, ts) == {turn \in ts : turn.source = message.id}

Turn(message, answer) ==
    [source |-> message.id, chat |-> message.chat, at |-> clock, answer |-> answer]

-----------------------------------------------------------------------------
(* The conversation loop *)

Answers(message, kind, answer) ==
    reply' = [to |-> message, kind |-> kind, answer |-> answer]

Clear(message) ==
    /\ turns' = {}
    /\ session' = {}
    /\ Answers(message, "cleared", NoAnswer)
    /\ UNCHANGED <<calls, prompt>>

\* The boundary guard and the memory loop answer without touching the history.
Guard(message, kind) ==
    /\ Answers(message, kind, NoAnswer)
    /\ UNCHANGED store

Replay(message) ==
    /\ turns' = Pruned(turns)
    /\ \E turn \in Saved(message, turns') : Answers(message, "replay", turn.answer)
    /\ UNCHANGED <<calls, prompt, session>>

\* The model is not reached: a fallback text, and nothing is kept.
Unavailable(message) ==
    /\ turns' = Pruned(turns)
    /\ Saved(message, turns') = {}
    /\ prompt' = turns'
    /\ Answers(message, "unavailable", NoAnswer)
    /\ UNCHANGED <<calls, session>>

Converse(message) ==
    LET recent == Pruned(turns)
        answer == [nr |-> calls + 1, to |-> message]
    IN  /\ Saved(message, recent) = {}
        /\ calls' = calls + 1
        /\ prompt' = recent
        /\ turns' = Pruned(recent \cup {Turn(message, answer)})
        /\ session' = session \cup {Turn(message, answer)}
        /\ Answers(message, "model", answer)

Handle(update) ==
    LET message == update.message IN
    \/ update.says = "clear" /\ Clear(message)
    \/ update.says \in {"guarded", "memory"} /\ Guard(message, update.says)
    \/ update.says = "talk" /\ (Replay(message) \/ Unavailable(message) \/ Converse(message))

-----------------------------------------------------------------------------
(* Telegram *)

\* Telegram numbers the messages of a chat as they come in.
Send(chat, says) ==
    /\ sent[chat] < MaxId /\ Len(queue) < MaxQueue
    /\ sent' = [sent EXCEPT ![chat] = @ + 1]
    /\ queue' = Append(queue, [message |-> [chat |-> chat, id |-> sent'[chat]], says |-> says])
    /\ UNCHANGED <<store, clock, reply, lost, given>>

Process ==
    /\ queue # <<>>
    /\ Handle(Head(queue))
    /\ given' = IF reply'.kind \in {"model", "replay"} /\ given[reply'.to].nr = 0
                THEN [given EXCEPT ![reply'.to] = [nr |-> reply'.answer.nr, at |-> clock]]
                ELSE given
    /\ UNCHANGED <<clock, sent>>

Deliver == Process /\ queue' = Tail(queue) /\ UNCHANGED lost

DeliverUnanswered ==
    /\ lost < MaxLost /\ lost' = lost + 1
    /\ Process
    /\ UNCHANGED queue

Tick == clock < MaxClock /\ clock' = clock + 1 /\ UNCHANGED <<store, reply, telegram, given>>

Init ==
    /\ turns = {} /\ session = {} /\ prompt = {}
    /\ clock = 0 /\ calls = 0
    /\ reply = [to |-> NoMessage, kind |-> "none", answer |-> NoAnswer]
    /\ sent = [chat \in Chats |-> 0] /\ queue = <<>> /\ lost = 0
    /\ given = [message \in Messages |-> [nr |-> 0, at |-> 0]]

Next ==
    \/ \E chat \in Chats, says \in Kinds : Send(chat, says)
    \/ Deliver
    \/ DeliverUnanswered
    \/ Tick

Spec == Init /\ [][Next]_vars

-----------------------------------------------------------------------------
(* Properties *)

AnswerRecords == [nr : Nat, to : Messages \cup {NoMessage}]
TurnRecords == [source : 1 .. MaxId, chat : Chats, at : 0 .. MaxClock, answer : AnswerRecords]

TypeOK ==
    /\ turns \subseteq TurnRecords /\ Cardinality(turns) <= MaxTurns
    /\ session \subseteq TurnRecords /\ prompt \subseteq TurnRecords
    /\ clock \in 0 .. MaxClock /\ calls \in Nat
    /\ reply \in [to : Messages \cup {NoMessage},
                  kind : Kinds \cup {"none", "cleared", "replay", "unavailable", "model"},
                  answer : AnswerRecords]
    /\ sent \in [Chats -> 0 .. MaxId]
    /\ queue \in Seq(Updates) /\ Len(queue) <= MaxQueue
    /\ lost \in 0 .. MaxLost
    /\ given \in [Messages -> [nr : Nat, at : 0 .. MaxClock]]

\* The unique constraint: no two rows for one message id.
OneTurnPerSource ==
    \A turn, other \in turns : turn.source = other.source => turn = other

\* What the model is given is what was said lately: of the turns since the last
\* clear, those younger than the time to live and among the last MaxTurns.
Recent == Newest({turn \in session : turn.at + TTL >= clock})

PromptIsSession ==
    [][reply'.kind \in {"model", "unavailable"} /\ reply' # reply => prompt' = Recent]_vars

\* A message handled again within the time to live gets the answer it got the
\* first time.
RetriedAlike ==
    [][\A message \in Messages :
          /\ reply' # reply /\ reply'.to = message
          /\ reply'.kind \in {"model", "replay"}
          /\ given[message].nr # 0 /\ clock - given[message].at <= TTL
          => reply'.answer.nr = given[message].nr]_vars

\* A message is answered with an answer to that message.
OwnAnswer == reply.kind \in {"model", "replay"} => reply.answer.to = reply.to
=============================================================================
