-------------------------- MODULE ConversationProofs --------------------------
(***************************************************************************)
(* The proofs about the conversation, for any history length, time to      *)
(* live and number of chats and messages.                                  *)
(*                                                                         *)
(* What the model is given is what it should be given because rows leave   *)
(* the table only from its old end: a row that is there has every later    *)
(* turn beside it, and one that is gone was too old, or followed by as     *)
(* many turns as are kept (History).  A message that is posted again is    *)
(* the head of the queue, and as long as it was, nothing was said but it:  *)
(* its turn is the newest (AnsweredOK).                                    *)
(***************************************************************************)
EXTENDS MCLoops, FiniteSetTheorems, WellFoundedInduction, TLAPS

-----------------------------------------------------------------------------
(* Rows and what is kept of them *)

LEMMA SameSize == \A S : Talk!Cardinality(S) = Cardinality(S)
BY Zenon DEF Talk!Cardinality, Cardinality

History(ts, all) ==
    /\ IsFiniteSet(all) /\ ts \subseteq all
    /\ \A t \in all : t.answer.nr \in Nat /\ t.at \in Nat
    /\ \A t, u \in all : t.answer.nr = u.answer.nr => t = u
    /\ \A t, u \in all : t.answer.nr < u.answer.nr => t.at <= u.at
    /\ \A t \in ts, u \in all : t.answer.nr < u.answer.nr => u \in ts
    /\ \A t \in all \ ts : Talk!Live(t) => ~(Cardinality(Talk!Newer(t, all)) < MaxTurns)

\* What follows a row that lives, lives; so the rows before the newest do not count.
LEMMA NewerThanLive ==
    ASSUME NEW ts, NEW all, History(ts, all), clock \in Nat, NEW t \in ts, Talk!Live(t)
    PROVE  Talk!Newer(t, {u \in ts : Talk!Live(u)}) = Talk!Newer(t, all)
<1>1. ASSUME NEW u \in all, u.answer.nr > t.answer.nr PROVE u \in ts /\ Talk!Live(u)
  <2>1. t.answer.nr < u.answer.nr /\ t \in all
    BY <1>1 DEF History
  <2>2. u \in ts /\ t.at <= u.at
    BY <2>1 DEF History
  <2>3. t.at \in Nat /\ u.at \in Nat
    BY <2>1 DEF History
  <2> QED BY <2>2, <2>3, ConversationAssumption DEF Talk!Live, Talk!SettingsAssumption
<1> QED BY <1>1 DEF Talk!Newer, History

LEMMA FewerNewer ==
    ASSUME NEW all, IsFiniteSet(all), NEW t, NEW some \in SUBSET all
    PROVE  /\ IsFiniteSet(Talk!Newer(t, some)) /\ Cardinality(Talk!Newer(t, some)) \in Nat
           /\ Cardinality(Talk!Newer(t, all)) \in Nat
           /\ Cardinality(Talk!Newer(t, some)) <= Cardinality(Talk!Newer(t, all))
<1>1. Talk!Newer(t, all) \subseteq all /\ Talk!Newer(t, some) \subseteq Talk!Newer(t, all)
  BY DEF Talk!Newer
<1>2. IsFiniteSet(Talk!Newer(t, all))
  BY <1>1, FS_Subset
<1> QED BY <1>1, <1>2, FS_Subset, FS_CardinalityType

\* Pruning the table keeps what a reader of the whole conversation calls recent.
LEMMA PrunedIsRecent ==
    ASSUME NEW ts, NEW all, History(ts, all), clock \in Nat
    PROVE  Talk!Pruned(ts) = Talk!Newest({t \in all : Talk!Live(t)})
<1> DEFINE kept == {t \in ts : Talk!Live(t)}
           live == {t \in all : Talk!Live(t)}
<1>1. \A t \in live : Talk!Newer(t, live) = Talk!Newer(t, all)
  <2>1. History(all, all)
    BY DEF History
  <2> QED BY <2>1, NewerThanLive
<1>2. \A t \in kept : Talk!Newer(t, kept) = Talk!Newer(t, all)
  BY NewerThanLive
<1>3. \A t \in live \ kept : ~(Cardinality(Talk!Newer(t, all)) < MaxTurns)
  BY DEF History
<1>4. kept \subseteq live
  BY DEF History
<1>5. Talk!Pruned(ts) = Talk!Newest(kept)
  BY DEF Talk!Pruned
<1> HIDE DEF kept, live
<1>6. Talk!Newest(kept) = Talk!Newest(live)
  <2>1. \A some, t : t \in Talk!Newest(some) <=> t \in some /\ Cardinality(Talk!Newer(t, some)) < MaxTurns
    BY SameSize DEF Talk!Newest
  <2>2. \A t : t \in Talk!Newest(kept) <=> t \in Talk!Newest(live)
    BY <1>1, <1>2, <1>3, <1>4, <2>1
  <2>3. Talk!Newest(kept) \subseteq Talk!Newest(live) /\ Talk!Newest(live) \subseteq Talk!Newest(kept)
    BY <2>2
  <2> QED BY <2>3
<1> QED BY <1>5, <1>6 DEF live

LEMMA PrunedKeepsHistory ==
    ASSUME NEW ts, NEW all, History(ts, all), clock \in Nat
    PROVE  History(Talk!Pruned(ts), all)
<1> DEFINE kept == {t \in ts : Talk!Live(t)}
           p == Talk!Pruned(ts)
<1>1. p = {t \in kept : Cardinality(Talk!Newer(t, kept)) < MaxTurns}
  <2>1. p = Talk!Newest(kept)
    BY DEF Talk!Pruned
  <2> HIDE DEF p, kept
  <2> QED BY <2>1, SameSize DEF Talk!Newest
<1>2. \A t \in kept : Talk!Newer(t, kept) = Talk!Newer(t, all)
  BY NewerThanLive
<1>3. \A t \in p : t \in ts /\ Talk!Live(t) /\ Cardinality(Talk!Newer(t, all)) < MaxTurns
  BY <1>1, <1>2
<1>4. \A t \in ts : Talk!Live(t) /\ Cardinality(Talk!Newer(t, all)) < MaxTurns => t \in p
  BY <1>1, <1>2
<1>5. ts \subseteq all /\ IsFiniteSet(all)
  BY DEF History
<1> HIDE DEF p, kept
<1>6. ASSUME NEW t \in p, NEW u \in all, t.answer.nr < u.answer.nr PROVE u \in p
  <2>1. u \in ts /\ t \in all /\ t.at <= u.at /\ t.at \in Nat /\ u.at \in Nat
    BY <1>3, <1>5, <1>6 DEF History
  <2>2. Talk!Live(u)
    BY <1>3, <2>1, ConversationAssumption DEF Talk!Live, Talk!SettingsAssumption
  <2>3. Talk!Newer(u, all) \subseteq Talk!Newer(t, all)
    <3>1. ASSUME NEW v \in all, v.answer.nr > u.answer.nr PROVE v.answer.nr > t.answer.nr
      <4>1. t.answer.nr \in Nat /\ u.answer.nr \in Nat /\ v.answer.nr \in Nat
        BY <2>1 DEF History
      <4> QED BY <1>6, <3>1, <4>1
    <3> QED BY <3>1 DEF Talk!Newer
  <2>4. IsFiniteSet(Talk!Newer(t, all))
    BY <1>5, FewerNewer
  <2>5. /\ Cardinality(Talk!Newer(u, all)) <= Cardinality(Talk!Newer(t, all))
        /\ Cardinality(Talk!Newer(u, all)) \in Nat /\ Cardinality(Talk!Newer(t, all)) \in Nat
    BY <1>5, <2>3, <2>4, FS_Subset, FewerNewer
  <2>6. Cardinality(Talk!Newer(u, all)) < MaxTurns
    BY <1>3, <2>5, ConversationAssumption DEF Talk!SettingsAssumption
  <2> QED BY <1>4, <2>1, <2>2, <2>6
<1>7. ASSUME NEW t \in all \ p, Talk!Live(t) PROVE ~(Cardinality(Talk!Newer(t, all)) < MaxTurns)
  BY <1>4, <1>7 DEF History
<1> QED BY <1>3, <1>6, <1>7 DEF History, p

\* A new turn, later than all of them.
LEMMA SaidKeepsHistory ==
    ASSUME NEW ts, NEW all, History(ts, all), NEW new, new.answer.nr \in Nat, new.at \in Nat,
           \A t \in all : t.answer.nr < new.answer.nr /\ t.at <= new.at
    PROVE  History(ts \cup {new}, all \cup {new})
<1> DEFINE more == all \cup {new}
<1>1. IsFiniteSet(more) /\ ts \cup {new} \subseteq more
  BY FS_AddElement DEF History
<1>2. \A t \in more : t.answer.nr \in Nat /\ t.at \in Nat
  BY DEF History
<1>3. \A t, u \in more : t.answer.nr = u.answer.nr => t = u
  <2> SUFFICES ASSUME NEW t \in more, NEW u \in more, t.answer.nr = u.answer.nr PROVE t = u
    OBVIOUS
  <2>1. t.answer.nr \in Nat /\ u.answer.nr \in Nat
    BY <1>2
  <2>2. CASE t \in all /\ u \in all
    BY <2>2 DEF History
  <2>3. CASE t \notin all \/ u \notin all
    BY <2>1, <2>3
  <2> QED BY <2>2, <2>3
<1>4. \A t, u \in more : t.answer.nr < u.answer.nr => t.at <= u.at
  <2> SUFFICES ASSUME NEW t \in more, NEW u \in more, t.answer.nr < u.answer.nr PROVE t.at <= u.at
    OBVIOUS
  <2>1. t.answer.nr \in Nat /\ u.answer.nr \in Nat /\ t.at \in Nat /\ u.at \in Nat
    BY <1>2
  <2>2. CASE t \in all /\ u \in all
    BY <2>2 DEF History
  <2>3. CASE t \notin all \/ u \notin all
    BY <2>1, <2>3
  <2> QED BY <2>2, <2>3
<1>5. ASSUME NEW t \in ts \cup {new}, NEW u \in more, t.answer.nr < u.answer.nr PROVE u \in ts \cup {new}
  <2>1. t.answer.nr \in Nat /\ u.answer.nr \in Nat
    BY <1>2 DEF History
  <2>2. CASE u = new
    BY <2>2
  <2>3. CASE u # new
    <3>1. u \in all /\ t # new
      BY <1>5, <2>1, <2>3
    <3> QED BY <1>5, <3>1 DEF History
  <2> QED BY <2>2, <2>3
<1>6. ASSUME NEW t \in more \ (ts \cup {new}), Talk!Live(t)
      PROVE  ~(Cardinality(Talk!Newer(t, more)) < MaxTurns)
  <2>1. t \in all \ ts /\ ~(Cardinality(Talk!Newer(t, all)) < MaxTurns)
    BY <1>6 DEF History
  <2>2. /\ Cardinality(Talk!Newer(t, all)) <= Cardinality(Talk!Newer(t, more))
        /\ Cardinality(Talk!Newer(t, all)) \in Nat /\ Cardinality(Talk!Newer(t, more)) \in Nat
    BY <1>1, FewerNewer
  <2> QED BY <2>1, <2>2, ConversationAssumption DEF Talk!SettingsAssumption
<1> QED BY <1>1, <1>2, <1>3, <1>4, <1>5, <1>6 DEF History

-----------------------------------------------------------------------------
(* No more are kept than may be *)

Below == {pair \in Nat \X Nat : pair[1] < pair[2]}

LEMMA Least ==
    ASSUME NEW T, T \subseteq Nat, T # {}
    PROVE  \E x \in T : \A y \in T : x <= y
<1>1. OpToRel(<, Nat) = Below
  BY Zenon DEF OpToRel, Below
<1>2. IsWellFoundedOn(Below, Nat)
  BY <1>1, NatLessThanWellFounded, Zenon
<1>3. PICK x \in T : \A y \in T : ~ (<<y, x>> \in Below)
  BY <1>2, WFMin, Zenon
<1>4. ASSUME NEW y \in T PROVE x <= y
  <2>1. x \in Nat /\ y \in Nat /\ <<y, x>> \notin Below
    BY <1>3
  <2> QED BY <2>1 DEF Below
<1> QED BY <1>4

LEMMA PrunedIsShort ==
    ASSUME NEW ts, NEW all, History(ts, all), clock \in Nat
    PROVE  Cardinality(Talk!Pruned(ts)) <= MaxTurns
<1> DEFINE kept == {t \in ts : Talk!Live(t)}
           p == Talk!Pruned(ts)
<1>0. MaxTurns \in Nat /\ MaxTurns > 0
  BY ConversationAssumption DEF Talk!SettingsAssumption
<1>1. p = {t \in kept : Cardinality(Talk!Newer(t, kept)) < MaxTurns}
  <2>1. p = Talk!Newest(kept)
    BY DEF Talk!Pruned
  <2> HIDE DEF p, kept
  <2> QED BY <2>1, SameSize DEF Talk!Newest
<1>2. kept \subseteq all /\ IsFiniteSet(all)
  BY DEF History
<1> HIDE DEF kept, p
<1>3. IsFiniteSet(kept) /\ IsFiniteSet(p) /\ p \subseteq all
  BY <1>1, <1>2, FS_Subset
<1>4. CASE p = {}
  BY <1>0, <1>4, FS_EmptySet DEF p
<1>5. CASE p # {}
  <2> DEFINE N == {t.answer.nr : t \in p}
  <2>1. N \subseteq Nat /\ N # {}
    BY <1>3, <1>5 DEF History
  <2>2. PICK n \in N : \A m \in N : n <= m
    <3> HIDE DEF N
    <3> QED BY <2>1, Least
  <2>3. PICK x \in p : n = x.answer.nr
    OBVIOUS
  <2>4. p \ {x} \subseteq Talk!Newer(x, kept)
    <3>1. ASSUME NEW y \in p, y # x PROVE y \in kept /\ y.answer.nr > x.answer.nr
      <4>1. y.answer.nr \in Nat /\ x.answer.nr \in Nat /\ x.answer.nr # y.answer.nr
        BY <1>3, <3>1 DEF History
      <4>2. x.answer.nr <= y.answer.nr
        BY <2>2, <2>3
      <4> QED BY <1>1, <4>1, <4>2
    <3> QED BY <3>1 DEF Talk!Newer
  <2>5. IsFiniteSet(Talk!Newer(x, kept)) /\ Cardinality(Talk!Newer(x, kept)) \in Nat
    BY <1>3, FewerNewer
  <2>6. Cardinality(p \ {x}) <= Cardinality(Talk!Newer(x, kept))
    BY <2>4, <2>5, FS_Subset
  <2>7. Cardinality(p \ {x}) = Cardinality(p) - 1 /\ Cardinality(p) \in Nat
    BY <1>3, FS_RemoveElement, FS_CardinalityType
  <2>8. Cardinality(Talk!Newer(x, kept)) < MaxTurns
    BY <1>1
  <2> QED BY <1>0, <2>5, <2>6, <2>7, <2>8 DEF p
<1> QED BY <1>4, <1>5 DEF p

-----------------------------------------------------------------------------
(* What a message does to the history *)

HistoryOK ==
    /\ History(turns, session) /\ clock \in Nat /\ calls \in Nat
    /\ \A t \in session : t.answer.nr <= calls /\ t.at <= clock

StoreTyped ==
    /\ turns \subseteq Talk!TurnRecords /\ Cardinality(turns) <= MaxTurns
    /\ session \subseteq Talk!TurnRecords /\ prompt \subseteq Talk!TurnRecords
    /\ clock \in 0 .. MaxClock /\ calls \in Nat

StoreInv == HistoryOK /\ StoreTyped /\ Talk!OneTurnPerSource

RecentNow == Talk!Newest({t \in session : Talk!Live(t)})

LEMMA PrunedIsSome == \A ts : Talk!Pruned(ts) \subseteq ts
BY DEF Talk!Pruned, Talk!Newest

LEMMA RecentIs == StoreInv => Talk!Recent = RecentNow
<1> SUFFICES ASSUME StoreInv PROVE Talk!Recent = RecentNow
  OBVIOUS
<1>1. \A t \in session : t.at + TTL >= clock <=> Talk!Live(t)
  BY ConversationAssumption DEF StoreInv, HistoryOK, History, Talk!Live, Talk!SettingsAssumption
<1>2. {t \in session : t.at + TTL >= clock} = {t \in session : Talk!Live(t)}
  BY <1>1
<1> QED BY <1>2 DEF Talk!Recent, RecentNow

\* A retry, or a question the model does not answer: the table is pruned.
LEMMA AgedKeeps ==
    ASSUME StoreInv, turns' = Talk!Pruned(turns), UNCHANGED <<clock, calls, session>>,
           prompt' \in {prompt, Talk!Pruned(turns)}
    PROVE  StoreInv'
<1>1. HistoryOK'
  <2>1. History(Talk!Pruned(turns), session)
    BY PrunedKeepsHistory DEF StoreInv, HistoryOK
  <2>2. History(turns, session)'
    BY <2>1 DEF History, Talk!Live
  <2> QED BY <2>2 DEF StoreInv, HistoryOK
<1>2. turns' \subseteq turns
  BY PrunedIsSome
<1>3. Cardinality(turns') <= MaxTurns
  BY PrunedIsShort DEF StoreInv, HistoryOK
<1>4. StoreTyped'
  BY <1>2, <1>3 DEF StoreInv, StoreTyped
<1>5. Talk!OneTurnPerSource'
  BY <1>2 DEF StoreInv, Talk!OneTurnPerSource
<1> QED BY <1>1, <1>4, <1>5 DEF StoreInv

LEMMA ClearedKeeps ==
    ASSUME StoreInv, turns' = {}, session' = {}, UNCHANGED <<clock, calls, prompt>>
    PROVE  StoreInv'
<1>1. IsFiniteSet({}) /\ Cardinality({}) = 0
  BY FS_EmptySet
<1>2. HistoryOK'
  BY <1>1 DEF StoreInv, HistoryOK, History
<1>3. StoreTyped' /\ Talk!OneTurnPerSource'
  BY <1>1, ConversationAssumption DEF StoreInv, StoreTyped, Talk!OneTurnPerSource, Talk!SettingsAssumption
<1> QED BY <1>2, <1>3 DEF StoreInv

LEMMA SameKeeps ==
    ASSUME StoreInv, UNCHANGED <<turns, clock, calls, prompt, session>> PROVE StoreInv'
BY DEF StoreInv, HistoryOK, History, Talk!Live, StoreTyped, Talk!OneTurnPerSource

\* The turns only grow older.
LEMMA OlderKeeps ==
    ASSUME StoreInv, clock' = clock + 1, clock < MaxClock, UNCHANGED <<turns, calls, prompt, session>>
    PROVE  StoreInv'
<1>0. clock \in Nat /\ TTL \in Nat /\ MaxClock \in Nat
  BY ConversationAssumption
     DEF StoreInv, HistoryOK, Talk!SettingsAssumption, Talk!BoundsAssumption
<1>1. \A t \in session : Talk!Live(t)' => Talk!Live(t)
  BY <1>0 DEF StoreInv, HistoryOK, History, Talk!Live
<1>2. History(turns, session)'
  BY <1>1 DEF StoreInv, HistoryOK, History
<1>3. HistoryOK'
  BY <1>0, <1>2 DEF StoreInv, HistoryOK, History
<1>4. StoreTyped'
  BY <1>0 DEF StoreInv, StoreTyped
<1> QED BY <1>3, <1>4 DEF StoreInv, Talk!OneTurnPerSource

LEMMA TurnIs ==
    ASSUME NEW message \in Talk!Messages, NEW nr \in Nat, clock \in 0 .. MaxClock
    PROVE  LET turn == Talk!Turn(message, [nr |-> nr, to |-> message])
           IN  /\ turn \in Talk!TurnRecords
               /\ turn.source = message.id /\ turn.at = clock /\ turn.chat = message.chat
               /\ turn.answer.nr = nr /\ turn.answer.to = message
               /\ turn.answer \in Talk!AnswerRecords
BY DEF Talk!Turn, Talk!Messages, Talk!TurnRecords, Talk!AnswerRecords

\* An answer of the model is kept as the newest turn, and no other turn has its message.
LEMMA SaidKeeps ==
    ASSUME StoreInv, NEW message \in Talk!Messages, Talk!Converse(message), UNCHANGED clock
    PROVE  /\ StoreInv'
           /\ Talk!Turn(message, [nr |-> calls + 1, to |-> message]) \in turns'
           /\ turns' \subseteq turns \cup {Talk!Turn(message, [nr |-> calls + 1, to |-> message])}
<1> DEFINE recent == Talk!Pruned(turns)
           new == Talk!Turn(message, [nr |-> calls + 1, to |-> message])
<1>1. /\ Talk!Saved(message, recent) = {} /\ calls' = calls + 1 /\ prompt' = recent
      /\ turns' = Talk!Pruned(recent \cup {new}) /\ session' = session \cup {new}
  BY DEF Talk!Converse
<1>2. /\ new \in Talk!TurnRecords /\ new.source = message.id /\ new.at = clock
      /\ new.answer.nr = calls + 1
  BY TurnIs DEF StoreInv, StoreTyped
<1>3. History(recent, session) /\ recent \subseteq turns
  BY PrunedKeepsHistory, PrunedIsSome DEF StoreInv, HistoryOK
<1> HIDE DEF recent, new
<1>4. \A t \in session : /\ t.answer.nr < new.answer.nr /\ t.at <= new.at
                         /\ t.answer.nr \in Nat /\ t.at \in Nat
  BY <1>2 DEF StoreInv, HistoryOK, History
<1>5. clock \in Nat /\ calls \in Nat
  BY DEF StoreInv, HistoryOK
<1>6. History(recent \cup {new}, session \cup {new})
  <2>1. new.answer.nr \in Nat /\ new.at \in Nat
    BY <1>2, <1>5
  <2>2. \A t \in session : t.answer.nr < new.answer.nr /\ t.at <= new.at
    BY <1>4
  <2> QED BY <1>3, <2>1, <2>2, SaidKeepsHistory
<1>7. /\ History(turns', session')
      /\ Cardinality(turns') <= MaxTurns /\ turns' \subseteq recent \cup {new}
  BY <1>1, <1>5, <1>6, PrunedKeepsHistory, PrunedIsShort, PrunedIsSome
<1>8. HistoryOK'
  <2>1. History(turns, session)'
    BY <1>7 DEF History, Talk!Live
  <2>2. \A t \in session' : t.answer.nr <= calls' /\ t.at <= clock'
    BY <1>1, <1>2, <1>4, <1>5 DEF StoreInv, HistoryOK
  <2> QED BY <1>1, <1>5, <2>1, <2>2 DEF HistoryOK
<1>9. StoreTyped'
  BY <1>1, <1>2, <1>3, <1>5, <1>7 DEF StoreInv, StoreTyped
<1>10. Talk!OneTurnPerSource'
  <2>1. \A t \in recent : t.source # new.source
    BY <1>1, <1>2 DEF Talk!Saved
  <2> QED BY <1>3, <1>7, <2>1 DEF StoreInv, Talk!OneTurnPerSource
<1>11. new \in turns'
  <2> DEFINE all == session \cup {new}
             live == {t \in all : Talk!Live(t)}
  <2>1. turns' = Talk!Newest(live)
    BY <1>1, <1>5, <1>6, PrunedIsRecent
  <2>2. new \in live
    BY <1>2, <1>5, ConversationAssumption DEF Talk!Live, Talk!SettingsAssumption
  <2>3. Talk!Newer(new, live) = {}
    BY <1>2, <1>4, <1>5 DEF Talk!Newer
  <2> HIDE DEF live
  <2> QED BY <2>1, <2>2, <2>3, SameSize, FS_EmptySet, ConversationAssumption
          DEF Talk!Newest, Talk!SettingsAssumption
<1> QED BY <1>3, <1>7, <1>8, <1>9, <1>10, <1>11 DEF StoreInv, new

-----------------------------------------------------------------------------
(* What a message is answered *)

ReplyTyped ==
    answer \in [to : Talk!Messages \cup {Talk!NoMessage},
                kind : Talk!Kinds \cup {"none", "cleared", "replay", "unavailable", "model"},
                answer : Talk!AnswerRecords]

TelegramTyped ==
    /\ sent \in [Chats -> 0 .. MaxId]
    /\ queue \in Seq(Talk!Updates) /\ Len(queue) <= MaxQueue
    /\ lostAnswers \in 0 .. MaxLostAnswers
    /\ given \in [Talk!Messages -> [nr : Nat, at : 0 .. MaxClock]]

LEMMA TypeParts == Talk!TypeOK <=> StoreTyped /\ ReplyTyped /\ TelegramTyped
BY SameSize DEF Talk!TypeOK, StoreTyped, ReplyTyped, TelegramTyped

\* The answer is typed if its parts are.
LEMMA AnswersTyped ==
    ASSUME NEW message \in Talk!Messages, NEW kind, NEW said \in Talk!AnswerRecords,
           kind \in Talk!Kinds \cup {"none", "cleared", "replay", "unavailable", "model"},
           Talk!Answers(message, kind, said)
    PROVE  ReplyTyped' /\ answer'.to = message /\ answer'.kind = kind /\ answer'.answer = said
BY DEF Talk!Answers, ReplyTyped

LEMMA NoAnswerTyped == Talk!NoAnswer \in Talk!AnswerRecords
BY DEF Talk!NoAnswer, Talk!AnswerRecords, Talk!NoMessage

\* Every message keeps the history and is answered; what the model is given is recent.
HandledOK(message) ==
    /\ StoreInv' /\ ReplyTyped' /\ answer'.to = message
    /\ answer'.kind \in {"model", "unavailable"} => prompt' = RecentNow

LEMMA ClearShows ==
    ASSUME StoreInv, NEW message \in Talk!Messages, Talk!Clear(message), UNCHANGED clock
    PROVE  HandledOK(message) /\ answer'.kind = "cleared"
<1>1. ReplyTyped' /\ answer'.to = message /\ answer'.kind = "cleared"
  BY AnswersTyped, NoAnswerTyped DEF Talk!Clear
<1>2. StoreInv'
  BY ClearedKeeps DEF Talk!Clear
<1> QED BY <1>1, <1>2 DEF HandledOK

LEMMA GuardShows ==
    ASSUME StoreInv, NEW message \in Talk!Messages, NEW kind \in {"guarded", "memory"},
           Talk!Guard(message, kind), UNCHANGED clock
    PROVE  HandledOK(message) /\ answer'.kind = kind
<1>1. kind \in Talk!Kinds
  BY DEF Talk!Kinds
<1>2. ReplyTyped' /\ answer'.to = message /\ answer'.kind = kind
  BY <1>1, AnswersTyped, NoAnswerTyped DEF Talk!Guard
<1>3. StoreInv'
  BY SameKeeps DEF Talk!Guard, Talk!store
<1> QED BY <1>2, <1>3 DEF HandledOK

LEMMA ReplayShows ==
    ASSUME StoreInv, NEW message \in Talk!Messages, Talk!Replay(message), UNCHANGED clock
    PROVE  /\ HandledOK(message) /\ answer'.kind = "replay"
           /\ \E turn \in turns' : turn.source = message.id /\ answer'.answer = turn.answer
<1>1. StoreInv'
  BY AgedKeeps DEF Talk!Replay
<1>2. PICK turn \in Talk!Saved(message, turns') : Talk!Answers(message, "replay", turn.answer)
  BY DEF Talk!Replay
<1>3. turn \in turns' /\ turn.source = message.id
  BY DEF Talk!Saved
<1>4. turn.answer \in Talk!AnswerRecords
  BY <1>1, <1>3 DEF StoreInv, StoreTyped, Talk!TurnRecords
<1>5. ReplyTyped' /\ answer'.to = message /\ answer'.kind = "replay" /\ answer'.answer = turn.answer
  BY <1>2, <1>4, AnswersTyped
<1> QED BY <1>1, <1>3, <1>5 DEF HandledOK

LEMMA PrunedNow == StoreInv => Talk!Pruned(turns) = RecentNow
BY PrunedIsRecent DEF StoreInv, HistoryOK, RecentNow

LEMMA UnavailableShows ==
    ASSUME StoreInv, NEW message \in Talk!Messages, Talk!Unavailable(message), UNCHANGED clock
    PROVE  HandledOK(message) /\ answer'.kind = "unavailable"
<1>1. ReplyTyped' /\ answer'.to = message /\ answer'.kind = "unavailable"
  BY AnswersTyped, NoAnswerTyped DEF Talk!Unavailable
<1>2. StoreInv'
  BY AgedKeeps DEF Talk!Unavailable
<1>3. prompt' = RecentNow
  BY PrunedNow DEF Talk!Unavailable
<1> QED BY <1>1, <1>2, <1>3 DEF HandledOK

LEMMA ConverseShows ==
    ASSUME StoreInv, NEW message \in Talk!Messages, Talk!Converse(message), UNCHANGED clock
    PROVE  /\ HandledOK(message) /\ answer'.kind = "model"
           /\ answer'.answer = [nr |-> calls + 1, to |-> message]
<1> DEFINE said == [nr |-> calls + 1, to |-> message]
<1>1. said \in Talk!AnswerRecords
  BY DEF Talk!AnswerRecords, StoreInv, HistoryOK
<1>2. Talk!Answers(message, "model", said)
  BY DEF Talk!Converse
<1>3. ReplyTyped' /\ answer'.to = message /\ answer'.kind = "model" /\ answer'.answer = said
  <2> HIDE DEF said
  <2> QED BY <1>1, <1>2, AnswersTyped
<1>4. StoreInv'
  BY SaidKeeps
<1>5. prompt' = RecentNow
  BY PrunedNow DEF Talk!Converse
<1> QED BY <1>3, <1>4, <1>5 DEF HandledOK

LEMMA HandleShows ==
    ASSUME StoreInv, NEW update \in Talk!Updates, Talk!Handle(update), UNCHANGED clock
    PROVE  HandledOK(update.message)
<1>1. update.message \in Talk!Messages
  BY DEF Talk!Updates
<1> QED BY <1>1, ClearShows, GuardShows, ReplayShows, UnavailableShows, ConverseShows DEF Talk!Handle

-----------------------------------------------------------------------------
(* Telegram posts *)

TalkInv == StoreInv /\ ReplyTyped /\ TelegramTyped

TalkStepOK ==
    /\ TalkInv'
    /\ answer'.kind \in {"model", "unavailable"} /\ answer' # answer => prompt' = Talk!Recent

LEMMA TalkStart == Talk!Init => TalkInv
<1> SUFFICES ASSUME Talk!Init PROVE TalkInv
  OBVIOUS
<1>1. IsFiniteSet({}) /\ Cardinality({}) = 0
  BY FS_EmptySet
<1>2. StoreInv
  BY <1>1, ConversationAssumption
     DEF Talk!Init, StoreInv, HistoryOK, History, StoreTyped, Talk!OneTurnPerSource,
         Talk!SettingsAssumption, Talk!BoundsAssumption
<1>3. ReplyTyped
  BY NoAnswerTyped DEF Talk!Init, ReplyTyped
<1>4. TelegramTyped
  BY ConversationAssumption DEF Talk!Init, TelegramTyped, Talk!BoundsAssumption
<1> QED BY <1>2, <1>3, <1>4 DEF TalkInv

LEMMA SendShows ==
    ASSUME TalkInv, NEW chat \in Chats, NEW says \in Talk!Kinds, Talk!Send(chat, says)
    PROVE  TalkStepOK
<1>1. /\ sent[chat] < MaxId /\ Len(queue) < MaxQueue
      /\ sent' = [sent EXCEPT ![chat] = @ + 1]
      /\ queue' = Append(queue, [message |-> [chat |-> chat, id |-> sent'[chat]], says |-> says])
      /\ UNCHANGED <<turns, calls, prompt, session, clock, answer, lostAnswers, given>>
  BY DEF Talk!Send, Talk!store
<1>2. sent' \in [Chats -> 0 .. MaxId] /\ sent'[chat] \in 1 .. MaxId
  BY <1>1, ConversationAssumption DEF TalkInv, TelegramTyped, Talk!BoundsAssumption
<1>3. [message |-> [chat |-> chat, id |-> sent'[chat]], says |-> says] \in Talk!Updates
  BY <1>2 DEF Talk!Updates, Talk!Messages
<1>4. queue' \in Seq(Talk!Updates) /\ Len(queue') <= MaxQueue
  BY <1>1, <1>3, ConversationAssumption DEF TalkInv, TelegramTyped, Talk!BoundsAssumption
<1>5. StoreInv' /\ ReplyTyped'
  BY <1>1, SameKeeps DEF TalkInv, ReplyTyped
<1> QED BY <1>1, <1>2, <1>4, <1>5 DEF TalkInv, TelegramTyped, TalkStepOK

LEMMA ProcessShows ==
    ASSUME TalkInv, Talk!Process
    PROVE  /\ Head(queue) \in Talk!Updates /\ HandledOK(Head(queue).message) /\ UNCHANGED clock
           /\ given' \in [Talk!Messages -> [nr : Nat, at : 0 .. MaxClock]] /\ sent' = sent
<1>1. queue # << >> /\ Talk!Handle(Head(queue)) /\ clock' = clock /\ sent' = sent
  BY DEF Talk!Process
<1>2. Head(queue) \in Talk!Updates
  BY <1>1 DEF TalkInv, TelegramTyped
<1>3. HandledOK(Head(queue).message)
  BY <1>1, <1>2, HandleShows DEF TalkInv
<1>4. Head(queue).message \in Talk!Messages /\ answer'.answer.nr \in Nat
  BY <1>2, <1>3 DEF Talk!Updates, HandledOK, ReplyTyped, Talk!AnswerRecords
<1>5. clock \in 0 .. MaxClock
  BY DEF TalkInv, StoreInv, StoreTyped
<1>6. given' \in [Talk!Messages -> [nr : Nat, at : 0 .. MaxClock]]
  BY <1>4, <1>5 DEF Talk!Process, TalkInv, TelegramTyped
<1> QED BY <1>1, <1>2, <1>3, <1>6

LEMMA TalkStep == ASSUME TalkInv, [Talk!Next]_Talk!vars PROVE TalkStepOK
<1>1. CASE UNCHANGED Talk!vars
  <2>1. StoreInv' /\ answer' = answer
    BY <1>1, SameKeeps DEF Talk!vars, TalkInv
  <2> QED BY <1>1, <2>1 DEF Talk!vars, TalkInv, ReplyTyped, TelegramTyped, TalkStepOK
<1>2. CASE \E chat \in Chats, says \in Talk!Kinds : Talk!Send(chat, says)
  BY <1>2, SendShows
<1>3. ASSUME Talk!Process, queue' = Tail(queue) \/ queue' = queue, lostAnswers' \in 0 .. MaxLostAnswers
      PROVE  TalkStepOK
  <2>1. queue # << >>
    BY <1>3 DEF Talk!Process
  <2>2. queue' \in Seq(Talk!Updates) /\ Len(queue') <= MaxQueue
    <3>1. queue \in Seq(Talk!Updates) /\ Len(queue) <= MaxQueue /\ MaxQueue \in Nat
      BY ConversationAssumption DEF TalkInv, TelegramTyped, Talk!BoundsAssumption
    <3>2. Tail(queue) \in Seq(Talk!Updates) /\ Len(Tail(queue)) = Len(queue) - 1 /\ Len(queue) \in Nat
      BY <2>1, <3>1
    <3> QED BY <1>3, <3>1, <3>2
  <2>3. TelegramTyped'
    BY <1>3, <2>2, ProcessShows DEF TalkInv, TelegramTyped
  <2> QED BY <1>3, <2>3, ProcessShows, RecentIs DEF HandledOK, TalkInv, TalkStepOK
<1>4. CASE Talk!Deliver
  BY <1>3, <1>4 DEF Talk!Deliver, TalkInv, TelegramTyped
<1>5. CASE Talk!DeliverUnanswered
  BY <1>3, <1>5, ConversationAssumption
     DEF Talk!DeliverUnanswered, TalkInv, TelegramTyped, Talk!BoundsAssumption
<1>6. CASE Talk!Tick
  BY <1>6, OlderKeeps
     DEF Talk!Tick, Talk!store, Talk!telegram, TalkInv, ReplyTyped, TelegramTyped, TalkStepOK
<1> QED BY <1>1, <1>2, <1>4, <1>5, <1>6 DEF Talk!Next

\* What the model is given is what was said lately, no message has two turns, and the
\* tables keep their types, for any number of chats, messages and lost answers and any
\* history length and time to live (list_recent_conversation_turns,
\* record_conversation_turn).
THEOREM PromptIsRecent == Talk!Spec => PromptIsSession
<1>1. TalkInv => Talk!TypeOK /\ Talk!OneTurnPerSource
  BY TypeParts DEF TalkInv, StoreInv
<1>2. ASSUME TalkInv, [Talk!Next]_Talk!vars PROVE TalkInv'
  BY <1>2, TalkStep DEF TalkStepOK
<1>3. ASSUME TalkInv, [Talk!Next]_Talk!vars
      PROVE  [answer'.kind \in {"model", "unavailable"} /\ answer' # answer => prompt' = Talk!Recent]_Talk!vars
  BY <1>3, TalkStep DEF TalkStepOK
<1> QED BY <1>1, <1>2, <1>3, TalkStart, PTL DEF Talk!Spec, PromptIsSession, Talk!PromptIsSession

-----------------------------------------------------------------------------
(* Posted again, in one chat *)

\* What waits was sent, each message once; only the head may have been answered, and then
\* it is for the model.
QueueOK ==
    /\ \A k \in DOMAIN queue : queue[k].message.id <= sent[queue[k].message.chat]
    /\ \A j, k \in DOMAIN queue : j < k => queue[j].message # queue[k].message
    /\ \A k \in DOMAIN queue : k > 1 => given[queue[k].message].nr = 0
    /\ \A m \in Talk!Messages : m.id > sent[m.chat] => given[m].nr = 0

\* The turn a message was given first, the newest there is.
FirstTurn(message) ==
    \E t \in turns : /\ t.source = message.id /\ t.at = given[message].at
                     /\ t.answer.nr = given[message].nr /\ t.answer.nr = calls

AnsweredLately(message) == given[message].nr # 0 /\ clock - given[message].at <= TTL

TurnsOK ==
    \A t \in turns, m \in Talk!Messages : m.id = t.source => t.answer.to = m /\ given[m].nr # 0

HeadOK ==
    queue # << >> =>
        /\ given[Head(queue).message].nr # 0 => Head(queue).says = "talk"
        /\ AnsweredLately(Head(queue).message) => FirstTurn(Head(queue).message)

AnsweredOK == QueueOK /\ TurnsOK /\ HeadOK /\ Talk!OwnAnswer

OneChat == \E chat : Chats = {chat}

LEMMA OneMessage ==
    ASSUME OneChat, NEW m \in Talk!Messages, NEW n \in Talk!Messages, m.id = n.id PROVE m = n
BY DEF OneChat, Talk!Messages

\* The newest turn is not pruned before its time.
LEMMA NewestStays ==
    ASSUME StoreInv, NEW t \in turns, t.answer.nr = calls, clock - t.at <= TTL
    PROVE  t \in Talk!Pruned(turns)
<1> DEFINE kept == {u \in turns : Talk!Live(u)}
<1>1. t \in session /\ t.at \in Nat /\ clock \in Nat /\ calls \in Nat
  BY DEF StoreInv, HistoryOK, History
<1>2. t \in kept
  BY <1>1, ConversationAssumption DEF Talk!Live, Talk!SettingsAssumption
<1>3. Talk!Newer(t, kept) = {}
  <2>1. \A u \in turns : u.answer.nr \in Nat /\ u.answer.nr <= calls
    BY DEF StoreInv, HistoryOK, History
  <2> QED BY <1>1, <2>1 DEF Talk!Newer
<1>4. Talk!Pruned(turns) = Talk!Newest(kept)
  BY DEF Talk!Pruned
<1> HIDE DEF kept
<1> QED BY <1>2, <1>3, <1>4, SameSize, FS_EmptySet, ConversationAssumption
        DEF Talk!Newest, Talk!SettingsAssumption

\* What a message changes for itself, and that it changes nothing for the others.
AnswerOK(message, says) ==
    /\ \A m \in Talk!Messages : m # message => given'[m] = given[m]
    /\ given'[message].nr # 0 => says = "talk"
    /\ AnsweredLately(message)' => FirstTurn(message)'
    /\ TurnsOK' /\ Talk!OwnAnswer'
    /\ answer'.kind \in {"model", "replay"} /\ AnsweredLately(message) => answer'.answer.nr = given[message].nr

\* A message that the model answers nothing new to leaves what is given as it is, and the
\* newest turn where it is.
LEMMA QuietlyAnswered ==
    ASSUME TalkInv, TurnsOK, NEW message \in Talk!Messages, NEW says,
           given[message].nr # 0 => says = "talk",
           AnsweredLately(message) => FirstTurn(message),
           given' = given, UNCHANGED <<clock, calls>>,
           \/ turns' = turns
           \/ turns' = Talk!Pruned(turns)
           \/ turns' = {} /\ given[message].nr = 0
    PROVE  /\ \A m \in Talk!Messages : m # message => given'[m] = given[m]
           /\ given'[message].nr # 0 => says = "talk"
           /\ AnsweredLately(message)' => FirstTurn(message)'
           /\ TurnsOK'
<1>1. turns' \subseteq turns
  BY PrunedIsSome
<1>2. TurnsOK'
  BY <1>1 DEF TurnsOK
<1>3. AnsweredLately(message)' => AnsweredLately(message)
  BY DEF AnsweredLately
<1>4. ASSUME AnsweredLately(message) PROVE FirstTurn(message)'
  <2>1. PICK t \in turns : /\ t.source = message.id /\ t.at = given[message].at
                           /\ t.answer.nr = given[message].nr /\ t.answer.nr = calls
    BY <1>4 DEF FirstTurn
  <2>2. t \in Talk!Pruned(turns)
    BY <1>4, <2>1, NewestStays DEF AnsweredLately, TalkInv
  <2>3. t \in turns'
    BY <1>4, <2>2 DEF AnsweredLately
  <2> QED BY <2>1, <2>3 DEF FirstTurn
<1> QED BY <1>2, <1>3, <1>4

LEMMA HandleAnswers ==
    ASSUME OneChat, TalkInv, AnsweredOK, Talk!Process, NEW message, NEW says,
           message = Head(queue).message, says = Head(queue).says
    PROVE  AnswerOK(message, says)
<1>1. /\ queue # << >> /\ Talk!Handle(Head(queue)) /\ clock' = clock
      /\ Head(queue) \in Talk!Updates /\ message \in Talk!Messages
  BY ProcessShows DEF Talk!Process, Talk!Updates
<1>2. given' = IF answer'.kind \in {"model", "replay"} /\ given[answer'.to].nr = 0
               THEN [given EXCEPT ![answer'.to] = [nr |-> answer'.answer.nr, at |-> clock]]
               ELSE given
  BY DEF Talk!Process
<1>3. /\ given[message].nr # 0 => says = "talk"
      /\ AnsweredLately(message) => FirstTurn(message)
      /\ TurnsOK
  BY <1>1 DEF AnsweredOK, HeadOK
<1>4. StoreInv /\ given \in [Talk!Messages -> [nr : Nat, at : 0 .. MaxClock]]
  BY DEF TalkInv, TelegramTyped
<1>5. CASE says = "clear" /\ Talk!Clear(message)
  <2>1. answer'.kind = "cleared" /\ turns' = {} /\ calls' = calls
    BY <1>1, <1>4, <1>5, ClearShows DEF Talk!Clear
  <2>2. given' = given /\ given[message].nr = 0
    BY <1>2, <1>3, <1>5, <2>1
  <2> QED BY <1>1, <1>3, <2>1, <2>2, QuietlyAnswered DEF AnswerOK, Talk!OwnAnswer
<1>6. CASE says \in {"guarded", "memory"} /\ Talk!Guard(message, says)
  <2>1. answer'.kind \notin {"model", "replay"} /\ turns' = turns /\ calls' = calls
    BY <1>1, <1>4, <1>6, GuardShows DEF Talk!Guard, Talk!store
  <2>2. given' = given
    BY <1>2, <2>1
  <2> QED BY <1>1, <1>3, <2>1, <2>2, QuietlyAnswered DEF AnswerOK, Talk!OwnAnswer
<1>7. CASE says = "talk" /\ Talk!Unavailable(message)
  <2>1. answer'.kind = "unavailable" /\ turns' = Talk!Pruned(turns) /\ calls' = calls
    BY <1>1, <1>4, <1>7, UnavailableShows DEF Talk!Unavailable
  <2>2. given' = given
    BY <1>2, <2>1
  <2> QED BY <1>1, <1>3, <2>1, <2>2, QuietlyAnswered DEF AnswerOK, Talk!OwnAnswer
<1>8. CASE says = "talk" /\ Talk!Replay(message)
  <2>1. /\ HandledOK(message) /\ answer'.kind = "replay"
        /\ turns' = Talk!Pruned(turns) /\ calls' = calls
    BY <1>1, <1>4, <1>8, ReplayShows DEF Talk!Replay
  <2>2. PICK turn \in turns' : turn.source = message.id /\ answer'.answer = turn.answer
    BY <1>1, <1>4, <1>8, ReplayShows
  <2>3. turn \in turns /\ turn.answer.to = message /\ given[message].nr # 0
    BY <1>1, <1>3, <2>1, <2>2, PrunedIsSome DEF TurnsOK
  <2>4. answer'.to = message /\ given' = given
    BY <1>2, <2>1, <2>3 DEF HandledOK
  <2>5. ASSUME AnsweredLately(message) PROVE answer'.answer.nr = given[message].nr
    <3>1. PICK t \in turns : t.source = message.id /\ t.answer.nr = given[message].nr
      BY <1>3, <2>5 DEF FirstTurn
    <3>2. t = turn
      BY <1>4, <2>2, <2>3, <3>1 DEF StoreInv, Talk!OneTurnPerSource
    <3> QED BY <2>2, <3>1, <3>2
  <2> QED BY <1>1, <1>3, <1>8, <2>1, <2>2, <2>3, <2>4, <2>5, QuietlyAnswered
          DEF AnswerOK, Talk!OwnAnswer
<1>9. CASE says = "talk" /\ Talk!Converse(message)
  <2> DEFINE new == Talk!Turn(message, [nr |-> calls + 1, to |-> message])
  <2>1. /\ HandledOK(message) /\ answer'.kind = "model"
        /\ answer'.answer = [nr |-> calls + 1, to |-> message]
    BY <1>1, <1>4, <1>9, ConverseShows
  <2>2. /\ new \in turns' /\ turns' \subseteq turns \cup {new}
        /\ calls' = calls + 1 /\ calls \in Nat /\ Talk!Saved(message, Talk!Pruned(turns)) = {}
    BY <1>1, <1>4, <1>9, SaidKeeps DEF Talk!Converse, StoreInv, HistoryOK
  <2>3. /\ new.source = message.id /\ new.at = clock
        /\ new.answer.nr = calls + 1 /\ new.answer.to = message
    BY <1>1, <1>4, <2>2, TurnIs DEF StoreInv, StoreTyped
  <2> HIDE DEF new
  <2>4. answer'.to = message /\ answer'.answer.nr = calls + 1 /\ answer'.answer.to = message
    BY <2>1 DEF HandledOK
  <2>5. ~AnsweredLately(message)
    <3>1. SUFFICES ASSUME AnsweredLately(message) PROVE FALSE
      OBVIOUS
    <3>2. PICK t \in turns : /\ t.source = message.id /\ t.at = given[message].at
                             /\ t.answer.nr = calls
      BY <1>3, <3>1 DEF FirstTurn
    <3>3. t \in Talk!Pruned(turns)
      BY <1>4, <3>1, <3>2, NewestStays DEF AnsweredLately
    <3> QED BY <2>2, <3>2, <3>3 DEF Talk!Saved
  <2>6. CASE given[message].nr # 0
    <3>1. given' = given
      BY <1>2, <2>4, <2>6
    <3>2. ~AnsweredLately(message)'
      BY <1>1, <2>5, <3>1 DEF AnsweredLately
    <3>3. TurnsOK'
      <4> SUFFICES ASSUME NEW t \in turns', NEW m \in Talk!Messages, m.id = t.source
                   PROVE  t.answer.to = m /\ given'[m].nr # 0
        BY DEF TurnsOK
      <4>1. CASE t \in turns
        BY <1>3, <3>1, <4>1 DEF TurnsOK
      <4>2. CASE t = new
        <5>1. m = message
          BY <1>1, <2>3, <4>2, OneMessage
        <5> QED BY <2>3, <2>6, <3>1, <4>2, <5>1
      <4> QED BY <2>2, <4>1, <4>2
    <3> QED BY <1>9, <2>4, <2>5, <3>1, <3>2, <3>3 DEF AnswerOK, Talk!OwnAnswer
  <2>7. CASE given[message].nr = 0
    <3> DEFINE first == [nr |-> calls + 1, at |-> clock]
    <3>1. given' = [given EXCEPT ![message] = first]
      BY <1>2, <2>1, <2>4, <2>7
    <3>2. first.nr = calls + 1 /\ first.at = clock
      OBVIOUS
    <3> HIDE DEF first
    <3>3. given'[message] = first /\ \A m \in Talk!Messages : m # message => given'[m] = given[m]
      BY <1>1, <1>4, <3>1
    <3>4. FirstTurn(message)'
      BY <2>2, <2>3, <3>2, <3>3 DEF FirstTurn
    <3>5. TurnsOK'
      <4> SUFFICES ASSUME NEW t \in turns', NEW m \in Talk!Messages, m.id = t.source
                   PROVE  t.answer.to = m /\ given'[m].nr # 0
        BY DEF TurnsOK
      <4>1. CASE t \in turns
        <5>1. t.answer.to = m /\ given[m].nr # 0
          BY <1>3, <4>1 DEF TurnsOK
        <5> QED BY <2>7, <3>3, <5>1
      <4>2. CASE t = new
        <5>1. m = message
          BY <1>1, <2>3, <4>2, OneMessage
        <5> QED BY <2>2, <2>3, <3>2, <3>3, <4>2, <5>1
      <4> QED BY <2>2, <4>1, <4>2
    <3> QED BY <1>9, <2>4, <2>5, <3>3, <3>4, <3>5 DEF AnswerOK, Talk!OwnAnswer
  <2> QED BY <2>6, <2>7
<1> QED BY <1>1, <1>5, <1>6, <1>7, <1>8, <1>9 DEF Talk!Handle

-----------------------------------------------------------------------------
RetryOK(message) ==
    /\ answer' # answer /\ answer'.to = message
    /\ answer'.kind \in {"model", "replay"}
    /\ given[message].nr # 0 /\ clock - given[message].at <= TTL
    => answer'.answer.nr = given[message].nr

AnsweredStepOK == AnsweredOK' /\ \A message \in Talk!Messages : RetryOK(message)

LEMMA AnsweredStart == Talk!Init => AnsweredOK
BY DEF Talk!Init, AnsweredOK, QueueOK, TurnsOK, HeadOK, Talk!OwnAnswer

LEMMA WaitingIs ==
    ASSUME TalkInv
    PROVE  /\ Len(queue) \in Nat /\ DOMAIN queue = 1 .. Len(queue)
           /\ \A k \in DOMAIN queue : queue[k] \in Talk!Updates /\ queue[k].message \in Talk!Messages
<1>1. queue \in Seq(Talk!Updates)
  BY DEF TalkInv, TelegramTyped
<1>2. /\ Len(queue) \in Nat /\ DOMAIN queue = 1 .. Len(queue)
      /\ \A k \in DOMAIN queue : queue[k] \in Talk!Updates
  BY <1>1
<1>3. \A update \in Talk!Updates : update.message \in Talk!Messages
  BY DEF Talk!Updates
<1> QED BY <1>2, <1>3

\* A message that is sent is a new one.
LEMMA SendAnswered ==
    ASSUME TalkInv, AnsweredOK, NEW chat \in Chats, NEW says \in Talk!Kinds, Talk!Send(chat, says)
    PROVE  AnsweredStepOK
<1> DEFINE new == [message |-> [chat |-> chat, id |-> sent'[chat]], says |-> says]
<1>1. /\ sent' = [sent EXCEPT ![chat] = @ + 1] /\ queue' = Append(queue, new)
      /\ UNCHANGED <<turns, calls, prompt, session, clock, answer, lostAnswers, given>>
  BY DEF Talk!Send, Talk!store
<1>2. /\ sent'[chat] = sent[chat] + 1 /\ sent[chat] \in Nat
      /\ \A c \in Chats : sent[c] \in Nat /\ sent[c] <= sent'[c]
  BY <1>1 DEF TalkInv, TelegramTyped
<1>3. /\ new.message.id = sent[chat] + 1 /\ new.message.chat = chat /\ new.says = says
      /\ new.message.id \in Nat
  BY <1>2
<1>4. new.message \in Talk!Messages
  <2>1. sent'[chat] \in 1 .. MaxId
    BY <1>1, <1>2, ConversationAssumption
       DEF Talk!Send, TalkInv, TelegramTyped, Talk!BoundsAssumption
  <2> QED BY <2>1 DEF Talk!Messages
<1>5. given[new.message].nr = 0
  BY <1>2, <1>3, <1>4 DEF AnsweredOK, QueueOK
<1>6. /\ DOMAIN queue' = 1 .. Len(queue) + 1 /\ queue'[Len(queue) + 1] = new
      /\ \A k \in DOMAIN queue : queue'[k] = queue[k] /\ queue[k].message.id \in Nat
                                 /\ queue[k].message.chat \in Chats
  <2>1. queue \in Seq(Talk!Updates) /\ new \in Talk!Updates
    BY <1>4 DEF TalkInv, TelegramTyped, Talk!Updates
  <2> HIDE DEF new
  <2> QED BY <1>1, <2>1, WaitingIs DEF Talk!Messages
<1> HIDE DEF new
<1>7. QueueOK'
  <2>1. ASSUME NEW k \in DOMAIN queue' PROVE queue'[k].message.id <= sent'[queue'[k].message.chat]
    <3>1. CASE k = Len(queue) + 1
      BY <1>2, <1>3, <1>6, <3>1
    <3>2. CASE k # Len(queue) + 1
      <4>1. k \in DOMAIN queue /\ queue'[k] = queue[k]
        BY <1>6, <3>2, WaitingIs
      <4>2. queue[k].message.id <= sent[queue[k].message.chat]
        BY <4>1 DEF AnsweredOK, QueueOK
      <4>3. /\ queue[k].message.id \in Nat /\ queue[k].message.chat \in Chats
            /\ sent[queue[k].message.chat] \in Nat
        BY <1>2, <1>6, <4>1
      <4>4. sent'[queue[k].message.chat] \in Nat
        BY <1>1, <4>3 DEF TalkInv, TelegramTyped
      <4> QED BY <1>2, <4>1, <4>2, <4>3, <4>4
    <3> QED BY <3>1, <3>2
  <2>2. ASSUME NEW j \in DOMAIN queue', NEW k \in DOMAIN queue', j < k
        PROVE  queue'[j].message # queue'[k].message
    <3>1. j \in DOMAIN queue /\ queue'[j] = queue[j]
      BY <1>6, <2>2, WaitingIs
    <3>2. CASE k = Len(queue) + 1
      <4>1. queue[j].message.id <= sent[queue[j].message.chat]
        BY <3>1 DEF AnsweredOK, QueueOK
      <4>2. queue[j].message.id \in Nat /\ sent[queue[j].message.chat] \in Nat
        BY <1>2, <1>6, <3>1
      <4>3. queue[j].message # new.message
        BY <1>2, <1>3, <4>1, <4>2
      <4> QED BY <1>6, <3>1, <3>2, <4>3
    <3>3. CASE k # Len(queue) + 1
      <4>1. k \in DOMAIN queue /\ queue'[k] = queue[k]
        BY <1>6, <3>3, WaitingIs
      <4> QED BY <2>2, <3>1, <4>1 DEF AnsweredOK, QueueOK
    <3> QED BY <3>2, <3>3
  <2>3. ASSUME NEW k \in DOMAIN queue', k > 1 PROVE given'[queue'[k].message].nr = 0
    <3>1. CASE k = Len(queue) + 1
      BY <1>1, <1>5, <1>6, <3>1
    <3>2. CASE k # Len(queue) + 1
      <4>1. k \in DOMAIN queue /\ queue'[k] = queue[k]
        BY <1>6, <3>2, WaitingIs
      <4> QED BY <1>1, <2>3, <4>1 DEF AnsweredOK, QueueOK
    <3> QED BY <3>1, <3>2
  <2>4. ASSUME NEW m \in Talk!Messages, m.id > sent'[m.chat] PROVE given'[m].nr = 0
    <3>1. m.chat \in Chats /\ m.id \in Nat
      BY DEF Talk!Messages
    <3>2. sent'[m.chat] \in Nat
      BY <1>1, <1>2, <3>1 DEF TalkInv, TelegramTyped
    <3>3. m.id > sent[m.chat]
      BY <1>2, <2>4, <3>1, <3>2
    <3> QED BY <1>1, <3>3 DEF AnsweredOK, QueueOK
  <2> QED BY <2>1, <2>2, <2>3, <2>4 DEF QueueOK
<1>8. HeadOK'
  <2>1. CASE queue = << >>
    <3>1. Head(queue') = new
      BY <1>1, <2>1
    <3>2. given'[Head(queue').message].nr = 0
      BY <1>1, <1>5, <3>1
    <3> QED BY <3>2 DEF HeadOK, AnsweredLately
  <2>2. CASE queue # << >>
    <3>1. Head(queue') = Head(queue)
      BY <1>1, <2>2 DEF TalkInv, TelegramTyped
    <3> QED BY <1>1, <2>2, <3>1 DEF AnsweredOK, HeadOK, AnsweredLately, FirstTurn
  <2> QED BY <2>1, <2>2
<1> QED BY <1>1, <1>7, <1>8 DEF AnsweredStepOK, AnsweredOK, TurnsOK, Talk!OwnAnswer, RetryOK

\* A message that is answered leaves the queue, or stays its head.
LEMMA DeliverAnswered ==
    ASSUME OneChat, TalkInv, AnsweredOK, Talk!Process, queue' = Tail(queue) \/ queue' = queue
    PROVE  AnsweredStepOK
<1>1. PICK message : message = Head(queue).message
  OBVIOUS
<1>2. PICK says : says = Head(queue).says
  OBVIOUS
<1>3. /\ AnswerOK(message, says) /\ HandledOK(message) /\ sent' = sent /\ clock' = clock
      /\ message \in Talk!Messages
  BY <1>1, <1>2, HandleAnswers, ProcessShows DEF Talk!Updates
<1>4. /\ queue # << >> /\ queue \in Seq(Talk!Updates) /\ Len(queue) \in Nat /\ Len(queue) > 0
      /\ DOMAIN queue = 1 .. Len(queue) /\ Head(queue) = queue[1]
  BY DEF Talk!Process, TalkInv, TelegramTyped
<1>5. \A k \in DOMAIN queue : k > 1 =>
          /\ queue[k].message \in Talk!Messages /\ queue[k].message # message
          /\ given'[queue[k].message].nr = 0
  <2> SUFFICES ASSUME NEW k \in DOMAIN queue, k > 1
               PROVE  /\ queue[k].message \in Talk!Messages /\ queue[k].message # message
                      /\ given'[queue[k].message].nr = 0
    OBVIOUS
  <2>1. 1 \in DOMAIN queue /\ queue[1].message # queue[k].message
    BY <1>4 DEF AnsweredOK, QueueOK
  <2>2. queue[k].message \in Talk!Messages /\ given[queue[k].message].nr = 0
    BY WaitingIs DEF AnsweredOK, QueueOK
  <2> QED BY <1>1, <1>3, <1>4, <2>1, <2>2 DEF AnswerOK
<1>6. \A m \in Talk!Messages : m.id > sent'[m.chat] => given'[m].nr = 0
  <2> SUFFICES ASSUME NEW m \in Talk!Messages, m.id > sent[m.chat] PROVE given'[m].nr = 0
    BY <1>3
  <2>1. given[m].nr = 0
    BY DEF AnsweredOK, QueueOK
  <2>2. 1 \in DOMAIN queue /\ queue[1].message.id <= sent[queue[1].message.chat]
    BY <1>4 DEF AnsweredOK, QueueOK
  <2>3. message.id <= sent[message.chat]
    BY <1>1, <1>4, <2>2
  <2>4. /\ m.id \in Nat /\ sent[m.chat] \in Nat /\ message.id \in Nat
    BY <1>3 DEF Talk!Messages, TalkInv, TelegramTyped
  <2>5. m # message
    BY <2>3, <2>4
  <2> QED BY <1>3, <2>1, <2>5 DEF AnswerOK
<1>7. CASE queue' = queue
  <2>1. QueueOK'
    BY <1>3, <1>5, <1>6, <1>7 DEF AnsweredOK, QueueOK
  <2>2. HeadOK'
    BY <1>1, <1>2, <1>3, <1>7 DEF HeadOK, AnswerOK, AnsweredLately, FirstTurn
  <2> QED BY <1>1, <1>3, <2>1, <2>2 DEF AnsweredStepOK, AnsweredOK, AnswerOK, HandledOK, RetryOK, AnsweredLately
<1>8. CASE queue' = Tail(queue)
  <2>1. /\ DOMAIN queue' = 1 .. Len(queue) - 1
        /\ \A k \in DOMAIN queue' : queue'[k] = queue[k + 1] /\ k + 1 \in DOMAIN queue /\ k + 1 > 1
    BY <1>4, <1>8
  <2>2. QueueOK'
    <3>1. ASSUME NEW j \in DOMAIN queue', NEW k \in DOMAIN queue', j < k
          PROVE  queue'[j].message # queue'[k].message
      <4>1. j + 1 < k + 1
        BY <2>1, <3>1
      <4> QED BY <2>1, <4>1 DEF AnsweredOK, QueueOK
    <3>2. \A k \in DOMAIN queue' : queue'[k].message.id <= sent'[queue'[k].message.chat]
      BY <1>3, <2>1 DEF AnsweredOK, QueueOK
    <3>3. \A k \in DOMAIN queue' : given'[queue'[k].message].nr = 0
      BY <1>5, <2>1
    <3> QED BY <1>6, <3>1, <3>2, <3>3 DEF QueueOK
  <2>3. HeadOK'
    <3>1. ASSUME queue' # << >> PROVE given'[Head(queue').message].nr = 0
      <4>1. queue' \in Seq(Talk!Updates)
        BY <1>4, <1>8
      <4>2. 1 \in DOMAIN queue' /\ Head(queue') = queue'[1]
        BY <3>1, <4>1
      <4> QED BY <1>5, <2>1, <4>2
    <3> QED BY <3>1 DEF HeadOK, AnsweredLately
  <2> QED BY <1>1, <1>3, <2>2, <2>3 DEF AnsweredStepOK, AnsweredOK, AnswerOK, HandledOK, RetryOK, AnsweredLately
<1> QED BY <1>7, <1>8

LEMMA AnsweredStep ==
    ASSUME OneChat, TalkInv, AnsweredOK, [Talk!Next]_Talk!vars PROVE AnsweredStepOK
<1>1. CASE UNCHANGED Talk!vars
  BY <1>1 DEF Talk!vars, AnsweredStepOK, AnsweredOK, QueueOK, TurnsOK, HeadOK, Talk!OwnAnswer,
              AnsweredLately, FirstTurn, RetryOK
<1>2. CASE \E chat \in Chats, says \in Talk!Kinds : Talk!Send(chat, says)
  BY <1>2, SendAnswered
<1>3. CASE Talk!Deliver \/ Talk!DeliverUnanswered
  BY <1>3, DeliverAnswered DEF Talk!Deliver, Talk!DeliverUnanswered
<1>4. CASE Talk!Tick
  <2>1. /\ UNCHANGED <<turns, calls, session, answer, sent, queue, given>>
        /\ clock' = clock + 1 /\ clock \in Nat
    BY <1>4 DEF Talk!Tick, Talk!store, Talk!telegram, TalkInv, StoreInv, HistoryOK
  <2>2. \A m \in Talk!Messages : AnsweredLately(m)' => AnsweredLately(m)
    BY <2>1, ConversationAssumption
       DEF AnsweredLately, TalkInv, TelegramTyped, Talk!SettingsAssumption
  <2>3. HeadOK'
    <3>1. queue # << >> => Head(queue).message \in Talk!Messages
      <4>1. ASSUME queue # << >> PROVE Head(queue) = queue[1] /\ 1 \in DOMAIN queue
        BY <4>1 DEF TalkInv, TelegramTyped
      <4> QED BY <4>1, WaitingIs
    <3>2. PICK message : message = Head(queue).message
      OBVIOUS
    <3>3. queue # << >> /\ AnsweredLately(message)' => FirstTurn(message)
      BY <2>2, <3>1, <3>2 DEF AnsweredOK, HeadOK
    <3>4. FirstTurn(message) => FirstTurn(message)'
      BY <2>1 DEF FirstTurn
    <3> QED BY <2>1, <3>2, <3>3, <3>4 DEF AnsweredOK, HeadOK, AnsweredLately, FirstTurn
  <2> QED BY <2>1, <2>3 DEF AnsweredStepOK, AnsweredOK, QueueOK, TurnsOK, Talk!OwnAnswer, RetryOK
<1> QED BY <1>1, <1>2, <1>3, <1>4 DEF Talk!Next

\* In one chat, a message is answered with an answer to it, and one that is posted again
\* within the time to live with the answer it got first, for any history length, however
\* many answers are lost and whatever else is sent, cleared or guarded in between
\* (get_conversation_turn_by_source); with two chats it is not (conversation_replay).
THEOREM AnsweredAlike ==
    ASSUME OneChat
    PROVE  Talk!Spec => RetriedAlike
<1>1. TalkInv /\ AnsweredOK => Talk!OwnAnswer
  BY DEF AnsweredOK
<1>2. Talk!Init => TalkInv /\ AnsweredOK
  BY TalkStart, AnsweredStart
<1>3. ASSUME TalkInv, AnsweredOK, [Talk!Next]_Talk!vars PROVE (TalkInv /\ AnsweredOK)'
  BY <1>3, TalkStep, AnsweredStep DEF TalkStepOK, AnsweredStepOK
<1>4. ASSUME TalkInv, AnsweredOK, [Talk!Next]_Talk!vars
      PROVE  [\A message \in Talk!Messages :
                 /\ answer' # answer /\ answer'.to = message
                 /\ answer'.kind \in {"model", "replay"}
                 /\ given[message].nr # 0 /\ clock - given[message].at <= TTL
                 => answer'.answer.nr = given[message].nr]_Talk!vars
  BY <1>4, AnsweredStep DEF AnsweredStepOK, RetryOK
<1> QED BY <1>1, <1>2, <1>3, <1>4, PTL DEF Talk!Spec, RetriedAlike, Talk!RetriedAlike

-----------------------------------------------------------------------------
\* The same in the run of the three loops, whichever of them moves.
THEOREM ConversationAmongLoops ==
    ASSUME OneChat
    PROVE  MCSpec => PromptIsSession /\ RetriedAlike
<1>1. MCInit => Talk!Init
  BY DEF MCInit
<1>2. ASSUME [MCNext]_mcVars PROVE [Talk!Next]_Talk!vars
  BY <1>2 DEF MCNext, mcVars, talkVars, Talk!vars, FromAnywhere, FromUser, TalkMoves, PollingMoves,
              OnlyMemory, OnlyTalk, OnlyPolling
<1>3. MCSpec => Talk!Spec
  BY <1>1, <1>2, PTL DEF MCSpec, Talk!Spec
<1>4. Talk!Spec => RetriedAlike
  BY AnsweredAlike
<1> QED BY <1>3, <1>4, PromptIsRecent, PTL
=============================================================================
