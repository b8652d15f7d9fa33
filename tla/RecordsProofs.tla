---------------------------- MODULE RecordsProofs ----------------------------
(***************************************************************************)
(* What holds of the records the robot keeps and of the commands that show *)
(* them, for any number of owners, texts, records and receipts.  The six   *)
(* components share no state (see MCRecords), so each has its own          *)
(* inductive invariant and its theorem is about its own specification.     *)
(***************************************************************************)
EXTENDS MCRecords, WellFoundedInduction, FiniteSetTheorems, TLAPS

-----------------------------------------------------------------------------
(* Numbers *)

Below == {p \in Nat \X Nat : p[1] < p[2]}

LEMMA BelowIsWellFounded == IsWellFoundedOn(Below, Nat)
<1>1. OpToRel(<, Nat) = Below
  BY Zenon DEF OpToRel, Below
<1> QED BY <1>1, NatLessThanWellFounded, Zenon

\* Every set of numbers that is not empty has a least one ...
LEMMA Least ==
    ASSUME NEW T, T \subseteq Nat, T # {}
    PROVE  \E x \in T : \A y \in T : x <= y
<1>1. PICK x \in T : \A y \in T : ~ (<<y, x>> \in Below)
  BY WFMin, BelowIsWellFounded, Zenon
<1>2. ASSUME NEW y \in T PROVE x <= y
  <2>1. x \in Nat /\ y \in Nat /\ <<y, x>> \notin Below
    BY <1>1
  <2> QED BY <2>1 DEF Below
<1> QED BY <1>2

\* ... and, if it has a bound, a greatest.
LEMMA Greatest ==
    ASSUME NEW n \in Nat, NEW T, T \subseteq 0 .. n, T # {}
    PROVE  \E x \in T : \A y \in T : y <= x
<1> DEFINE Under == {n - y : y \in T}
<1>1. Under \subseteq Nat /\ Under # {}
  <2>1. ASSUME NEW y \in T PROVE n - y \in Nat
    <3>1. y \in 0 .. n
      OBVIOUS
    <3> QED BY <3>1
  <2> QED BY <2>1
<1>2. PICK u \in Under : \A v \in Under : u <= v
  <2> HIDE DEF Under
  <2> QED BY <1>1, Least
<1>3. PICK x \in T : u = n - x
  OBVIOUS
<1>4. ASSUME NEW y \in T PROVE y <= x
  <2>1. n - y \in Under
    OBVIOUS
  <2>2. u <= n - y
    BY <1>2, <2>1
  <2>3. x \in 0 .. n /\ y \in 0 .. n
    OBVIOUS
  <2> QED BY <1>3, <2>2, <2>3
<1> QED BY <1>4

-----------------------------------------------------------------------------
(* Sequences that grow *)

IsSequence(s) == s \in Seq(Range(s))

\* What is appended comes after what was there.
LEMMA Appended ==
    ASSUME NEW s, IsSequence(s), NEW x
    PROVE  /\ IsSequence(Append(s, x))
           /\ Len(s) \in Nat /\ DOMAIN s = 1 .. Len(s)
           /\ DOMAIN Append(s, x) = 1 .. Len(s) + 1
           /\ Append(s, x)[Len(s) + 1] = x
           /\ \A k \in DOMAIN s : Append(s, x)[k] = s[k]
<1> DEFINE T == Range(s) \cup {x}
           a == Append(s, x)
<1>1. s \in Seq(T)
  <2>1. \A S1, S2 : S1 \subseteq S2 => Seq(S1) \subseteq Seq(S2)
    OBVIOUS
  <2>2. Range(s) \subseteq T
    OBVIOUS
  <2> QED BY <2>1, <2>2 DEF IsSequence
<1>2. x \in T
  OBVIOUS
<1> HIDE DEF T
<1>3. /\ a \in Seq(T) /\ Len(s) \in Nat /\ DOMAIN s = 1 .. Len(s) /\ Len(a) = Len(s) + 1
      /\ a[Len(s) + 1] = x /\ \A k \in 1 .. Len(s) : a[k] = s[k]
  BY <1>1, <1>2
<1> HIDE DEF a
<1>4. DOMAIN a = 1 .. Len(s) + 1
  BY <1>3
<1>5. a \in Seq(Range(a))
  <2>1. a \in [1 .. Len(a) -> Range(a)] /\ Len(a) \in Nat
    BY <1>3 DEF Range
  <2> QED BY <2>1
<1> QED BY <1>3, <1>4, <1>5 DEF IsSequence, a

-----------------------------------------------------------------------------
(* One command of the robot *)

Hows == {"none", "private", "raised", "usage", "built", "cached", "unknown"}

\* The bounds and the time; an answer that was sent before anything was loaded says nothing.
CommandTypes ==
    /\ owners \subseteq Users /\ clock \in 0 .. MaxClock
    /\ changed \subseteq 0 .. clock /\ 0 \in changed
    /\ last.to \in Users \cup {"nobody"} /\ last.how \in Hows
    /\ last.shows \in Nat /\ last.at \in Nat /\ last.shows <= last.at /\ last.at <= clock

\* What a saved reply leaves out began no earlier than it was made.
SavedOK ==
    \A e \in entries :
        /\ e.robot \in Robots /\ e.command \in Cacheable
        /\ e.shows \in Nat /\ e.at \in Nat /\ e.shows <= e.at /\ e.at <= clock
        /\ \A t \in changed : e.shows < t => e.at <= t

\* A reply just built leaves out nothing that began before it; so what is saved of it
\* does not either.
LastOK ==
    /\ last.how \in {"built", "cached"} => last.robot = ThisRobot
    /\ last.how = "built" => \A t \in changed : last.shows < t => last.at <= t
    /\ last.how = "cached" =>
           \A t \in changed : last.shows < t /\ t <= last.at => last.at - t <= Ttl

CommandInv == CommandTypes /\ SavedOK /\ LastOK /\ WithinTheCommand

LEMMA CommandInvOwnAndRecent == CommandInv => OwnAndRecent /\ CommandTypeOK
<1> SUFFICES ASSUME CommandInv PROVE OwnAndRecent /\ CommandTypeOK
  OBVIOUS
<1> USE DEF CommandInv, CommandTypes
<1>1. CommandTypeOK
  BY DEF CommandTypeOK, SavedOK, Hows
<1>2. ASSUME last.how \in {"built", "cached"}
      PROVE  /\ last.robot = ThisRobot
             /\ \A t \in changed : last.shows < t /\ t <= last.at => last.at - t <= Ttl
  <2>1. ASSUME NEW t \in changed, last.shows < t, t <= last.at PROVE last.at - t <= Ttl
    <3>1. t \in Nat /\ Ttl \in Nat
      BY CommandsAssumption
    <3>2. CASE last.how = "built"
      BY <2>1, <3>1, <3>2 DEF LastOK
    <3>3. CASE last.how = "cached"
      BY <2>1, <3>3 DEF LastOK
    <3> QED BY <1>2, <3>2, <3>3
  <2> QED BY <1>2, <2>1 DEF LastOK
<1> QED BY <1>1, <1>2 DEF OwnAndRecent

LEMMA CommandStart == CommandInit => CommandInv
BY CommandsAssumption DEF CommandInit, CommandInv, CommandTypes, SavedOK, LastOK, WithinTheCommand,
   Nothing, Hows

-----------------------------------------------------------------------------
\* What holds now began when something last changed.
LEMMA CurrentIsLast ==
    ASSUME CommandTypes
    PROVE  Current \in changed /\ \A t \in changed : t <= Current
<1>1. clock \in Nat /\ changed # {} /\ changed \subseteq 0 .. clock
  BY CommandsAssumption DEF CommandTypes
<1>2. \E x \in changed : \A y \in changed : y <= x
  BY <1>1, Greatest
<1> QED BY <1>2 DEF Current

\* Among the saved replies that are found there is a newest.
LEMMA NewestIsFound ==
    ASSUME CommandTypes, SavedOK, NEW command, Hits(command) # {}
    PROVE  Newest(Hits(command)) \in Hits(command)
<1> DEFINE When == {e.at : e \in Hits(command)}
<1>1. clock \in Nat /\ When \subseteq 0 .. clock /\ When # {}
  BY CommandsAssumption DEF CommandTypes, SavedOK, Hits
<1>2. PICK w \in When : \A y \in When : y <= w
  <2> HIDE DEF When
  <2> QED BY <1>1, Greatest
<1>3. PICK e \in Hits(command) : w = e.at
  OBVIOUS
<1>4. \A other \in Hits(command) : other.at <= e.at
  BY <1>2, <1>3
<1> QED BY <1>4 DEF Newest

\* No command but those that show the calendar reads it, and none but an approved
\* export makes a draft.
ItsOwn(touched, command, argument) ==
    /\ "calendar" \in touched =>
           command \in {"/brief", "/suggest_brief", "/today", "/daily_brief",
                        "/loops", "/inbox", "/prep"}
    /\ "gmail_draft" \in touched => command = "/export_email" /\ argument = "approved"

LEMMA TouchesItsOwn ==
    ASSUME NEW command, NEW argument, NEW hit
    PROVE  ItsOwn(Touches(command, argument, hit), command, argument)
<1>1. /\ "calendar" \in DayTouches(command, hit) =>
             command \in {"/brief", "/suggest_brief", "/today", "/daily_brief"}
      /\ "gmail_draft" \notin DayTouches(command, hit)
  BY DEF DayTouches
<1>2. /\ "calendar" \in InboxTouches(command, argument) => command \in {"/loops", "/inbox"}
      /\ "gmail_draft" \notin InboxTouches(command, argument)
  BY DEF InboxTouches
<1>3. /\ "calendar" \in PrepTouches(command) => command = "/prep"
      /\ "gmail_draft" \notin PrepTouches(command)
  BY DEF PrepTouches
<1>4. /\ "calendar" \notin ExportTouches(command, argument)
      /\ "gmail_draft" \in ExportTouches(command, argument) =>
             command = "/export_email" /\ argument = "approved"
  BY DEF ExportTouches
<1> QED BY <1>1, <1>2, <1>3, <1>4 DEF Touches, ItsOwn

-----------------------------------------------------------------------------
LEMMA LoadKeeps ==
    ASSUME CommandInv, NEW allowed \in SUBSET Users, Load(allowed) PROVE CommandInv'
BY DEF Load, CommandInv, CommandTypes, SavedOK, LastOK, WithinTheCommand

LEMMA TickKeeps == ASSUME CommandInv, Tick PROVE CommandInv'
<1>1. CommandTypes' /\ SavedOK'
  BY CommandsAssumption DEF Tick, CommandInv, CommandTypes, SavedOK
<1>2. LastOK' /\ WithinTheCommand'
  BY DEF Tick, CommandInv, LastOK, WithinTheCommand
<1> QED BY <1>1, <1>2 DEF CommandInv

\* What begins now began no earlier than any reply was made.
LEMMA ChangeKeeps == ASSUME CommandInv, Change PROVE CommandInv'
<1> USE CommandsAssumption DEF Change, CommandInv
<1>0. clock \in Nat /\ Ttl \in Nat /\ last.at \in Nat /\ last.at <= clock
  BY DEF CommandTypes
<1>1. CommandTypes'
  BY DEF CommandTypes
<1>2. SavedOK'
  BY DEF SavedOK
<1>3. LastOK'
  BY <1>0 DEF LastOK
<1>4. WithinTheCommand'
  BY DEF WithinTheCommand
<1> QED BY <1>1, <1>2, <1>3, <1>4

LEMMA RefuseKeeps ==
    ASSUME CommandInv, NEW user \in Users, NEW text, Refuse(user, text) PROVE CommandInv'
<1> USE CommandsAssumption DEF Refuse, CommandInv
<1>1. /\ last'.to = user /\ last'.how = "private" /\ last'.at = clock /\ last'.shows = 0
      /\ last'.touched = {} /\ user \notin owners
  BY DEF Nothing, IsOwner
<1>2. CommandTypes'
  BY <1>1 DEF CommandTypes, Hows
<1>3. SavedOK' /\ LastOK'
  BY <1>1 DEF SavedOK, LastOK
<1>4. WithinTheCommand'
  BY <1>1 DEF WithinTheCommand
<1> QED BY <1>2, <1>3, <1>4

LEMMA HandleKeeps ==
    ASSUME CommandInv, NEW user \in Users, NEW text, Handle(user, text) PROVE CommandInv'
<1> USE CommandsAssumption DEF Handle, CommandInv
<1>1. /\ last'.to = user /\ last'.how = Reply(Command(text), Argument(text)) /\ last'.at = clock
      /\ last'.shows = Current /\ last'.robot = ThisRobot
      /\ last'.command = Command(text) /\ last'.argument = Argument(text)
      /\ last'.touched = Touches(Command(text), Argument(text), FALSE) /\ user \in owners
      /\ UNCHANGED <<owners, clock, changed, entries>>
  BY DEF Nothing, IsOwner
<1>2. last'.how \in {"usage", "built", "unknown"}
  BY <1>1 DEF Reply
<1>3. Current \in changed /\ \A t \in changed : t <= Current
  BY CurrentIsLast
<1> HIDE DEF Handle
<1>4. CommandTypes'
  BY <1>1, <1>2, <1>3 DEF CommandTypes, Hows
<1>5. SavedOK'
  BY <1>1 DEF SavedOK
<1>6. LastOK'
  <2>1. ASSUME NEW t \in changed PROVE ~(Current < t)
    BY <1>3, <2>1 DEF CommandTypes
  <2> QED BY <1>1, <1>2, <2>1 DEF LastOK
<1>7. WithinTheCommand'
  <2>1. ItsOwn(Touches(Command(text), Argument(text), FALSE), Command(text), Argument(text))
    BY TouchesItsOwn
  <2> QED BY <1>1, <2>1 DEF WithinTheCommand, ItsOwn
<1> QED BY <1>4, <1>5, <1>6, <1>7

\* A saved reply is no older than the time to live, and what it leaves out is younger.
LEMMA CachedKeeps ==
    ASSUME CommandInv, NEW user \in Users, NEW text, HandleFromCache(user, text) PROVE CommandInv'
<1> DEFINE entry == Newest(Hits(Command(text)))
<1> USE CommandsAssumption DEF HandleFromCache, CommandInv
<1>1. entry \in Hits(Command(text))
  BY NewestIsFound
<1>2. entry \in entries /\ entry.robot = ThisRobot /\ entry.command = Command(text) /\ Fresh(entry)
  BY <1>1 DEF Hits
<1>3. /\ last'.to = user /\ last'.how = "cached" /\ last'.at = clock
      /\ last'.shows = entry.shows /\ last'.robot = entry.robot
      /\ last'.command = entry.command /\ last'.argument = "none"
      /\ last'.touched = Touches(Command(text), Argument(text), TRUE) /\ user \in owners
      /\ UNCHANGED <<owners, clock, changed, entries>>
  BY DEF Nothing, IsOwner
<1> HIDE DEF entry, HandleFromCache
<1>4. /\ entry.command \in Cacheable /\ entry.shows \in Nat /\ entry.at \in Nat
      /\ entry.shows <= entry.at /\ entry.at <= clock
      /\ \A t \in changed : entry.shows < t => entry.at <= t
  BY <1>2 DEF SavedOK
<1>5. CommandTypes'
  BY <1>3, <1>4 DEF CommandTypes, Hows
<1>6. SavedOK'
  BY <1>3 DEF SavedOK
<1>7. LastOK'
  <2>1. ASSUME NEW t \in changed, entry.shows < t, t <= clock PROVE clock - t <= Ttl
    <3>1. entry.at <= t /\ t \in Nat /\ clock \in Nat /\ Ttl \in Nat
      BY <1>4, <2>1 DEF CommandTypes
    <3>2. Age(entry) <= Ttl
      BY <1>2 DEF Fresh
    <3> QED BY <1>4, <2>1, <3>1, <3>2 DEF Age
  <2> QED BY <1>2, <1>3, <2>1 DEF LastOK
<1>8. WithinTheCommand'
  <2>1. Command(text) # "/export_email"
    BY <1>2, <1>4 DEF Cacheable
  <2>2. ItsOwn(Touches(Command(text), Argument(text), TRUE), Command(text), Argument(text))
    BY TouchesItsOwn
  <2> QED BY <1>2, <1>3, <2>1, <2>2 DEF WithinTheCommand, ItsOwn
<1> QED BY <1>5, <1>6, <1>7, <1>8

LEMMA RaisingKeeps ==
    ASSUME CommandInv, NEW user \in Users, NEW text, HandleRaising(user, text) PROVE CommandInv'
<1> USE CommandsAssumption DEF HandleRaising, CommandInv
<1>1. /\ last'.to = "nobody" /\ last'.how = "raised" /\ last'.at = clock /\ last'.shows = 0
      /\ last'.touched = {}
  BY DEF Nothing
<1>2. CommandTypes'
  BY <1>1 DEF CommandTypes, Hows
<1>3. SavedOK' /\ LastOK'
  BY <1>1 DEF SavedOK, LastOK
<1>4. WithinTheCommand'
  BY <1>1 DEF WithinTheCommand
<1> QED BY <1>2, <1>3, <1>4

LEMMA SaveKeeps ==
    ASSUME CommandInv, NEW robot \in Robots, NEW command, Save(robot, command) PROVE CommandInv'
<1> DEFINE at    == IF robot = ThisRobot THEN last.at ELSE clock
           shows == IF robot = ThisRobot THEN last.shows ELSE clock
           saved == [robot |-> robot, command |-> command, at |-> at, shows |-> shows]
<1> USE CommandsAssumption DEF CommandInv
<1>1. /\ command \in Cacheable /\ entries' = entries \cup {saved}
      /\ robot = ThisRobot => last.how = "built"
      /\ UNCHANGED <<owners, clock, changed, last>>
  BY DEF Save
<1>2. saved.robot = robot /\ saved.command = command /\ saved.at = at /\ saved.shows = shows
  OBVIOUS
<1>3. /\ shows \in Nat /\ at \in Nat /\ shows <= at /\ at <= clock
      /\ \A t \in changed : shows < t => at <= t
  <2>1. CASE robot = ThisRobot
    BY <1>1, <2>1 DEF CommandTypes, LastOK
  <2>2. CASE robot # ThisRobot
    BY <2>2 DEF CommandTypes
  <2> QED BY <2>1, <2>2
<1> HIDE DEF at, shows, saved
<1>4. SavedOK'
  BY <1>1, <1>2, <1>3 DEF SavedOK
<1>5. CommandTypes' /\ LastOK' /\ WithinTheCommand'
  BY <1>1 DEF CommandTypes, LastOK, WithinTheCommand
<1> QED BY <1>4, <1>5

LEMMA CommandStep == ASSUME CommandInv, [CommandNext]_commandVars PROVE CommandInv'
<1>1. CASE UNCHANGED commandVars
  BY <1>1 DEF commandVars, CommandInv, CommandTypes, SavedOK, LastOK, WithinTheCommand
<1>2. CASE CommandNext
  BY <1>2, LoadKeeps, TickKeeps, ChangeKeeps, RefuseKeeps, HandleKeeps, CachedKeeps,
     RaisingKeeps, SaveKeeps DEF CommandNext
<1> QED BY <1>1, <1>2

\* Nobody but an owner makes the robot do anything, a command touches no more than its
\* own, and no reply is of another robot or out of date for longer than a saved one
\* may live, for any number of users, texts, robots and replies saved
\* (handle_incoming_command and find_fast_path_cache_entry).
THEOREM AnswersOwnAndRecent == CommandSpec => []OwnAndRecent
<1>1. CommandSpec => []CommandInv
  BY CommandStart, CommandStep, PTL DEF CommandSpec
<1> QED BY <1>1, CommandInvOwnAndRecent, PTL

\* Its time goes forward, and a saved reply shows what was there when it was built.
THEOREM CommandsTyped == CommandSpec => []CommandTypeOK
<1>1. CommandSpec => []CommandInv
  BY CommandStart, CommandStep, PTL DEF CommandSpec
<1> QED BY <1>1, CommandInvOwnAndRecent, PTL

-----------------------------------------------------------------------------
(* The daily brief *)

ScopeOf(kept, w) == {r \in kept : InWindow(r, w) /\ r.stage # "103P"}

Earlier(r, stage) ==
    \E q \in records : q.stage = stage /\ q.subject = r.subject /\ q.made <= r.made

\* A decision about a proposal came after it, and a memory after the decision.
RecordsOK ==
    /\ \A r \in records :
           /\ r.made \in 0 .. today /\ r.subject \in Subjects
           /\ [stage |-> r.stage, status |-> r.status] \in Entries
           /\ r.stage = "116P" => Earlier(r, "115P")
           /\ r.stage = "117P" => Earlier(r, "116P")
    /\ \A r, q \in records : r.stage = q.stage /\ r.subject = q.subject => r = q

BriefOK(brief, w) ==
    /\ brief.from \subseteq records
    /\ brief.items = Items(ScopeOf(brief.from, w))
    /\ brief.attention = Attention(brief.items) /\ brief.none = NoUpdates(brief.items)
    /\ w.from < w.to /\ brief.made \in 0 .. today

BriefInv ==
    /\ today \in 0 .. MaxTime
    /\ RecordsOK
    /\ DOMAIN briefs = Windows
    /\ \A w \in Windows : briefs[w] # NotMade => BriefOK(briefs[w], w)

-----------------------------------------------------------------------------
\* An item is of a record of the scope, in a place this has there.
LEMMA ItemOf ==
    ASSUME NEW scope, NEW i \in Items(scope)
    PROVE  /\ i.of \in scope
           /\ \E p \in Places(i.of, scope) : i.section = p.section
<1>1. PICK r \in scope : i \in {[section |-> p.section, severity |-> p.severity, of |-> r] :
                                   p \in Places(r, scope)}
  BY DEF Items
<1>2. PICK p \in Places(r, scope) : i = [section |-> p.section, severity |-> p.severity, of |-> r]
  BY <1>1
<1> QED BY <1>2

\* ... and a record that has a place there has an item.
LEMMA PlacedIsShown ==
    ASSUME NEW scope, NEW r \in scope, Places(r, scope) # {}
    PROVE  \E i \in Items(scope) : i.of = r
<1>1. PICK p \in Places(r, scope) : TRUE
  OBVIOUS
<1> DEFINE i == [section |-> p.section, severity |-> p.severity, of |-> r]
<1>2. i \in Items(scope)
  BY <1>1 DEF Items
<1>3. i.of = r
  OBVIOUS
<1> QED BY <1>2, <1>3

\* Of the stages a contradiction could come from, each has the places of its own part.
LEMMA PlacesByStage ==
    ASSUME NEW r, NEW scope
    PROVE  /\ r.stage \in {"105P", "106P"} => Places(r, scope) = Results(r, scope)
           /\ r.stage \in {"115P", "116P"} => Places(r, scope) = Proposals(r, scope)
           /\ r.stage = "117P" => Places(r, scope) = Memories(r)
<1> USE DEF Places, Results, Plans, UserChoices, Proposals, Memories, Opportunities, Delegations
<1>1. ASSUME r.stage \in {"105P", "106P"} PROVE Places(r, scope) = Results(r, scope)
  BY <1>1
<1>2. ASSUME r.stage \in {"115P", "116P"} PROVE Places(r, scope) = Proposals(r, scope)
  BY <1>2
<1>3. ASSUME r.stage = "117P" PROVE Places(r, scope) = Memories(r)
  BY <1>3
<1> QED BY <1>1, <1>2, <1>3

\* Where a result, its acknowledgement, a proposal and a memory may be told.
LEMMA WhereTold ==
    ASSUME NEW r, NEW scope, NEW p \in Places(r, scope)
    PROVE  /\ r.stage = "105P" /\ p.section = "pending_results" => ~Acknowledged(scope, r.subject)
           /\ r.stage = "106P" /\ p.section = "completed_today" => r.status # "blocked"
           /\ r.stage \in {"115P", "116P"} /\ p.section = "pending_memory_reviews" =>
                  ~Written(scope, r.subject)
           /\ r.stage = "117P" /\ p.section \in {"memory_written_today", "completed_today"} =>
                  r.status \in {"written", "duplicate_existing"}
<1>1. ASSUME r.stage = "105P", p.section = "pending_results" PROVE ~Acknowledged(scope, r.subject)
  BY <1>1, PlacesByStage DEF Results, Pick, In
<1>2. ASSUME r.stage = "106P", p.section = "completed_today" PROVE r.status # "blocked"
  BY <1>2, PlacesByStage DEF Results, Pick, In
<1>3. ASSUME r.stage \in {"115P", "116P"}, p.section = "pending_memory_reviews"
      PROVE  ~Written(scope, r.subject)
  BY <1>3, PlacesByStage DEF Proposals, Pick, In
<1>4. ASSUME r.stage = "117P", p.section \in {"memory_written_today", "completed_today"}
      PROVE  r.status \in {"written", "duplicate_existing"}
  BY <1>4, PlacesByStage DEF Memories, Pick, In
<1> QED BY <1>1, <1>2, <1>3, <1>4

\* A record of these stages has a place, unless it is about a memory that is there.
LEMMA HasPlace ==
    ASSUME NEW r, NEW scope, r.stage \in Stages,
           Given([stage |-> r.stage, status |-> r.status]), r.stage \notin Undated \cup {"103P", "119P"}, ~OnlyAsked(r)
    PROVE  \/ Places(r, scope) # {}
           \/ r.stage \in {"115P", "116P"} /\ Written(scope, r.subject)
<1>1. r.stage \in {"114P", "115P", "116P", "117P", "118P", "120P", "121P", "122P", "123P"}
  BY DEF Stages, Undated
<1>2. CASE r.stage = "114P"
  <2>1. UserChoices(r) # {}
    BY <1>2 DEF UserChoices, Pick, In
  <2> QED BY <2>1 DEF Places
<1>3. CASE r.stage \in {"115P", "116P"}
  <2>1. Proposals(r, scope) # {} \/ Written(scope, r.subject)
    BY <1>3 DEF Proposals, Pick, In, Given, OnlyAsked
  <2> QED BY <1>3, <2>1 DEF Places
<1>4. CASE r.stage \in {"117P", "118P"}
  <2>1. Memories(r) # {}
    BY <1>4 DEF Memories, In
  <2> QED BY <2>1 DEF Places
<1>5. CASE r.stage = "120P"
  <2>1. Opportunities(r, scope) # {}
    BY <1>5 DEF Opportunities, Pick, In
  <2> QED BY <2>1 DEF Places
<1>6. CASE r.stage \in {"121P", "122P", "123P"}
  <2>1. Delegations(r) # {}
    BY <1>6 DEF Delegations, Pick, In
  <2> QED BY <2>1 DEF Places
<1> QED BY <1>1, <1>2, <1>3, <1>4, <1>5, <1>6

-----------------------------------------------------------------------------
\* A memory that is there was decided on, and proposed, before.
LEMMA MemoryComesLast ==
    ASSUME RecordsOK, today \in Nat, NEW r \in records, NEW q \in records, q.subject = r.subject,
           q.stage = "117P", r.stage \in {"115P", "116P"}
    PROVE  q.made >= r.made
<1>1. PICK p \in records : p.stage = "116P" /\ p.subject = q.subject /\ p.made <= q.made
  BY DEF RecordsOK, Earlier
<1>2. PICK o \in records : o.stage = "115P" /\ o.subject = p.subject /\ o.made <= p.made
  BY <1>1 DEF RecordsOK, Earlier
<1>3. r = p \/ r = o
  BY <1>1, <1>2 DEF RecordsOK
<1>4. \A x \in records : x.made \in 0 .. today
  BY DEF RecordsOK
<1>5. o.made \in Int /\ p.made \in Int /\ q.made \in Int
  BY <1>4
<1> QED BY <1>1, <1>2, <1>3, <1>5

LEMMA BriefTells ==
    ASSUME BriefInv, NEW w \in Windows, briefs[w].made >= 0
    PROVE  /\ \A s \in Subjects :
                  /\ ~(/\ Shows(briefs[w], {"106P"}, "completed_today", s)
                       /\ Shows(briefs[w], {"105P"}, "pending_results", s))
                  /\ ~(/\ \/ Shows(briefs[w], {"117P"}, "memory_written_today", s)
                          \/ Shows(briefs[w], {"117P"}, "completed_today", s)
                       /\ Shows(briefs[w], {"115P", "116P"}, "pending_memory_reviews", s))
           /\ \A r \in briefs[w].from :
                  /\ r.stage \notin Undated \cup {"103P", "119P"} /\ ~OnlyAsked(r)
                  /\ w.from <= r.made /\ r.made <= w.to
                  => (\E i \in briefs[w].items : i.of = r) \/ SettledIn(briefs[w], r)
<1> DEFINE brief == briefs[w]
           scope == ScopeOf(brief.from, w)
<1>1. brief # NotMade
  BY DEF NotMade
<1>2. BriefOK(brief, w) /\ RecordsOK
  BY <1>1 DEF BriefInv
<1>3. brief.from \subseteq records /\ brief.items = Items(scope) /\ scope \subseteq brief.from
  BY <1>2 DEF BriefOK, ScopeOf
<1> HIDE DEF brief, scope
<1>4. ASSUME NEW s \in Subjects,
             Shows(brief, {"106P"}, "completed_today", s),
             Shows(brief, {"105P"}, "pending_results", s)
      PROVE  FALSE
  <2>1. PICK i \in Items(scope) : i.of.stage = "106P" /\ i.section = "completed_today" /\ i.of.subject = s
    BY <1>3, <1>4 DEF Shows
  <2>2. PICK j \in Items(scope) : j.of.stage = "105P" /\ j.section = "pending_results" /\ j.of.subject = s
    BY <1>3, <1>4 DEF Shows
  <2>3. ~Acknowledged(scope, s)
    BY <2>2, ItemOf, WhereTold
  <2>4. i.of \in scope /\ i.of.status # "blocked"
    BY <2>1, ItemOf, WhereTold
  <2>5. i.of.status = "recorded"
    <3> DEFINE e == [stage |-> i.of.stage, status |-> i.of.status]
    <3>1. e \in Entries
      BY <1>2, <1>3, <2>4 DEF RecordsOK
    <3>2. Given(e)
      BY <3>1, BriefAssumption
    <3> QED BY <2>1, <2>4, <3>2 DEF Given
  <2> QED BY <2>1, <2>3, <2>4, <2>5 DEF Acknowledged, Told
<1>5. ASSUME NEW s \in Subjects, NEW section \in {"memory_written_today", "completed_today"},
             Shows(brief, {"117P"}, section, s),
             Shows(brief, {"115P", "116P"}, "pending_memory_reviews", s)
      PROVE  FALSE
  <2>1. PICK i \in Items(scope) : i.of.stage = "117P" /\ i.section = section /\ i.of.subject = s
    BY <1>3, <1>5 DEF Shows
  <2>2. PICK j \in Items(scope) : /\ j.of.stage \in {"115P", "116P"}
                                  /\ j.section = "pending_memory_reviews" /\ j.of.subject = s
    BY <1>3, <1>5 DEF Shows
  <2>3. ~Written(scope, s)
    BY <2>2, ItemOf, WhereTold
  <2>4. i.of \in scope /\ i.of.status \in {"written", "duplicate_existing"}
    BY <2>1, ItemOf, WhereTold
  <2> QED BY <2>1, <2>3, <2>4 DEF Written, Told
<1>6. ASSUME NEW r \in brief.from,
             r.stage \notin Undated \cup {"103P", "119P"}, ~OnlyAsked(r),
             w.from <= r.made, r.made <= w.to
      PROVE  (\E i \in brief.items : i.of = r) \/ SettledIn(brief, r)
  <2>1. r \in scope
    BY <1>6 DEF scope, ScopeOf, InWindow, CreatedAt
  <2>2. r.stage \in Stages /\ Given([stage |-> r.stage, status |-> r.status])
    <3>1. [stage |-> r.stage, status |-> r.status] \in Entries
      BY <1>2, <1>3 DEF RecordsOK
    <3>2. [stage |-> r.stage, status |-> r.status] \in [stage : Stages, status : STRING]
      BY <3>1, BriefAssumption
    <3> QED BY <3>1, <3>2, BriefAssumption
  <2>3. CASE Places(r, scope) # {}
    BY <1>3, <2>1, <2>3, PlacedIsShown
  <2>4. CASE r.stage \in {"115P", "116P"} /\ Written(scope, r.subject)
    <3>1. PICK q \in scope : /\ q.stage = "117P" /\ q.subject = r.subject
                             /\ q.status \in {"written", "duplicate_existing"}
      BY <2>4 DEF Written, Told
    <3>2. q.made >= r.made
      <4>1. today \in Nat
        BY BriefAssumption DEF BriefInv
      <4> QED BY <1>2, <1>3, <2>4, <3>1, <4>1, MemoryComesLast
    <3> QED BY <1>3, <3>1, <3>2 DEF SettledIn
  <2> QED BY <1>6, <2>2, <2>3, <2>4, HasPlace
<1> QED BY <1>4, <1>5, <1>6 DEF brief

\* What needs attention is something the brief shows, and there is none of it under a
\* headline that says there is nothing new.
LEMMA AttentionIsShown ==
    ASSUME NEW items
    PROVE  /\ Attention(items) \subseteq {i.of : i \in items}
           /\ NoUpdates(items) => Attention(items) = {}
BY DEF Attention, NoUpdates, Counted, NotForAttention

LEMMA BriefInvTypes == BriefInv => BriefTypeOK
<1> SUFFICES ASSUME BriefInv PROVE BriefTypeOK
  OBVIOUS
<1>1. /\ today \in 0 .. MaxTime
      /\ \A r \in records : r.made <= today /\ [stage |-> r.stage, status |-> r.status] \in Entries
  BY DEF BriefInv, RecordsOK
<1>2. ASSUME NEW w \in Windows
      PROVE  /\ briefs[w] # NotMade => w.from < w.to /\ briefs[w].made <= today
             /\ briefs[w].from \subseteq records
             /\ \A i \in briefs[w].items : i.of \in briefs[w].from
             /\ briefs[w].none => briefs[w].attention = {}
             /\ briefs[w].attention \subseteq {i.of : i \in briefs[w].items}
  <2>1. CASE briefs[w] = NotMade
    BY <2>1 DEF NotMade
  <2>2. CASE briefs[w] # NotMade
    <3>1. BriefOK(briefs[w], w)
      BY <2>2 DEF BriefInv
    <3>2. \A i \in briefs[w].items : i.of \in briefs[w].from
      BY <3>1, ItemOf DEF BriefOK, ScopeOf
    <3> QED BY <1>1, <3>1, <3>2, AttentionIsShown DEF BriefOK
  <2> QED BY <2>1, <2>2
<1> QED BY <1>1, <1>2 DEF BriefTypeOK

-----------------------------------------------------------------------------
LEMMA BriefStart == BriefInit => BriefInv
BY BriefAssumption DEF BriefInit, BriefInv, RecordsOK

\* What is recorded follows what it was made of, and takes nothing from a brief.
LEMMA RecordKeeps ==
    ASSUME BriefInv, NEW entry \in Entries, NEW subject \in Subjects, Record(entry, subject)
    PROVE  BriefInv'
<1> DEFINE new == [stage |-> entry.stage, status |-> entry.status, subject |-> subject, made |-> today]
<1> USE BriefAssumption DEF BriefInv
<1>1. /\ records' = records \cup {new} /\ UNCHANGED <<today, briefs>>
      /\ ~\E r \in records : r.stage = entry.stage /\ r.subject = subject
      /\ Follows(entry.stage, subject)
  BY DEF Record
<1>2. /\ new.stage = entry.stage /\ new.status = entry.status /\ new.subject = subject
      /\ new.made = today /\ [stage |-> new.stage, status |-> new.status] \in Entries
  <2>1. [stage |-> entry.stage, status |-> entry.status] \in Entries
    <3>1. entry \in [stage : Stages, status : STRING]
      OBVIOUS
    <3>2. entry = [stage |-> entry.stage, status |-> entry.status]
      BY <3>1
    <3> QED BY <3>2
  <2> QED BY <2>1
<1> HIDE DEF new
<1>3. RecordsOK'
  <2>1. ASSUME NEW stage, Told(records, stage, {"approved_pending_writeback", "edited_pending_writeback"}, subject)
                          \/ Told(records, stage, {"pending_user_review"}, subject)
        PROVE  Earlier(new, stage)
    <3>1. PICK q \in records : q.stage = stage /\ q.subject = subject
      BY <2>1 DEF Told
    <3>2. q.made \in 0 .. today
      BY DEF RecordsOK
    <3> QED BY <1>2, <3>1, <3>2 DEF Earlier
  <2>2. /\ new.stage = "116P" => Earlier(new, "115P")
        /\ new.stage = "117P" => Earlier(new, "116P")
    BY <1>1, <1>2, <2>1 DEF Follows
  <2>3. \A r \in records' : Earlier(r, "115P") => Earlier(r, "115P")'
    BY <1>1 DEF Earlier
  <2>4. \A r \in records' : Earlier(r, "116P") => Earlier(r, "116P")'
    BY <1>1 DEF Earlier
  <2>5. \A r, q \in records' : r.stage = q.stage /\ r.subject = q.subject => r = q
    BY <1>1, <1>2 DEF RecordsOK
  <2> QED BY <1>1, <1>2, <2>2, <2>3, <2>4, <2>5 DEF RecordsOK
<1>4. ASSUME NEW w \in Windows, briefs[w] # NotMade PROVE BriefOK(briefs[w], w)'
  BY <1>1, <1>4 DEF BriefOK
<1> QED BY <1>1, <1>3, <1>4

LEMMA PassKeeps == ASSUME BriefInv, Pass PROVE BriefInv'
<1> USE BriefAssumption DEF BriefInv, Pass
<1>1. RecordsOK'
  BY DEF RecordsOK, Earlier
<1>2. ASSUME NEW w \in Windows, briefs[w] # NotMade PROVE BriefOK(briefs[w], w)'
  BY <1>2 DEF BriefOK
<1> QED BY <1>1, <1>2

\* A brief is made of the records there are, and made once.
LEMMA BriefKeeps == ASSUME BriefInv, NEW w \in Windows, Brief(w) PROVE BriefInv'
<1> DEFINE items == Items(InScope(w))
           made  == [made |-> today, items |-> items, attention |-> Attention(items),
                     reviews |-> Reviews(items), none |-> NoUpdates(items), from |-> records]
<1> USE BriefAssumption DEF BriefInv
<1>1. /\ briefs' = [briefs EXCEPT ![w] = made] /\ UNCHANGED <<today, records>> /\ w.from < w.to
  BY DEF Brief, Valid
<1>2. /\ made.made = today /\ made.items = items /\ made.attention = Attention(items)
      /\ made.none = NoUpdates(items) /\ made.from = records
  OBVIOUS
<1> HIDE DEF made
<1>3. items = Items(ScopeOf(records, w))
  BY DEF InScope, ScopeOf
<1>4. RecordsOK'
  BY <1>1 DEF RecordsOK, Earlier
<1>5. BriefOK(briefs[w], w)'
  <2>1. briefs'[w] = made
    BY <1>1
  <2> QED BY <1>1, <1>2, <1>3, <2>1 DEF BriefOK
<1>6. ASSUME NEW v \in Windows, briefs'[v] # NotMade PROVE BriefOK(briefs[v], v)'
  <2>1. CASE v = w
    BY <1>1, <1>5, <2>1
  <2>2. CASE v # w
    BY <1>1, <1>6, <2>2 DEF BriefOK
  <2> QED BY <2>1, <2>2
<1> QED BY <1>1, <1>4, <1>6

LEMMA BriefStep == ASSUME BriefInv, [BriefNext]_briefVars PROVE BriefInv'
<1>1. CASE UNCHANGED briefVars
  BY <1>1 DEF briefVars, BriefInv, RecordsOK, Earlier, BriefOK
<1>2. CASE BriefNext
  BY <1>2, RecordKeeps, PassKeeps, BriefKeeps DEF BriefNext
<1> QED BY <1>1, <1>2

\* A brief calls nothing pending that it calls done, and leaves out no dated record of
\* its window but those it has a reason to, for any number of records, subjects and
\* windows (create_daily_brief_snapshot).
THEOREM BriefTellsTheWindow == BriefSpec => []TellsTheWindow
<1>1. BriefSpec => []BriefInv
  BY BriefStart, BriefStep, PTL DEF BriefSpec
<1>2. BriefInv => TellsTheWindow
  BY BriefTells DEF TellsTheWindow
<1> QED BY <1>1, <1>2, PTL

\* A brief is of its window and of records there were, and what needs attention is
\* something it shows (create_daily_brief_snapshot).
THEOREM BriefsTyped == BriefSpec => []BriefTypeOK
<1>1. BriefSpec => []BriefInv
  BY BriefStart, BriefStep, PTL DEF BriefSpec
<1> QED BY <1>1, BriefInvTypes, PTL

-----------------------------------------------------------------------------
(* The demos *)

\* The records are told apart by the id of a fixture, never by what it says.
OneFixturePerId ==
    \A r, q \in DemoRuns :
        r.fixture.id = q.fixture.id /\ r.fixture.demo = q.fixture.demo => r.fixture = q.fixture

SourceOf(run) ==
    IF run.fixture.demo = "document" THEN DocumentSource(run) ELSE MeetingSource(run)

Taken(run) ==
    IF run.fixture.demo = "document"
    THEN DocumentAccepted(run) /\ Noticed(run) = "document_review_needed"
    ELSE MeetingAccepted(run) /\ Noticed(run) = "meeting_brief_missing"

UnderItsPack(f) ==
    \E c \in f.artifact.packs : c.record = Opportunity(f.of, DocumentSource(f.of))

\* A flow tells the run it was made for.
FlowOK(f, kept) ==
    /\ f.of \in DemoRuns /\ f.key = FlowKey(f.of, SourceOf(f.of)) /\ Taken(f.of)
    /\ f.artifact.brief \in kept /\ f.artifact.brief.owner = f.of.owner
    /\ f.artifact.owner = f.of.owner
    /\ f.of.fixture.demo = "document" => UnderItsPack(f)

BriefsOK(bundle) ==
    /\ \A b \in bundle.briefs : DOMAIN b = {"owner", "window", "about"}
    /\ \A b, c \in bundle.briefs : b.owner = c.owner /\ b.window = c.window => b = c

\* Nothing but an opportunity is ever put under the documents pack.
ClassifiedOK(classified) ==
    \A c \in classified : c.pack = "documents_pack" => DOMAIN c.record = {"source", "kind"}

SurfacesOK(bundle) ==
    /\ \A s \in bundle.surfaces : ClassifiedOK(s.classified)
    /\ \A s, t \in bundle.surfaces : s.owner = t.owner => s = t

FlowsOK(bundle, demo) ==
    /\ \A f, g \in bundle.flows : f.key = g.key => f = g
    /\ \A f \in bundle.flows : FlowOK(f, bundle.briefs) /\ f.of.fixture.demo = demo

BundleOK(bundle, demo) ==
    /\ DOMAIN bundle = {"briefs", "surfaces", "flows"}
    /\ BriefsOK(bundle) /\ SurfacesOK(bundle) /\ FlowsOK(bundle, demo)

ScreensOK ==
    \A s \in screens : s.owner = s.artifact.owner /\ s.chat = s.flow.of.chat
                        /\ s.artifact = s.flow.artifact

DemoInv == BundleOK(document, "document") /\ BundleOK(meeting, "meeting") /\ ScreensOK

LEMMA DemoInvTypes == DemoInv => DemoTypeOK
<1> SUFFICES ASSUME DemoInv, NEW bundle \in {document, meeting}
             PROVE  /\ \A b, c \in bundle.briefs : b.owner = c.owner /\ b.window = c.window => b = c
                    /\ \A s, t \in bundle.surfaces : s.owner = t.owner => s = t
                    /\ \A f, g \in bundle.flows : f.key = g.key => f = g
                    /\ \A f \in bundle.flows : f.artifact.brief \in bundle.briefs
                    /\ \A f \in bundle.flows :
                           f.of.fixture.demo = IF bundle = document THEN "document" ELSE "meeting"
  BY DEF DemoTypeOK
<1>1. CASE bundle = document
  BY <1>1 DEF DemoInv, BundleOK, BriefsOK, SurfacesOK, FlowsOK, FlowOK
<1>2. CASE bundle # document
  BY <1>2 DEF DemoInv, BundleOK, BriefsOK, SurfacesOK, FlowsOK, FlowOK
<1> QED BY <1>1, <1>2

-----------------------------------------------------------------------------
\* Two runs of one demo with one key are one run.
LEMMA OneRunPerKey ==
    ASSUME OneFixturePerId, NEW r \in DemoRuns, NEW q \in DemoRuns,
           r.fixture.demo = q.fixture.demo,
           FlowKey(r, SourceOf(r)) = FlowKey(q, SourceOf(q))
    PROVE  r = q
<1>1. r.owner = q.owner /\ r.chat = q.chat /\ SourceOf(r) = SourceOf(q)
      /\ Attempt(r, SourceOf(r)) = Attempt(q, SourceOf(q))
  BY DEF FlowKey
<1>2. r.fixture.id = q.fixture.id
  <2>1. SourceOf(r).fixture = r.fixture.id /\ SourceOf(q).fixture = q.fixture.id
    BY DEF SourceOf, DocumentSource, MeetingSource
  <2> QED BY <1>1, <2>1
<1>3. r.day = q.day
  <2>1. /\ Attempt(r, SourceOf(r)).delegation.cost.day = r.day
        /\ Attempt(q, SourceOf(q)).delegation.cost.day = q.day
    BY DEF Attempt, Delegated, CostRequest
  <2> QED BY <1>1, <2>1
<1>4. r.fixture = q.fixture
  BY <1>2 DEF OneFixturePerId
<1> QED BY <1>1, <1>3, <1>4, DemosAssumption

\* The brief of a run is its owner's, of its window.
LEMMA BriefOfRun ==
    ASSUME NEW bundle, NEW run, BriefsOK(bundle)
    PROVE  LET brief == BriefOf(bundle, run)
           IN  /\ DOMAIN brief = {"owner", "window", "about"}
               /\ brief.owner = run.owner /\ brief.window = run.fixture.window
               /\ brief \in bundle.briefs
                    \/ ~\E b \in bundle.briefs : b.owner = run.owner /\ b.window = run.fixture.window
<1> DEFINE kept == {b \in bundle.briefs : b.owner = run.owner /\ b.window = run.fixture.window}
<1>1. CASE kept # {}
  <2>1. BriefOf(bundle, run) \in kept
    BY <1>1 DEF BriefOf
  <2> QED BY <2>1 DEF BriefsOK
<1>2. CASE kept = {}
  <2>1. BriefOf(bundle, run) = [owner |-> run.owner, window |-> run.fixture.window, about |-> run]
    BY <1>2 DEF BriefOf
  <2> QED BY <1>2, <2>1
<1> QED BY <1>1, <1>2

\* The surface of a run is its owner's.
LEMMA SurfaceOfRun ==
    ASSUME NEW bundle, NEW run, NEW source, NEW brief, SurfacesOK(bundle)
    PROVE  LET surface == SurfaceOf(bundle, run, source, brief)
           IN  /\ surface.owner = run.owner /\ ClassifiedOK(surface.classified)
               /\ surface \in bundle.surfaces \/ ~\E s \in bundle.surfaces : s.owner = run.owner
<1> DEFINE kept == {s \in bundle.surfaces : s.owner = run.owner}
<1>1. CASE kept # {}
  <2>1. SurfaceOf(bundle, run, source, brief) \in kept
    BY <1>1 DEF SurfaceOf
  <2> QED BY <2>1 DEF SurfacesOK
<1>2. CASE kept = {}
  <2>1. SurfaceOf(bundle, run, source, brief)
            = [owner |-> run.owner, classified |-> Classified(run, source, brief)]
    BY <1>2 DEF SurfaceOf
  <2>2. ASSUME NEW c \in Classified(run, source, brief), c.pack = "documents_pack"
        PROVE  DOMAIN c.record = {"source", "kind"}
    <3>1. c = [record |-> Opportunity(run, source), pack |-> PackOf(Noticed(run))]
      BY <2>2 DEF Classified
    <3>2. c.record = [source |-> source, kind |-> Noticed(run)]
      BY <3>1 DEF Opportunity
    <3> QED BY <3>2
  <2> QED BY <1>2, <2>1, <2>2 DEF ClassifiedOK
<1> QED BY <1>1, <1>2

LEMMA PresentedKeeps ==
    ASSUME NEW bundle, NEW demo, BundleOK(bundle, demo), NEW run, NEW source
    PROVE  LET brief   == BriefOf(bundle, run)
               surface == SurfaceOf(bundle, run, source, brief)
               after   == Presented(bundle, brief, surface)
           IN  BundleOK(after, demo) /\ after.flows = bundle.flows /\ brief \in after.briefs
<1> DEFINE brief   == BriefOf(bundle, run)
           surface == SurfaceOf(bundle, run, source, brief)
           after   == Presented(bundle, brief, surface)
<1>1. /\ DOMAIN brief = {"owner", "window", "about"}
      /\ brief.owner = run.owner /\ brief.window = run.fixture.window
      /\ brief \in bundle.briefs
           \/ ~\E b \in bundle.briefs : b.owner = run.owner /\ b.window = run.fixture.window
  BY BriefOfRun DEF BundleOK
<1>2. /\ surface.owner = run.owner /\ ClassifiedOK(surface.classified)
      /\ surface \in bundle.surfaces \/ ~\E s \in bundle.surfaces : s.owner = run.owner
  BY SurfaceOfRun DEF BundleOK
<1>3. /\ DOMAIN after = {"briefs", "surfaces", "flows"} /\ after.flows = bundle.flows
      /\ after.briefs = bundle.briefs \cup {brief} /\ after.surfaces = bundle.surfaces \cup {surface}
  <2> HIDE DEF brief, surface
  <2> QED BY DEF Presented, BundleOK
<1> HIDE DEF brief, surface, after
<1>4. BriefsOK(after)
  BY <1>1, <1>3 DEF BundleOK, BriefsOK
<1>5. SurfacesOK(after)
  BY <1>2, <1>3 DEF BundleOK, SurfacesOK
<1>6. FlowsOK(after, demo)
  BY <1>3 DEF BundleOK, FlowsOK, FlowOK
<1> QED BY <1>3, <1>4, <1>5, <1>6 DEF BundleOK, brief, surface, after

\* A flow is kept under its key, or there was none.
LEMMA FlowKept ==
    ASSUME NEW bundle, NEW run, NEW source, NEW artifact
    PROVE  LET flow == FlowOf(bundle, run, source, artifact)
           IN  /\ flow.key = FlowKey(run, source)
               /\ \/ flow \in bundle.flows
                  \/ /\ flow = NewFlow(FlowKey(run, source), run, artifact)
                     /\ ~\E f \in bundle.flows : f.key = FlowKey(run, source)
<1> DEFINE key  == FlowKey(run, source)
           kept == {f \in bundle.flows : f.key = key}
<1>1. CASE kept # {}
  <2>1. FlowOf(bundle, run, source, artifact) \in kept
    <3> HIDE DEF key
    <3> QED BY <1>1 DEF FlowOf, key
  <2> QED BY <2>1
<1>2. CASE kept = {}
  <2>1. FlowOf(bundle, run, source, artifact) = NewFlow(key, run, artifact)
    BY <1>2 DEF FlowOf
  <2>2. NewFlow(key, run, artifact).key = key
    BY DEF NewFlow
  <2> QED BY <1>2, <2>1, <2>2
<1> QED BY <1>1, <1>2

\* With a flow kept or a new one of this run, the bundle is as it should be.
LEMMA FlowAdded ==
    ASSUME NEW bundle, NEW demo, BundleOK(bundle, demo), NEW flow,
           \/ flow \in bundle.flows
           \/ /\ FlowOK(flow, bundle.briefs) /\ flow.of.fixture.demo = demo
              /\ ~\E f \in bundle.flows : f.key = flow.key
    PROVE  BundleOK([bundle EXCEPT !.flows = @ \cup {flow}], demo)
<1> DEFINE after == [bundle EXCEPT !.flows = @ \cup {flow}]
<1>1. /\ DOMAIN after = {"briefs", "surfaces", "flows"} /\ after.flows = bundle.flows \cup {flow}
      /\ after.briefs = bundle.briefs /\ after.surfaces = bundle.surfaces
  BY DEF BundleOK
<1> HIDE DEF after
<1>2. BriefsOK(after) /\ SurfacesOK(after)
  BY <1>1 DEF BundleOK, BriefsOK, SurfacesOK
<1>3. FlowsOK(after, demo)
  BY <1>1 DEF BundleOK, FlowsOK
<1> QED BY <1>1, <1>2, <1>3 DEF BundleOK, after

-----------------------------------------------------------------------------
\* What a run is told, in the words of DemosTellTheirOwn.
ToldAsOwn(ending) ==
    ending.how = "flow" =>
        /\ ending.flow.of = ending.asked
        /\ ending.flow.artifact.brief.owner = ending.asked.owner
        /\ ending.asked.fixture.demo = "document" =>
               \E c \in ending.flow.artifact.packs :
                   c.record = Opportunity(ending.asked, DocumentSource(ending.asked))

ToldAgain(ending, flows) ==
    \A f \in flows : f.of = ending.asked => ending.how = "flow" /\ ending.flow = f

LEMMA TellsItself ==
    ASSUME NEW run, NEW how, NEW flow, Tells(run, how, flow)
    PROVE  lastDemo'.asked = run /\ lastDemo'.how = how /\ lastDemo'.flow = flow
BY DEF Tells

\* The flow that is told is of the run that asked, and the only one of it.
LEMMA OwnFlow ==
    ASSUME OneFixturePerId, NEW bundle, NEW demo, BundleOK(bundle, demo),
           NEW run \in DemoRuns, run.fixture.demo = demo,
           NEW flow \in bundle.flows, flow.key = FlowKey(run, SourceOf(run))
    PROVE  /\ flow.of = run
           /\ \A f \in bundle.flows : f.of = run => f = flow
<1>1. FlowOK(flow, bundle.briefs) /\ flow.of.fixture.demo = demo
  BY DEF BundleOK, FlowsOK
<1>2. flow.of = run
  BY <1>1, OneRunPerKey DEF FlowOK
<1>3. ASSUME NEW f \in bundle.flows, f.of = run PROVE f = flow
  BY <1>3 DEF BundleOK, FlowsOK, FlowOK
<1> QED BY <1>2, <1>3

\* A flow of another demo is of another run.
LEMMA OtherDemo ==
    ASSUME NEW bundle, NEW demo, BundleOK(bundle, demo), NEW run, run.fixture.demo # demo
    PROVE  \A f \in bundle.flows : f.of # run
BY DEF BundleOK, FlowsOK

\* There is no flow of a run that the demo does not take.
LEMMA OnlyTaken ==
    ASSUME NEW bundle, NEW demo, BundleOK(bundle, demo), NEW run, ~Taken(run)
    PROVE  \A f \in bundle.flows : f.of # run
BY DEF BundleOK, FlowsOK, FlowOK

\* What a new document flow is told under is the documents pack of its own opportunity.
LEMMA OwnPack ==
    ASSUME NEW run, NEW brief, NEW surface, DOMAIN brief = {"owner", "window", "about"},
           ClassifiedOK(surface.classified), DocumentPacks(run, brief, surface) # {}
    PROVE  \E c \in DocumentPacks(run, brief, surface) :
               c.record = Opportunity(run, DocumentSource(run))
<1> DEFINE source == DocumentSource(run)
<1>1. PICK c \in DocumentPacks(run, brief, surface) : TRUE
  OBVIOUS
<1>2. /\ c \in surface.classified /\ c.pack = "documents_pack"
      /\ c.record \in {Opportunity(run, source), brief, Attempt(run, source), source}
  BY <1>1 DEF DocumentPacks
<1>3. DOMAIN c.record = {"source", "kind"}
  BY <1>2 DEF ClassifiedOK
<1>4. c.record # brief
  BY <1>3
<1>5. c.record # Attempt(run, source)
  <2>1. DOMAIN Attempt(run, source) = {"delegation"}
    BY DEF Attempt
  <2> QED BY <1>3, <2>1
<1>6. c.record # source
  <2>1. DOMAIN source = {"owner", "fixture", "at"}
    BY DEF DocumentSource
  <2> QED BY <1>3, <2>1
<1> QED BY <1>2, <1>4, <1>5, <1>6

LEMMA NewDocumentFlow ==
    ASSUME NEW run \in DemoRuns, run.fixture.demo = "document", Taken(run),
           NEW brief, NEW surface, NEW kept, brief \in kept, brief.owner = run.owner,
           DOMAIN brief = {"owner", "window", "about"}, ClassifiedOK(surface.classified),
           DocumentPacks(run, brief, surface) # {}
    PROVE  LET flow == NewFlow(FlowKey(run, DocumentSource(run)), run,
                               DocumentArtifact(run, brief, surface))
           IN  FlowOK(flow, kept) /\ flow.of.fixture.demo = "document"
<1> DEFINE artifact == DocumentArtifact(run, brief, surface)
           key  == FlowKey(run, DocumentSource(run))
           flow == NewFlow(key, run, artifact)
<1>1. artifact.owner = run.owner /\ artifact.brief = brief
      /\ artifact.packs = DocumentPacks(run, brief, surface)
  BY DEF DocumentArtifact
<1>2. SourceOf(run) = DocumentSource(run)
  BY DEF SourceOf
<1> HIDE DEF artifact, key
<1>3. flow.of = run /\ flow.key = key /\ flow.artifact = artifact
  BY DEF NewFlow
<1> HIDE DEF flow
<1>4. UnderItsPack(flow)
  BY <1>1, <1>3, OwnPack DEF UnderItsPack
<1> QED BY <1>1, <1>2, <1>3, <1>4 DEF FlowOK, flow, key, artifact

LEMMA NewMeetingFlow ==
    ASSUME NEW run \in DemoRuns, run.fixture.demo = "meeting", Taken(run),
           NEW brief, NEW surface, NEW kept, brief \in kept, brief.owner = run.owner
    PROVE  LET flow == NewFlow(FlowKey(run, MeetingSource(run)), run,
                               MeetingArtifact(run, brief, surface))
           IN  FlowOK(flow, kept) /\ flow.of.fixture.demo = "meeting"
<1> DEFINE artifact == MeetingArtifact(run, brief, surface)
           key  == FlowKey(run, MeetingSource(run))
           flow == NewFlow(key, run, artifact)
<1>1. artifact.owner = run.owner /\ artifact.brief = brief
  BY DEF MeetingArtifact
<1>2. SourceOf(run) = MeetingSource(run)
  BY DEF SourceOf
<1> HIDE DEF artifact, key
<1>3. flow.of = run /\ flow.key = key /\ flow.artifact = artifact
  BY DEF NewFlow
<1> HIDE DEF flow
<1> QED BY <1>1, <1>2, <1>3 DEF FlowOK, flow, key, artifact

-----------------------------------------------------------------------------
\* What each step must show.
DemoStepOK ==
    /\ DemoInv'
    /\ lastDemo' # lastDemo =>
           ToldAsOwn(lastDemo') /\ ToldAgain(lastDemo', document.flows \cup meeting.flows)

\* A flow that was told of a bundle as it then is.
LEMMA ToldOfBundle ==
    ASSUME OneFixturePerId, NEW bundle, NEW demo, BundleOK(bundle, demo),
           NEW run \in DemoRuns, run.fixture.demo = demo,
           NEW flow \in bundle.flows, flow.key = FlowKey(run, SourceOf(run)),
           NEW ending, ending.asked = run, ending.how = "flow", ending.flow = flow
    PROVE  ToldAsOwn(ending) /\ ToldAgain(ending, bundle.flows)
<1>1. flow.of = run /\ \A f \in bundle.flows : f.of = run => f = flow
  BY OwnFlow
<1>2. FlowOK(flow, bundle.briefs)
  BY DEF BundleOK, FlowsOK
<1> QED BY <1>1, <1>2 DEF FlowOK, UnderItsPack, ToldAsOwn, ToldAgain

LEMMA DocumentDemoShows ==
    ASSUME OneFixturePerId, DemoInv, NEW run \in DemoRuns, run.fixture.demo = "document",
           DocumentDemo(run)
    PROVE  DemoStepOK
<1> DEFINE source   == DocumentSource(run)
           brief    == BriefOf(document, run)
           surface  == SurfaceOf(document, run, source, brief)
           artifact == DocumentArtifact(run, brief, surface)
           flow     == FlowOf(document, run, source, artifact)
           after    == Presented(document, brief, surface)
<1>1. /\ flow \in document.flows \/ DocumentPacks(run, brief, surface) # {}
      /\ document' = [after EXCEPT !.flows = @ \cup {flow}]
      /\ Tells(run, "flow", flow) /\ UNCHANGED <<meeting, screens>> /\ Taken(run)
  BY DEF DocumentDemo, Taken
<1>2. BundleOK(document, "document")
  BY DEF DemoInv
<1>3. BundleOK(after, "document") /\ after.flows = document.flows /\ brief \in after.briefs
  BY <1>2, PresentedKeeps
<1>4. /\ flow.key = FlowKey(run, source)
      /\ \/ flow \in document.flows
         \/ /\ flow = NewFlow(FlowKey(run, source), run, artifact)
            /\ ~\E f \in document.flows : f.key = FlowKey(run, source)
  BY FlowKept
<1>5. brief.owner = run.owner /\ DOMAIN brief = {"owner", "window", "about"}
  BY <1>2, BriefOfRun DEF BundleOK
<1>6. ClassifiedOK(surface.classified)
  BY <1>2, SurfaceOfRun DEF BundleOK
<1>7. SourceOf(run) = source
  BY DEF SourceOf
<1> HIDE DEF brief, surface, after, flow
<1>8. \/ flow \in after.flows
      \/ /\ FlowOK(flow, after.briefs) /\ flow.of.fixture.demo = "document"
         /\ ~\E f \in after.flows : f.key = flow.key
  BY <1>1, <1>3, <1>4, <1>5, <1>6, NewDocumentFlow
<1>9. BundleOK(document', "document")
  BY <1>1, <1>3, <1>8, FlowAdded
<1>10. flow \in document'.flows /\ document.flows \subseteq document'.flows
  <2>1. DOMAIN after = {"briefs", "surfaces", "flows"}
    BY <1>3 DEF BundleOK
  <2> QED BY <1>1, <1>3, <2>1
<1>11. DemoInv'
  BY <1>1, <1>9 DEF DemoInv, ScreensOK, BundleOK, BriefsOK, SurfacesOK, FlowsOK, FlowOK
<1>12. ToldAsOwn(lastDemo') /\ ToldAgain(lastDemo', document'.flows)
  BY <1>1, <1>4, <1>7, <1>9, <1>10, TellsItself, ToldOfBundle
<1>13. \A f \in meeting.flows : f.of # run
  BY OtherDemo DEF DemoInv
<1>14. lastDemo'.asked = run
  BY <1>1, TellsItself
<1> QED BY <1>10, <1>11, <1>12, <1>13, <1>14 DEF DemoStepOK, ToldAgain

\* Of a run without a flow nothing was told as one.
LEMMA ToldOfNone ==
    ASSUME DemoInv, NEW run, NEW how, how # "flow", Tells(run, how, NoFlow),
           \A f \in document.flows \cup meeting.flows : f.of # run
    PROVE  ToldAsOwn(lastDemo') /\ ToldAgain(lastDemo', document.flows \cup meeting.flows)
BY TellsItself DEF ToldAsOwn, ToldAgain

LEMMA DocumentUnclassifiedShows ==
    ASSUME DemoInv, NEW run \in DemoRuns, run.fixture.demo = "document", DocumentUnclassified(run)
    PROVE  DemoStepOK
<1> DEFINE source   == DocumentSource(run)
           brief    == BriefOf(document, run)
           surface  == SurfaceOf(document, run, source, brief)
           flow     == FlowOf(document, run, source, DocumentArtifact(run, brief, surface))
<1>1. /\ flow \notin document.flows /\ document' = Presented(document, brief, surface)
      /\ Tells(run, "unclassified", NoFlow) /\ UNCHANGED <<meeting, screens>>
  BY DEF DocumentUnclassified
<1>2. BundleOK(document, "document") /\ BundleOK(meeting, "meeting")
  BY DEF DemoInv
<1>3. BundleOK(Presented(document, brief, surface), "document")
  BY <1>2, PresentedKeeps
<1>4. ~\E f \in document.flows : f.key = FlowKey(run, source)
  BY <1>1, FlowKept
<1>5. SourceOf(run) = source
  BY DEF SourceOf
<1> HIDE DEF brief, surface, flow, source
<1>6. DemoInv'
  BY <1>1, <1>2, <1>3 DEF DemoInv, ScreensOK, BundleOK, BriefsOK, SurfacesOK, FlowsOK, FlowOK
<1>7. \A f \in document.flows : f.of # run
  BY <1>2, <1>4, <1>5 DEF BundleOK, FlowsOK, FlowOK
<1>8. \A f \in meeting.flows : f.of # run
  BY <1>2, OtherDemo
<1> QED BY <1>1, <1>6, <1>7, <1>8, ToldOfNone DEF DemoStepOK

LEMMA DocumentRefusedShows ==
    ASSUME DemoInv, NEW run \in DemoRuns, run.fixture.demo = "document", DocumentRefused(run)
    PROVE  DemoStepOK
<1>1. ~Taken(run) /\ Tells(run, "refused", NoFlow) /\ UNCHANGED <<document, meeting, screens>>
  BY DEF DocumentRefused, Taken
<1>2. BundleOK(document, "document") /\ BundleOK(meeting, "meeting")
  BY DEF DemoInv
<1>3. \A f \in document.flows \cup meeting.flows : f.of # run
  BY <1>1, <1>2, OnlyTaken
<1>4. DemoInv'
  BY <1>1 DEF DemoInv, ScreensOK
<1> QED BY <1>1, <1>3, <1>4, ToldOfNone DEF DemoStepOK

LEMMA MeetingDemoShows ==
    ASSUME OneFixturePerId, DemoInv, NEW run \in DemoRuns, run.fixture.demo = "meeting",
           MeetingDemo(run)
    PROVE  DemoStepOK
<1> DEFINE source   == MeetingSource(run)
           brief    == BriefOf(meeting, run)
           surface  == SurfaceOf(meeting, run, source, brief)
           artifact == MeetingArtifact(run, brief, surface)
           flow     == FlowOf(meeting, run, source, artifact)
           after    == Presented(meeting, brief, surface)
<1>1. /\ meeting' = [after EXCEPT !.flows = @ \cup {flow}]
      /\ Tells(run, "flow", flow) /\ UNCHANGED <<document, screens>> /\ Taken(run)
  BY DEF MeetingDemo, Taken
<1>2. BundleOK(meeting, "meeting") /\ BundleOK(document, "document")
  BY DEF DemoInv
<1>3. BundleOK(after, "meeting") /\ after.flows = meeting.flows /\ brief \in after.briefs
  BY <1>2, PresentedKeeps
<1>4. /\ flow.key = FlowKey(run, source)
      /\ \/ flow \in meeting.flows
         \/ /\ flow = NewFlow(FlowKey(run, source), run, artifact)
            /\ ~\E f \in meeting.flows : f.key = FlowKey(run, source)
  BY FlowKept
<1>5. brief.owner = run.owner
  BY <1>2, BriefOfRun DEF BundleOK
<1>6. SourceOf(run) = source
  BY DEF SourceOf
<1> HIDE DEF brief, surface, after, flow
<1>7. \/ flow \in after.flows
      \/ /\ FlowOK(flow, after.briefs) /\ flow.of.fixture.demo = "meeting"
         /\ ~\E f \in after.flows : f.key = flow.key
  BY <1>1, <1>3, <1>4, <1>5, NewMeetingFlow
<1>8. BundleOK(meeting', "meeting")
  BY <1>1, <1>3, <1>7, FlowAdded
<1>9. flow \in meeting'.flows /\ meeting.flows \subseteq meeting'.flows
  <2>1. DOMAIN after = {"briefs", "surfaces", "flows"}
    BY <1>3 DEF BundleOK
  <2> QED BY <1>1, <1>3, <2>1
<1>10. DemoInv'
  BY <1>1, <1>2, <1>8 DEF DemoInv, ScreensOK, BundleOK, BriefsOK, SurfacesOK, FlowsOK, FlowOK
<1>11. ToldAsOwn(lastDemo') /\ ToldAgain(lastDemo', meeting'.flows)
  BY <1>1, <1>4, <1>6, <1>8, <1>9, TellsItself, ToldOfBundle
<1>12. \A f \in document.flows : f.of # run
  BY <1>2, OtherDemo
<1>13. lastDemo'.asked = run
  BY <1>1, TellsItself
<1> QED BY <1>9, <1>10, <1>11, <1>12, <1>13 DEF DemoStepOK, ToldAgain

LEMMA OtherIntentShows ==
    ASSUME DemoInv, NEW run \in DemoRuns, run.fixture.demo = "meeting", MeetingOfOtherIntent(run)
    PROVE  DemoStepOK
<1> DEFINE brief   == BriefOf(meeting, run)
           surface == SurfaceOf(meeting, run, MeetingSource(run), brief)
<1>1. /\ meeting' = Presented(meeting, brief, surface) /\ ~Taken(run)
      /\ Tells(run, "other_intent", NoFlow) /\ UNCHANGED <<document, screens>>
  BY DEF MeetingOfOtherIntent, Taken
<1>2. BundleOK(document, "document") /\ BundleOK(meeting, "meeting")
  BY DEF DemoInv
<1>3. BundleOK(Presented(meeting, brief, surface), "meeting")
  BY <1>2, PresentedKeeps
<1> HIDE DEF brief, surface
<1>4. DemoInv'
  BY <1>1, <1>2, <1>3 DEF DemoInv, ScreensOK, BundleOK, BriefsOK, SurfacesOK, FlowsOK, FlowOK
<1>5. \A f \in document.flows \cup meeting.flows : f.of # run
  BY <1>1, <1>2, OnlyTaken
<1> QED BY <1>1, <1>4, <1>5, ToldOfNone DEF DemoStepOK

LEMMA MeetingRefusedShows ==
    ASSUME DemoInv, NEW run \in DemoRuns, run.fixture.demo = "meeting", MeetingRefused(run)
    PROVE  DemoStepOK
<1>1. ~Taken(run) /\ Tells(run, "refused", NoFlow) /\ UNCHANGED <<document, meeting, screens>>
  BY DEF MeetingRefused, Taken
<1>2. BundleOK(document, "document") /\ BundleOK(meeting, "meeting")
  BY DEF DemoInv
<1>3. \A f \in document.flows \cup meeting.flows : f.of # run
  BY <1>1, <1>2, OnlyTaken
<1>4. DemoInv'
  BY <1>1 DEF DemoInv, ScreensOK
<1> QED BY <1>1, <1>3, <1>4, ToldOfNone DEF DemoStepOK

\* A screen is of the flow and the artifact that fit each other.
LEMMA ShowResultShows ==
    ASSUME DemoInv, NEW flow \in meeting.flows, NEW owner, NEW artifact,
           ShowResult(owner, flow, artifact)
    PROVE  DemoStepOK
<1> DEFINE screen == [owner |-> owner, chat |-> flow.of.chat, flow |-> flow, artifact |-> artifact]
<1>1. /\ owner = artifact.owner /\ flow.artifact = artifact
      /\ screens' = screens \cup {screen} /\ UNCHANGED <<document, meeting, lastDemo>>
  BY DEF ShowResult, LineageFits
<1>2. screen.owner = owner /\ screen.chat = flow.of.chat /\ screen.flow = flow
      /\ screen.artifact = artifact
  OBVIOUS
<1> HIDE DEF screen
<1>3. ScreensOK'
  BY <1>1, <1>2 DEF DemoInv, ScreensOK
<1> QED BY <1>1, <1>3 DEF DemoStepOK, DemoInv

LEMMA DemoStart == DemoInit => DemoInv
BY DEF DemoInit, DemoInv, BundleOK, BriefsOK, SurfacesOK, FlowsOK, ScreensOK

LEMMA DemoStep ==
    ASSUME OneFixturePerId, DemoInv, [DemoNext]_demoVars PROVE DemoStepOK
<1>1. CASE UNCHANGED demoVars
  BY <1>1 DEF demoVars, DemoStepOK, DemoInv, ScreensOK
<1>2. CASE DemoNext
  BY <1>2, DocumentDemoShows, DocumentUnclassifiedShows, DocumentRefusedShows, MeetingDemoShows,
     OtherIntentShows, MeetingRefusedShows, ShowResultShows DEF DemoNext
<1> QED BY <1>1, <1>2

\* A demo is told as its own and told again alike, and is shown to nobody else, for any
\* number of owners, chats, days and fixtures, if no two fixtures go by one id
\* (assemble_document_review_demo_flow, assemble_meeting_brief_demo_flow and
\* render_demo_result_delivery_surface).
THEOREM DemosTold ==
    ASSUME OneFixturePerId
    PROVE  DemoSpec => DemosTellTheirOwn
<1>1. DemoSpec => []DemoInv
  <2>1. ASSUME DemoInv, [DemoNext]_demoVars PROVE DemoInv'
    BY <2>1, DemoStep DEF DemoStepOK
  <2> QED BY <2>1, DemoStart, PTL DEF DemoSpec
<1>2. ASSUME DemoInv, [DemoNext]_demoVars
      PROVE  [/\ lastDemo' # lastDemo /\ lastDemo'.how = "flow" =>
                     /\ lastDemo'.flow.of = lastDemo'.asked
                     /\ lastDemo'.flow.artifact.brief.owner = lastDemo'.asked.owner
                     /\ lastDemo'.asked.fixture.demo = "document" =>
                            \E c \in lastDemo'.flow.artifact.packs :
                                c.record = Opportunity(lastDemo'.asked, DocumentSource(lastDemo'.asked))
              /\ lastDemo' # lastDemo =>
                     \A f \in document.flows \cup meeting.flows :
                         f.of = lastDemo'.asked => lastDemo'.how = "flow" /\ lastDemo'.flow = f
              /\ \A s \in screens' : s.owner = s.artifact.owner /\ s.chat = s.flow.of.chat
                                      /\ s.artifact = s.flow.artifact]_demoVars
  BY <1>2, DemoStep DEF DemoStepOK, DemoInv, ScreensOK, ToldAsOwn, ToldAgain
<1> QED BY <1>1, <1>2, PTL DEF DemoSpec, DemosTellTheirOwn

\* One brief for an owner and a window, one surface for an owner, one flow for a key
\* (the registries of the demos).
THEOREM DemosTyped ==
    ASSUME OneFixturePerId
    PROVE  DemoSpec => []DemoTypeOK
<1>1. ASSUME DemoInv, [DemoNext]_demoVars PROVE DemoInv'
  BY <1>1, DemoStep DEF DemoStepOK
<1> QED BY <1>1, DemoStart, DemoInvTypes, PTL DEF DemoSpec

-----------------------------------------------------------------------------
(* The workspace token *)

TokenInv == now \in 0 .. LastSecond /\ file.grant \in Nat

TokenStepOK ==
    /\ now' \in 0 .. LastSecond /\ file'.grant \in Nat
    /\ file'.grant = file.grant /\ file.refresh # "none" => file'.refresh # "none"
    /\ asked' # asked /\ asked' # NoFile => asked'.expires > now + Skew

\* A token of the endpoint lasts for longer than the margin, and with it the refresh
\* token is kept or replaced.
LEMMA RefreshedKeeps ==
    ASSUME TokenInv, NEW answer \in Answers200
    PROVE  LET record == RefreshedFrom(answer)
           IN  /\ record.grant = file.grant /\ record.expires > now + Skew
               /\ file.refresh # "none" => record.refresh # "none"
<1>1. answer.refresh \in {"new", "none"} /\ answer.timed \in BOOLEAN
  BY DEF Answers200
<1>2. now + Life > now + Skew /\ Never > now + Skew
  BY MeetingsAssumption DEF TokenInv, Never
<1>3. /\ RefreshedFrom(answer).grant = file.grant
      /\ RefreshedFrom(answer).refresh = IF answer.refresh = "none" THEN file.refresh ELSE answer.refresh
      /\ RefreshedFrom(answer).expires = IF answer.timed THEN now + Life ELSE Never
  BY DEF RefreshedFrom, TokenRecord
<1> QED BY <1>1, <1>2, <1>3

\* A command is given the token of the environment, of the file, a refreshed one or none.
LEMMA ResolutionIs ==
    ASSUME NEW use \in Resolutions
    PROVE  \/ use.saved = file /\ (use.access = 0 \/ direct \/ FreshToken(file))
           \/ ~direct /\ \E answer \in Answers200 : use.saved = RefreshedFrom(answer)
<1> DEFINE none == [access |-> 0, saved |-> file, issued |-> issued]
           refreshed(answer) == [access |-> Len(issued) + 1, saved |-> RefreshedFrom(answer),
                                 issued |-> Append(issued, now + Life)]
<1>1. none.access = 0 /\ none.saved = file /\ \A a : [none EXCEPT !.access = a].saved = file
  OBVIOUS
<1>2. \A answer : refreshed(answer).saved = RefreshedFrom(answer)
  OBVIOUS
<1>3. use \in IF direct THEN {[none EXCEPT !.access = 1]}
              ELSE IF file = NoFile THEN {none}
              ELSE IF FreshToken(file) THEN {[none EXCEPT !.access = file.access]}
              ELSE IF file.refresh = "none" THEN {none}
              ELSE {none} \cup {refreshed(answer) : answer \in Answers200}
  BY DEF Resolutions
<1> HIDE DEF none, refreshed
<1> QED BY <1>1, <1>2, <1>3

LEMMA ResolveShows ==
    ASSUME TokenInv, NEW use, Resolve(use)
    PROVE  TokenStepOK
<1>1. /\ use \in Resolutions /\ file' = use.saved /\ now' = now
      /\ asked' = IF use.access = 0 THEN asked ELSE IF direct THEN NoFile ELSE use.saved
  BY DEF Resolve
<1>2. CASE use.saved = file /\ (use.access = 0 \/ direct \/ FreshToken(file))
  BY <1>1, <1>2 DEF TokenInv, TokenStepOK, FreshToken
<1>3. CASE ~direct /\ \E answer \in Answers200 : use.saved = RefreshedFrom(answer)
  BY <1>1, <1>3, RefreshedKeeps DEF TokenInv, TokenStepOK
<1> QED BY <1>1, <1>2, <1>3, ResolutionIs

LEMMA ConnectShows ==
    ASSUME TokenInv, NEW answer \in Answers200, Connect(answer)
    PROVE  TokenStepOK
<1>1. file'.grant = file.grant + 1
  BY DEF Connect, TokenRecord
<1>2. asked' = asked /\ now' = now
  BY DEF Connect
<1> QED BY <1>1, <1>2 DEF TokenInv, TokenStepOK

LEMMA MeetingStep == ASSUME TokenInv, [MeetingNext]_meetingVars PROVE TokenStepOK
<1>1. CASE UNCHANGED meetingVars
  BY <1>1 DEF meetingVars, TokenInv, TokenStepOK
<1>2. CASE PassSecond
  BY <1>2, MeetingsAssumption DEF PassSecond, TokenInv, TokenStepOK
<1>3. CASE \E events \in Agendas : EditAgenda(events)
  BY <1>3 DEF EditAgenda, TokenInv, TokenStepOK
<1>4. CASE \E answer \in Answers200 : Connect(answer)
  BY <1>4, ConnectShows
<1>5. CASE \E use \in Resolutions : Resolve(use)
  BY <1>5, ResolveShows
<1>6. CASE \E p \in proposed, choice \in {"approve", "reject"} : DecideProposal(p, choice)
  BY <1>6 DEF DecideProposal, TokenInv, TokenStepOK
<1> QED BY <1>1, <1>2, <1>3, <1>4, <1>5, <1>6
        DEF MeetingNext, Suggest, ReadThread, ProposeContext, Prepare

\* Once the workspace is connected with a refresh token it stays connected, whatever the
\* token endpoint answers, and no request is made with a token known to be at its end,
\* for any lifetime of a token and any margin that is shorter (the token file of the
\* workspace and its refresh).
THEOREM WorkspaceStaysConnected == MeetingSpec => StaysConnected
<1>1. MeetingInit => TokenInv
  BY MeetingsAssumption DEF MeetingInit, TokenInv, NoFile
<1>2. ASSUME TokenInv, [MeetingNext]_meetingVars PROVE TokenInv'
  BY <1>2, MeetingStep DEF TokenStepOK, TokenInv
<1>3. ASSUME TokenInv, [MeetingNext]_meetingVars
      PROVE  [/\ file'.grant = file.grant /\ file.refresh # "none" => file'.refresh # "none"
              /\ asked' # asked /\ asked' # NoFile => asked'.expires > now + Skew]_meetingVars
  BY <1>3, MeetingStep DEF TokenStepOK
<1> QED BY <1>1, <1>2, <1>3, PTL DEF MeetingSpec, StaysConnected

-----------------------------------------------------------------------------
(* What is prepared of the calendar *)

\* A meeting suggested is a confirmed one, marked for preparation, wherever the limits cut.
LEMMA SuggestedIsHeld ==
    ASSUME NEW use, NEW net, NEW id \in MeetingSuggestions(CalendarRead(use, net))
    PROVE  OnAgenda(id)
<1> DEFINE read == CalendarRead(use, net)
           prep == {c \in ContextScan(read) : Kinds137[c[2]] = "prep"}
           first(c) == \A d \in prep : Before(d, c) => agenda[d[1]].event # agenda[c[1]].event
<1>1. PICK c \in prep : id = SuggestionOf(c)
  <2>1. PICK c \in Earliest({d \in prep : first(d)}, MaxMeetings) : id = SuggestionOf(c)
    BY DEF MeetingSuggestions
  <2> QED BY <2>1 DEF Earliest
<1>2. PICK k \in read.events : c \in CandidatesOf(k)
  BY <1>1 DEF ContextScan, Earliest
<1>3. read.events \subseteq Confirmed
  BY DEF CalendarRead
<1>4. k \in DOMAIN agenda /\ agenda[k].state = "confirmed"
  BY <1>2, <1>3 DEF Confirmed
<1>5. c[1] = k /\ Kinds137[c[2]] \in agenda[k].marks
  BY <1>2 DEF CandidatesOf
<1>6. "prep" \in agenda[k].marks
  BY <1>1, <1>5
<1>7. id = [event |-> agenda[k].event, title |-> agenda[k].title]
  BY <1>1, <1>5 DEF SuggestionOf
<1> QED BY <1>4, <1>6, <1>7 DEF OnAgenda

Done139 == {"completed", "completed_with_context", "completed_with_blocked_sources"}

PreparedStepOK ==
    /\ \A p \in given' \ given : p.status \in Done139 => OnAgenda(p.meeting)
    /\ \A p \in proposed' \ proposed :
           p.source = "brief" => \E id \in shown : id.event = p.about /\ OnAgenda(id)

\* A brief is completed only of a meeting that the scan made now still suggests.
LEMMA PrepareShows ==
    ASSUME NEW id \in shown, NEW use, NEW net, NEW mail, NEW documents, Prepare(id, use, net, mail, documents)
    PROVE  PreparedStepOK
<1> DEFINE read   == CalendarRead(use, net)
           status == PackStatus(id, read, MailOf(use, mail), documents)
<1>1. BriefStatus(id, read) = "completed" => OnAgenda(id)
  BY SuggestedIsHeld DEF BriefStatus, Selected
<1>2. status \in Done139 => BriefStatus(id, read) = "completed"
  BY DEF PackStatus, BriefStatus, Done139
<1>3. /\ given' = given \cup {Pack(id, status, now)}
      /\ proposed' = proposed \cup BriefProposal(id, BriefStatus(id, read))
  BY DEF Prepare
<1>4. Pack(id, status, now).meeting = id /\ Pack(id, status, now).status = status
  BY DEF Pack
<1>5. \A p \in BriefProposal(id, BriefStatus(id, read)) :
          BriefStatus(id, read) = "completed" /\ p.about = id.event
  BY DEF BriefProposal, Proposal
<1> HIDE DEF read, status
<1> QED BY <1>1, <1>2, <1>3, <1>4, <1>5 DEF PreparedStepOK

LEMMA OthersPrepareNothing ==
    ASSUME [MeetingNext]_meetingVars,
           ~ \E use \in Resolutions, net \in Nets, id \in shown, mail \in MailReads \cup {<< >>},
                documents \in {"none", "context", "blocked"} : Prepare(id, use, net, mail, documents)
    PROVE  PreparedStepOK
<1>1. CASE given' = given /\ proposed' = proposed
  BY <1>1 DEF PreparedStepOK
<1>2. ASSUME NEW use, NEW net, ReadThread(use, net)
      PROVE  PreparedStepOK
  <2> DEFINE status == IF use.access = 0 THEN "missing_access_token"
                       ELSE IF net = "answers" THEN "completed_with_messages"
                       ELSE "gmail_thread_read_failed_closed"
  <2>1. status \notin Done139
    BY DEF Done139
  <2>2. proposed' = proposed /\ \E m : given' = given \cup {Pack(m, status, now)}
    BY <1>2 DEF ReadThread
  <2> HIDE DEF status
  <2> QED BY <2>1, <2>2 DEF PreparedStepOK, Pack
<1>3. ASSUME NEW use, NEW net, NEW mail, ProposeContext(use, net, mail)
      PROVE  PreparedStepOK
  <2>1. given' = given /\ proposed' = proposed \cup ContextProposals(CalendarRead(use, net), mail)
    BY <1>3 DEF ProposeContext
  <2>2. \A p \in ContextProposals(CalendarRead(use, net), mail) : p.source # "brief"
    BY DEF ContextProposals, Proposal
  <2> QED BY <2>1, <2>2 DEF PreparedStepOK
<1> QED BY <1>1, <1>2, <1>3
        DEF MeetingNext, meetingVars, PassSecond, EditAgenda, Connect, Suggest, DecideProposal

\* A meeting is prepared, and a memory proposed of it, only while the calendar holds it,
\* for any calendars and any limits of the scan (build_suggested_meeting_brief_request).
THEOREM OnlyTheHeldIsPrepared == MeetingSpec => PreparedFromTheCalendar
<1>1. ASSUME [MeetingNext]_meetingVars PROVE PreparedStepOK
  BY <1>1, PrepareShows, OthersPrepareNothing
<1>2. ASSUME [MeetingNext]_meetingVars
      PROVE  [/\ \A p \in given' \ given :
                    p.status \in {"completed", "completed_with_context", "completed_with_blocked_sources"}
                      => OnAgenda(p.meeting)
              /\ \A p \in proposed' \ proposed :
                    p.source = "brief" => \E id \in shown : id.event = p.about /\ OnAgenda(id)]_meetingVars
  BY <1>2, <1>1 DEF PreparedStepOK, Done139
<1> QED BY <1>2, PTL DEF MeetingSpec, PreparedFromTheCalendar

-----------------------------------------------------------------------------
(* Tokens, packs and proposals *)

\* A token that is kept or used is one that was issued, and says of its expiry what was
\* answered or nothing.
TokenOK(record, tokens) ==
    /\ record.access \in {0} \cup DOMAIN tokens
    /\ record.access # 0 => record.expires \in {tokens[record.access], Never}

GivenOK ==
    /\ \A t \in told : t[1] \in proposed
    /\ \A p \in proposed : p.source = "brief" => \E g \in given : g.meeting.event = p.about

MeetingInv ==
    /\ now \in 0 .. LastSecond /\ agenda \in Agendas /\ commands \in 0 .. MaxCommands
    /\ IsSequence(issued) /\ TokenOK(file, issued) /\ TokenOK(asked, issued) /\ GivenOK

LEMMA MeetingInvTypes == MeetingInv => MeetingTypeOK
BY DEF MeetingInv, MeetingTypeOK, TokenOK, GivenOK

LEMMA MeetingStart == MeetingInit => MeetingInv
<1>1. IsSequence(<<Life>>)
  BY DEF IsSequence, Range
<1>2. NoFile.access = 0 /\ 0 \in 0 .. LastSecond /\ 0 \in 0 .. MaxCommands
  BY MeetingsAssumption DEF NoFile
<1> QED BY <1>1, <1>2 DEF MeetingInit, MeetingInv, TokenOK, GivenOK

\* What the endpoint answers is one token more; the tokens before it stay.
LEMMA IssuedAgain ==
    ASSUME MeetingInv, NEW answer, NEW prior, NEW grant
    PROVE  LET after == Append(issued, now + Life)
           IN  /\ IsSequence(after) /\ TokenOK(TokenRecord(answer, prior, grant), after)
               /\ \A record : TokenOK(record, issued) => TokenOK(record, after)
<1> DEFINE after == Append(issued, now + Life)
           record == TokenRecord(answer, prior, grant)
<1>1. /\ record.access = Len(issued) + 1
      /\ record.expires \in {now + Life, Never}
  BY DEF TokenRecord
<1>2. /\ IsSequence(after) /\ Len(issued) \in Nat /\ DOMAIN issued = 1 .. Len(issued)
      /\ DOMAIN after = 1 .. Len(issued) + 1 /\ after[Len(issued) + 1] = now + Life
      /\ \A k \in DOMAIN issued : after[k] = issued[k]
  BY Appended DEF MeetingInv
<1> HIDE DEF after, record
<1>3. TokenOK(record, after)
  BY <1>1, <1>2 DEF TokenOK
<1>4. \A r : TokenOK(r, issued) => TokenOK(r, after)
  BY <1>2 DEF TokenOK
<1> QED BY <1>2, <1>3, <1>4 DEF after, record

\* A command leaves the token file and the tokens issued alone, or adds the one it is given.
LEMMA ResolutionIssues ==
    ASSUME NEW use \in Resolutions
    PROVE  \/ use.saved = file /\ use.issued = issued
           \/ \E answer \in Answers200 :
                  use.saved = RefreshedFrom(answer) /\ use.issued = Append(issued, now + Life)
<1> DEFINE none == [access |-> 0, saved |-> file, issued |-> issued]
           refreshed(answer) == [access |-> Len(issued) + 1, saved |-> RefreshedFrom(answer),
                                 issued |-> Append(issued, now + Life)]
<1>1. /\ none.saved = file /\ none.issued = issued
      /\ \A a : [none EXCEPT !.access = a].saved = file /\ [none EXCEPT !.access = a].issued = issued
  OBVIOUS
<1>2. \A answer : /\ refreshed(answer).saved = RefreshedFrom(answer)
                  /\ refreshed(answer).issued = Append(issued, now + Life)
  OBVIOUS
<1>3. use \in IF direct THEN {[none EXCEPT !.access = 1]}
              ELSE IF file = NoFile THEN {none}
              ELSE IF FreshToken(file) THEN {[none EXCEPT !.access = file.access]}
              ELSE IF file.refresh = "none" THEN {none}
              ELSE {none} \cup {refreshed(answer) : answer \in Answers200}
  BY DEF Resolutions
<1> HIDE DEF none, refreshed
<1> QED BY <1>1, <1>2, <1>3

LEMMA ResolveTyped ==
    ASSUME MeetingInv, NEW use, Resolve(use)
    PROVE  /\ now' \in 0 .. LastSecond /\ agenda' \in Agendas /\ commands' \in 0 .. MaxCommands
           /\ IsSequence(issued') /\ TokenOK(file', issued') /\ TokenOK(asked', issued')
<1>1. /\ use \in Resolutions /\ file' = use.saved /\ issued' = use.issued /\ now' = now
      /\ agenda' = agenda /\ commands < MaxCommands /\ commands' = commands + 1
      /\ asked' \in {asked, NoFile, use.saved}
  BY DEF Resolve
<1>2. IsSequence(issued') /\ TokenOK(file', issued') /\ TokenOK(asked, issued')
  <2>1. CASE use.saved = file /\ use.issued = issued
    BY <1>1, <2>1 DEF MeetingInv
  <2>2. CASE \E answer \in Answers200 :
                 use.saved = RefreshedFrom(answer) /\ use.issued = Append(issued, now + Life)
    BY <1>1, <2>2, IssuedAgain DEF MeetingInv, RefreshedFrom
  <2> QED BY <1>1, <2>1, <2>2, ResolutionIssues
<1>3. TokenOK(NoFile, issued')
  BY DEF TokenOK, NoFile
<1>4. commands' \in 0 .. MaxCommands
  BY <1>1, MeetingsAssumption DEF MeetingInv
<1> QED BY <1>1, <1>2, <1>3, <1>4 DEF MeetingInv

\* A memory is proposed from a brief that is given.
LEMMA PrepareTyped ==
    ASSUME MeetingInv, NEW id, NEW use, NEW net, NEW mail, NEW documents,
           Prepare(id, use, net, mail, documents)
    PROVE  GivenOK'
<1> DEFINE read == CalendarRead(use, net)
           made == Pack(id, PackStatus(id, read, MailOf(use, mail), documents), now)
<1>1. /\ given' = given \cup {made} /\ told' = told
      /\ proposed' = proposed \cup BriefProposal(id, BriefStatus(id, read))
  BY DEF Prepare
<1>2. made.meeting = id
  BY DEF Pack
<1> HIDE DEF made, read
<1>3. \A p \in BriefProposal(id, BriefStatus(id, read)) : p.about = id.event
  BY DEF BriefProposal, Proposal
<1> QED BY <1>1, <1>2, <1>3 DEF MeetingInv, GivenOK

\* The scan of the calendar and the mail proposes nothing in the name of a brief.
LEMMA ProposeTyped ==
    ASSUME MeetingInv, NEW use, NEW net, NEW mail, ProposeContext(use, net, mail)
    PROVE  GivenOK'
<1>1. /\ given' = given /\ told' = told
      /\ proposed' = proposed \cup ContextProposals(CalendarRead(use, net), mail)
  BY DEF ProposeContext
<1>2. \A p \in ContextProposals(CalendarRead(use, net), mail) : p.source # "brief"
  BY DEF ContextProposals, Proposal
<1> QED BY <1>1, <1>2 DEF MeetingInv, GivenOK

LEMMA MeetingKeeps == ASSUME MeetingInv, [MeetingNext]_meetingVars PROVE MeetingInv'
<1>1. CASE UNCHANGED meetingVars
  BY <1>1 DEF meetingVars, MeetingInv, TokenOK, GivenOK, Never
<1>2. CASE PassSecond
  BY <1>2, MeetingsAssumption DEF PassSecond, MeetingInv, TokenOK, GivenOK, Never
<1>3. CASE \E events \in Agendas : EditAgenda(events)
  BY <1>3 DEF EditAgenda, MeetingInv, TokenOK, GivenOK, Never
<1>4. ASSUME NEW answer \in Answers200, Connect(answer) PROVE MeetingInv'
  <2>1. /\ file' = TokenRecord(answer, "none", file.grant + 1) /\ issued' = Append(issued, now + Life)
        /\ UNCHANGED <<now, agenda, asked, commands, given, proposed, told>>
    BY <1>4 DEF Connect
  <2>2. IsSequence(issued') /\ TokenOK(file', issued') /\ TokenOK(asked', issued')
    BY <2>1, IssuedAgain DEF MeetingInv
  <2> QED BY <2>1, <2>2 DEF MeetingInv, GivenOK
<1>5. ASSUME NEW use, NEW net, Suggest(use, net) \/ ReadThread(use, net) PROVE MeetingInv'
  <2>1. Resolve(use) /\ UNCHANGED <<proposed, told>> /\ given \subseteq given'
    BY <1>5 DEF Suggest, ReadThread
  <2>2. GivenOK'
    BY <2>1 DEF MeetingInv, GivenOK
  <2> QED BY <2>1, <2>2, ResolveTyped DEF MeetingInv
<1>6. ASSUME NEW use, NEW net, NEW mail, ProposeContext(use, net, mail) PROVE MeetingInv'
  BY <1>6, ProposeTyped, ResolveTyped DEF ProposeContext, MeetingInv
<1>7. ASSUME NEW id, NEW use, NEW net, NEW mail, NEW documents, Prepare(id, use, net, mail, documents)
      PROVE  MeetingInv'
  BY <1>7, PrepareTyped, ResolveTyped DEF Prepare, MeetingInv
<1>8. ASSUME NEW p \in proposed, NEW choice, DecideProposal(p, choice) PROVE MeetingInv'
  <2>1. /\ told' = told \cup {<<p, choice>>} /\ commands < MaxCommands /\ commands' = commands + 1
        /\ UNCHANGED <<now, file, issued, agenda, asked, given, proposed>>
    BY <1>8 DEF DecideProposal
  <2>2. GivenOK'
    BY <2>1 DEF MeetingInv, GivenOK
  <2> QED BY <2>1, <2>2, MeetingsAssumption DEF MeetingInv, TokenOK, Never
<1> QED BY <1>1, <1>2, <1>3, <1>4, <1>5, <1>6, <1>7, <1>8 DEF MeetingNext

\* The preparation of meetings keeps its types, for any calendars, lifetimes and limits:
\* every token kept or used was issued, what the owner is asked about was proposed, and a
\* memory proposed of a brief belongs to a pack he was given.
THEOREM MeetingsTyped == MeetingSpec => []MeetingTypeOK
BY MeetingStart, MeetingKeeps, MeetingInvTypes, PTL DEF MeetingSpec

-----------------------------------------------------------------------------
(* The ledgers of the pilot: they only grow, so what was counted stays.  The *)
(* one thing that must be known of them is that every learning has a rank;   *)
(* then one of the first rank is never given up for another of its identity. *)

Grown(ledger, after) ==
    /\ DOMAIN ledger \subseteq DOMAIN after
    /\ \A k \in DOMAIN ledger : after[k] = ledger[k]

AllGrow ==
    /\ Grown(feedback, feedback') /\ Grown(issues, issues') /\ Grown(incidents, incidents')
    /\ packs \subseteq packs'

Categories == {"confusing", "wrong_output", "missing_context", "general"}

Priorities == {"P0", "P1", "P2", "P3"}

LedgersOK ==
    /\ IsSequence(feedback) /\ IsSequence(outcomes) /\ IsSequence(issues)
    /\ IsSequence(incidents) /\ IsSequence(usage) /\ IsSequence(activations)
    /\ \A k \in DOMAIN feedback : feedback[k].tag \in Tags /\ feedback[k].type = ItemType(feedback[k].item)
    /\ \A k \in DOMAIN issues : issues[k].severity \in Severities /\ issues[k].category \in Categories
    /\ \A k \in DOMAIN outcomes : outcomes[k] \in Outcomes
    /\ \A k \in DOMAIN incidents : incidents[k] \in Incidents
    /\ \A k \in DOMAIN usage : usage[k] \in Usage
    /\ \A k \in DOMAIN activations : activations[k].user \in PilotUsers
    /\ \A p \in provisioned \cup exits : p.user \in PilotUsers

PackOK(pack) ==
    /\ \A fix \in pack.fixes : fix[1] \in Priorities
    /\ <<"P0", "safety">> \in pack.fixes => \E i \in OwnRecords(incidents) : i.user = pack.user

PilotInv == LedgersOK /\ \A pack \in packs : PackOK(pack)

Learnings ==
    LearningsFromSafety \cup LearningsFromIssues \cup LearningsFromFeedback
      \cup LearningsFromReviews \cup LearningsFromUsage

LEMMA RankIs ==
    ASSUME NEW p \in Priorities, NEW q \in Priorities
    PROVE  /\ Rank[p] \in Nat /\ Rank["P0"] <= Rank[p]
           /\ Rank[p] <= Rank[q] /\ Rank[q] <= Rank[p] => p = q
<1>1. Rank["P0"] = 0 /\ Rank["P1"] = 1 /\ Rank["P2"] = 2 /\ Rank["P3"] = 3
  BY DEF Rank
<1> QED BY <1>1 DEF Priorities

LEMMA LearningsRanked ==
    ASSUME PilotInv, NEW item \in Learnings
    PROVE  item.priority \in Priorities /\ item = [id |-> item.id, priority |-> item.priority]
<1>1. CASE item \in LearningsFromSafety
  BY <1>1 DEF LearningsFromSafety, Priorities
<1>2. CASE item \in LearningsFromIssues
  <2> DEFINE priority == [critical |-> "P0", high |-> "P0", medium |-> "P1", low |-> "P2"]
  <2>1. PICK i \in OwnRecords(issues) : item = [id |-> <<"issue", i.category, i.item>>, priority |-> priority[i.severity]]
    BY <1>2 DEF LearningsFromIssues
  <2>2. i.severity \in Severities
    BY <2>1 DEF OwnRecords, Own, PilotInv, LedgersOK
  <2>3. priority[i.severity] \in Priorities
    BY <2>2 DEF Severities, Priorities
  <2> HIDE DEF priority
  <2> QED BY <2>1, <2>3
<1>3. CASE item \in LearningsFromFeedback
  BY <1>3 DEF LearningsFromFeedback, Priorities
<1>4. CASE item \in LearningsFromReviews
  <2>1. PICK pack \in packs : \E fix \in pack.fixes :
            item = [id |-> <<"review", fix[2], pack.user>>, priority |-> fix[1]]
    BY <1>4 DEF LearningsFromReviews
  <2>2. \A fix \in pack.fixes : fix[1] \in Priorities
    BY <2>1 DEF PilotInv, PackOK
  <2> QED BY <2>1, <2>2
<1>5. CASE item \in LearningsFromUsage
  BY <1>5 DEF LearningsFromUsage, Priorities
<1> QED BY <1>1, <1>2, <1>3, <1>4, <1>5 DEF Learnings

\* What is urgent is not given up for another learning of the same identity.
LEMMA UrgentIs == PilotInv => UrgentLearnings = {item \in Learnings : item.priority = "P0"}
<1> SUFFICES ASSUME PilotInv PROVE UrgentLearnings = {item \in Learnings : item.priority = "P0"}
  OBVIOUS
<1>1. UrgentLearnings = {item \in Deduped(Learnings) : item.priority = "P0"}
  BY DEF UrgentLearnings, LearningQueue, Learnings
<1>2. \A item \in Learnings : item.priority = "P0" => item \in Deduped(Learnings)
  <2> SUFFICES ASSUME NEW item \in Learnings, item.priority = "P0", NEW other \in Learnings
               PROVE  Rank[item.priority] <= Rank[other.priority]
    BY DEF Deduped
  <2>1. other.priority \in Priorities /\ "P0" \in Priorities
    BY LearningsRanked DEF Priorities
  <2> QED BY <2>1, RankIs
<1> QED BY <1>1, <1>2 DEF Deduped

\* Each identity once.
LEMMA QueueOnce ==
    ASSUME PilotInv
    PROVE  \A item, other \in LearningQueue : item.id = other.id => item = other
<1> SUFFICES ASSUME NEW item \in Deduped(Learnings), NEW other \in Deduped(Learnings), item.id = other.id
             PROVE  item = other
  BY DEF LearningQueue, Learnings
<1>1. item \in Learnings /\ other \in Learnings
  BY DEF Deduped
<1>2. Rank[item.priority] <= Rank[other.priority] /\ Rank[other.priority] <= Rank[item.priority]
  BY <1>1 DEF Deduped
<1>3. item.priority \in Priorities /\ other.priority \in Priorities
  BY <1>1, LearningsRanked
<1>4. item.priority = other.priority
  BY <1>2, <1>3, RankIs
<1>5. item = [id |-> item.id, priority |-> item.priority] /\ other = [id |-> other.id, priority |-> other.priority]
  BY <1>1, LearningsRanked
<1> QED BY <1>4, <1>5

\* One of the checks is that nothing urgent has been learned.
LEMMA ReadyMeansCalm == GateDecision = "READY_FOR_PAID_PILOT" => UrgentLearnings = {}
<1> SUFFICES ASSUME GateDecision = "READY_FOR_PAID_PILOT" PROVE UrgentLearnings = {}
  OBVIOUS
<1>1. "fail" \notin GateChecks /\ "watch" \notin GateChecks
  BY DEF GateDecision
<1> DEFINE n == Cardinality({k \in Own(incidents) : incidents[k].severity \in {"high", "critical"}})
<1>2. SafetyCheck(n) \in GateChecks
  BY Zenon DEF GateChecks, Count
<1> HIDE DEF n
<1> QED BY <1>1, <1>2 DEF SafetyCheck, Check

LEMMA NotPaidOverHarm == PilotInv => PaidOnlyWithoutHarm
<1> SUFFICES ASSUME PilotInv, GateDecision = "READY_FOR_PAID_PILOT" PROVE PaidOnlyWithoutHarm
  BY DEF PaidOnlyWithoutHarm
<1>1. \A item \in Learnings : item.priority # "P0"
  BY ReadyMeansCalm, UrgentIs
<1>2. OwnRecords(incidents) = {}
  <2>1. \A i \in OwnRecords(incidents) : [id |-> <<"safety", i.type, 0>>, priority |-> "P0"] \in Learnings
    BY DEF Learnings, LearningsFromSafety
  <2> QED BY <1>1, <2>1
<1>3. Own(incidents) = {}
  BY <1>2 DEF OwnRecords
<1>4. \A i \in OwnRecords(issues) : i.severity \notin {"high", "critical"}
  <2> DEFINE priority == [critical |-> "P0", high |-> "P0", medium |-> "P1", low |-> "P2"]
  <2>1. \A i \in OwnRecords(issues) :
            [id |-> <<"issue", i.category, i.item>>, priority |-> priority[i.severity]] \in Learnings
    BY DEF Learnings, LearningsFromIssues
  <2>2. priority["critical"] = "P0" /\ priority["high"] = "P0"
    OBVIOUS
  <2> HIDE DEF priority
  <2> QED BY <1>1, <2>1, <2>2
<1>5. \A pack \in packs : <<"P0", "safety">> \notin pack.fixes
  <2> SUFFICES ASSUME NEW pack \in packs, <<"P0", "safety">> \in pack.fixes PROVE FALSE
    OBVIOUS
  <2> DEFINE fix == <<"P0", "safety">>
             item == [id |-> <<"review", fix[2], pack.user>>, priority |-> fix[1]]
  <2>1. item.priority = "P0"
    OBVIOUS
  <2>2. fix \in pack.fixes
    OBVIOUS
  <2> HIDE DEF fix
  <2> DEFINE OfPack(p) == {[id |-> <<"review", f[2], p.user>>, priority |-> f[1]] : f \in p.fixes}
  <2>a. item \in OfPack(pack)
    BY <2>2
  <2>b. LearningsFromReviews = UNION {OfPack(p) : p \in packs}
    BY DEF LearningsFromReviews
  <2> HIDE DEF OfPack
  <2>3. item \in Learnings
    BY <2>a, <2>b DEF Learnings
  <2> HIDE DEF item
  <2> QED BY <1>1, <2>1, <2>3
<1>6. LogHealth = "no_local_incidents"
  BY <1>2, <1>3 DEF LogHealth
<1>7. "safety" \notin TopLearnings
  BY <1>3 DEF TopLearnings
<1> QED BY <1>4, <1>5, <1>6, <1>7 DEF PaidOnlyWithoutHarm

-----------------------------------------------------------------------------
\* What the owner has in a ledger he keeps in a longer one.
LEMMA OwnKept ==
    ASSUME NEW ledger, NEW after, Grown(ledger, after)
    PROVE  Own(ledger) \subseteq Own(after) /\ OwnRecords(ledger) \subseteq OwnRecords(after)
BY DEF Grown, Own, OwnRecords

LEMMA Captured ==
    ASSUME NEW ledger, IsSequence(ledger), NEW entry
    PROVE  LET after == Append(ledger, entry)
           IN  /\ IsSequence(after) /\ Grown(ledger, after)
               /\ \A k \in DOMAIN after : (k \in DOMAIN ledger /\ after[k] = ledger[k]) \/ after[k] = entry
<1> DEFINE after == Append(ledger, entry)
<1>1. /\ IsSequence(after) /\ Len(ledger) \in Nat /\ DOMAIN ledger = 1 .. Len(ledger)
      /\ DOMAIN after = 1 .. Len(ledger) + 1 /\ after[Len(ledger) + 1] = entry
      /\ \A k \in DOMAIN ledger : after[k] = ledger[k]
  BY Appended
<1> HIDE DEF after
<1>2. Grown(ledger, after)
  BY <1>1 DEF Grown
<1>3. ASSUME NEW k \in DOMAIN after PROVE (k \in DOMAIN ledger /\ after[k] = ledger[k]) \/ after[k] = entry
  BY <1>1, <1>3
<1> QED BY <1>1, <1>2, <1>3 DEF after

LEMMA FixesRanked ==
    ASSUME NEW user
    PROVE  /\ \A fix \in RecommendedFixes(user) : fix[1] \in Priorities
           /\ <<"P0", "safety">> \in RecommendedFixes(user) => \E i \in OwnRecords(incidents) : i.user = user
<1> DEFINE tags       == {f.tag : f \in OwnRecords(feedback)}
           categories == {i.category : i \in {j \in OwnRecords(issues) : j.user = user}}
           sources    == "missing_source" \in tags \/ "missing_context" \in categories
           quality    == tags \cap {"bad_draft", "wrong"} # {} \/ "wrong_output" \in categories
           copy       == "too_verbose" \in tags \/ "confusing" \in categories
           safety     == \E i \in OwnRecords(incidents) : i.user = user
<1>1. RecommendedFixes(user) =
          (IF sources THEN {<<"P1", "sources">>} ELSE {}) \cup (IF quality THEN {<<"P1", "quality">>} ELSE {})
            \cup (IF copy THEN {<<"P2", "copy">>} ELSE {}) \cup (IF safety THEN {<<"P0", "safety">>} ELSE {})
  BY DEF RecommendedFixes
<1> HIDE DEF sources, quality, copy
<1>2. \A fix \in RecommendedFixes(user) : fix[1] \in {"P0", "P1", "P2"}
  BY <1>1
<1>3. <<"P0", "safety">> \in RecommendedFixes(user) => safety
  BY <1>1
<1> QED BY <1>2, <1>3 DEF Priorities

LEMMA PilotStarts == PilotInit => PilotInv
<1> SUFFICES ASSUME PilotInit PROVE PilotInv
  OBVIOUS
<1>1. IsSequence(<< >>) /\ DOMAIN << >> = {}
  BY DEF IsSequence, Range
<1> QED BY <1>1 DEF PilotInit, PilotInv, LedgersOK

\* Packs stay true of ledgers that grow.
LEMMA PacksStay ==
    ASSUME \A pack \in packs : PackOK(pack), AllGrow, LedgersOK', packs' = packs
    PROVE  PilotInv'
<1>1. OwnRecords(incidents) \subseteq OwnRecords(incidents')
  BY OwnKept DEF AllGrow
<1> QED BY <1>1 DEF PilotInv, PackOK

LEMMA PilotStep == ASSUME PilotInv, [PilotNext]_pilotVars PROVE PilotInv' /\ AllGrow
<1> USE DEF PilotInv
<1>0. Grown(feedback, feedback) /\ Grown(issues, issues) /\ Grown(incidents, incidents)
  BY DEF Grown
<1>1. CASE UNCHANGED pilotVars
  <2>1. AllGrow
    BY <1>0, <1>1 DEF pilotVars, AllGrow
  <2>2. LedgersOK' /\ packs' = packs
    BY <1>1 DEF pilotVars, LedgersOK
  <2> QED BY <2>1, <2>2, PacksStay
<1>2. ASSUME NEW f \in Feedback, CaptureFeedback(f) PROVE PilotInv' /\ AllGrow
  <2> DEFINE entry == [whose |-> f.whose, item |-> f.item, type |-> ItemType(f.item), tag |-> f.tag, day |-> f.day]
  <2>1. feedback' = Append(feedback, entry) /\ f.tag \in Tags
    BY <1>2 DEF CaptureFeedback
  <2>2. entry.tag \in Tags /\ entry.type = ItemType(entry.item)
    BY <2>1
  <2> HIDE DEF entry
  <2>3. /\ IsSequence(feedback') /\ Grown(feedback, feedback')
        /\ \A k \in DOMAIN feedback' :
               (k \in DOMAIN feedback /\ feedback'[k] = feedback[k]) \/ feedback'[k] = entry
    BY <2>1, Captured DEF LedgersOK
  <2>4. AllGrow /\ packs' = packs
    BY <1>0, <1>2, <2>3 DEF CaptureFeedback, AllGrow
  <2>5. LedgersOK'
    BY <1>2, <2>2, <2>3 DEF CaptureFeedback, LedgersOK
  <2> QED BY <2>4, <2>5, PacksStay
<1>3. ASSUME NEW o \in Outcomes, TrackOutcome(o) PROVE PilotInv' /\ AllGrow
  <2>1. /\ IsSequence(outcomes')
        /\ \A k \in DOMAIN outcomes' :
               (k \in DOMAIN outcomes /\ outcomes'[k] = outcomes[k]) \/ outcomes'[k] = o
    BY <1>3, Captured DEF TrackOutcome, LedgersOK
  <2>2. AllGrow /\ packs' = packs
    BY <1>0, <1>3 DEF TrackOutcome, AllGrow
  <2>3. LedgersOK'
    BY <1>3, <2>1 DEF TrackOutcome, LedgersOK
  <2> QED BY <2>2, <2>3, PacksStay
<1>4. ASSUME NEW i \in Issues, CaptureIssue(i) PROVE PilotInv' /\ AllGrow
  <2> DEFINE entry == [whose |-> i.whose, user |-> i.user, category |-> Category(i.command),
                       severity |-> i.severity, item |-> i.item, day |-> i.day]
  <2>1. issues' = Append(issues, entry)
    BY <1>4 DEF CaptureIssue
  <2>2. entry.severity \in Severities /\ entry.category \in Categories
    BY LedgersAssumption DEF Category, Categories
  <2> HIDE DEF entry
  <2>3. /\ IsSequence(issues') /\ Grown(issues, issues')
        /\ \A k \in DOMAIN issues' : (k \in DOMAIN issues /\ issues'[k] = issues[k]) \/ issues'[k] = entry
    BY <2>1, Captured DEF LedgersOK
  <2>4. AllGrow /\ packs' = packs
    BY <1>0, <1>4, <2>3 DEF CaptureIssue, AllGrow
  <2>5. LedgersOK'
    BY <1>4, <2>2, <2>3 DEF CaptureIssue, LedgersOK
  <2> QED BY <2>4, <2>5, PacksStay
<1>5. ASSUME NEW i \in Incidents, LogIncident(i) PROVE PilotInv' /\ AllGrow
  <2>1. /\ IsSequence(incidents') /\ Grown(incidents, incidents')
        /\ \A k \in DOMAIN incidents' :
               (k \in DOMAIN incidents /\ incidents'[k] = incidents[k]) \/ incidents'[k] = i
    BY <1>5, Captured DEF LogIncident, LedgersOK
  <2>2. AllGrow /\ packs' = packs
    BY <1>0, <1>5, <2>1 DEF LogIncident, AllGrow
  <2>3. LedgersOK'
    BY <1>5, <2>1 DEF LogIncident, LedgersOK
  <2> QED BY <2>2, <2>3, PacksStay
<1>6. ASSUME NEW u \in Usage, RecordUsage(u) PROVE PilotInv' /\ AllGrow
  <2>1. /\ IsSequence(usage')
        /\ \A k \in DOMAIN usage' : (k \in DOMAIN usage /\ usage'[k] = usage[k]) \/ usage'[k] = u
    BY <1>6, Captured DEF RecordUsage, LedgersOK
  <2>2. AllGrow /\ packs' = packs
    BY <1>0, <1>6 DEF RecordUsage, AllGrow
  <2>3. LedgersOK'
    BY <1>6, <2>1 DEF RecordUsage, LedgersOK
  <2> QED BY <2>2, <2>3, PacksStay
<1>7. ASSUME NEW user \in PilotUsers, Activate(user) PROVE PilotInv' /\ AllGrow
  <2> DEFINE entry == [whose |-> "owner", user |-> user, consent |-> "ready_local"]
  <2>1. /\ IsSequence(activations')
        /\ \A k \in DOMAIN activations' :
               (k \in DOMAIN activations /\ activations'[k] = activations[k]) \/ activations'[k] = entry
    BY <1>7, Captured DEF Activate, LedgersOK
  <2>2. AllGrow /\ packs' = packs
    BY <1>0, <1>7 DEF Activate, AllGrow
  <2>3. LedgersOK'
    BY <1>7, <2>1 DEF Activate, LedgersOK
  <2> QED BY <2>2, <2>3, PacksStay
<1>8. ASSUME NEW user \in PilotUsers, \/ \E by \in PilotUsers : Provision(user, by)
                                      \/ \E what : LeavePilot(user, what)
      PROVE  PilotInv' /\ AllGrow
  <2>1. \A p \in provisioned' \cup exits' : p.user \in PilotUsers
    BY <1>8 DEF Provision, LeavePilot, LedgersOK
  <2>2. UNCHANGED <<feedback, outcomes, issues, incidents, usage, activations, packs>>
    BY <1>8 DEF Provision, LeavePilot
  <2>3. AllGrow
    BY <1>0, <2>2 DEF AllGrow
  <2>4. LedgersOK'
    BY <2>1, <2>2 DEF LedgersOK
  <2> QED BY <2>2, <2>3, <2>4, PacksStay
<1>9. ASSUME NEW user \in PilotUsers, ReviewPilot(user) PROVE PilotInv' /\ AllGrow
  <2> DEFINE made == [user |-> user, fixes |-> RecommendedFixes(user)]
  <2>1. packs' = packs \cup {made}
    BY <1>9 DEF ReviewPilot
  <2>2. UNCHANGED <<feedback, outcomes, issues, incidents, usage, activations, provisioned, exits>>
    BY <1>9 DEF ReviewPilot
  <2>3. PackOK(made)
    BY FixesRanked DEF PackOK
  <2> HIDE DEF made
  <2>4. \A pack \in packs' : PackOK(pack)'
    BY <2>1, <2>2, <2>3 DEF PackOK
  <2>5. AllGrow /\ LedgersOK'
    BY <1>0, <2>1, <2>2 DEF AllGrow, LedgersOK
  <2> QED BY <2>4, <2>5
<1> QED BY <1>1, <1>2, <1>3, <1>4, <1>5, <1>6, <1>7, <1>8, <1>9 DEF PilotNext

\* What a ledger says of a suggestion.
AgainstIt(ledger, item) ==
    {k \in Own(ledger) :
        /\ ledger[k].item = item /\ ledger[k].type = "suggestion"
        /\ ledger[k].tag \in {"wrong", "noisy", "stale", "missing_source", "not_useful"}}

TagsOn(ledger, item, type) == {f.tag : f \in {g \in OwnRecords(ledger) : g.item = item /\ g.type = type}}

LEMMA SaidStays ==
    ASSUME NEW ledger, NEW after, IsSequence(ledger), IsSequence(after), Grown(ledger, after), NEW item, NEW type
    PROVE  /\ TagsOn(ledger, item, type) \subseteq TagsOn(after, item, type)
           /\ Cardinality(AgainstIt(ledger, item)) >= 2 => Cardinality(AgainstIt(after, item)) >= 2
<1>1. TagsOn(ledger, item, type) \subseteq TagsOn(after, item, type)
  <2>1. OwnRecords(ledger) \subseteq OwnRecords(after)
    BY OwnKept
  <2> QED BY <2>1 DEF TagsOn
<1>2. AgainstIt(ledger, item) \subseteq AgainstIt(after, item)
  BY DEF AgainstIt, Own, Grown
<1>3. IsFiniteSet(AgainstIt(after, item))
  <2>1. Len(after) \in Nat /\ DOMAIN after = 1 .. Len(after)
    BY DEF IsSequence
  <2>2. IsFiniteSet(1 .. Len(after))
    BY <2>1, FS_Interval
  <2>3. AgainstIt(after, item) \subseteq 1 .. Len(after)
    BY <2>1 DEF AgainstIt, Own
  <2> QED BY <2>2, <2>3, FS_Subset
<1>4. /\ Cardinality(AgainstIt(ledger, item)) \in Nat /\ Cardinality(AgainstIt(after, item)) \in Nat
      /\ Cardinality(AgainstIt(ledger, item)) <= Cardinality(AgainstIt(after, item))
  BY <1>2, <1>3, FS_Subset, FS_CardinalityType
<1> QED BY <1>1, <1>4

ReadOff(item) ==
    /\ SuggestionDecision(item) = "suppress" <=>
           \/ Cardinality(AgainstIt(feedback, item)) >= 2
           \/ TagsOn(feedback, item, "suggestion") \cap {"wrong", "stale"} # {}
    /\ PrepDecision(item) = "block_stale_prep" <=> "wrong_context" \in TagsOn(feedback, item, "prep")

LEMMA DecisionIs == \A item : ReadOff(item)
<1> SUFFICES ASSUME NEW item PROVE ReadOff(item)
  OBVIOUS
<1>1. PrepDecision(item) = "block_stale_prep" <=> "wrong_context" \in TagsOn(feedback, item, "prep")
  BY DEF PrepDecision, TagsOn
<1> DEFINE tags == TagsOn(feedback, item, "suggestion")
           n    == Cardinality(AgainstIt(feedback, item))
<1>2. SuggestionDecision(item) =
          IF n >= 2 \/ "wrong" \in tags \/ "stale" \in tags THEN "suppress"
          ELSE IF n = 1 THEN "downgrade"
          ELSE IF "useful" \in tags THEN "promote"
          ELSE "keep"
  BY DEF SuggestionDecision, Count, TagsOn, AgainstIt
<1> HIDE DEF tags, n
<1>3. SuggestionDecision(item) = "suppress" <=> n >= 2 \/ "wrong" \in tags \/ "stale" \in tags
  BY <1>2
<1> QED BY <1>1, <1>3 DEF tags, n, ReadOff

LEMMA DecisionNext == (\A item : ReadOff(item))'
BY DecisionIs, PTL

LEMMA UrgentNext == PilotInv' => (UrgentLearnings = {item \in Learnings : item.priority = "P0"})'
BY UrgentIs, PTL

StaysDecided ==
    \A f \in OwnRecords(feedback) :
        /\ SuggestionDecision(f.item) = "suppress" => SuggestionDecision(f.item)' = "suppress"
        /\ PrepDecision(f.item) = "block_stale_prep" => PrepDecision(f.item)' = "block_stale_prep"

LEMMA DecisionsStay == ASSUME PilotInv, PilotInv', AllGrow PROVE StaysDecided
<1> SUFFICES ASSUME NEW item
             PROVE  /\ SuggestionDecision(item) = "suppress" => SuggestionDecision(item)' = "suppress"
                    /\ PrepDecision(item) = "block_stale_prep" => PrepDecision(item)' = "block_stale_prep"
  BY DEF StaysDecided
<1>1. IsSequence(feedback) /\ IsSequence(feedback') /\ Grown(feedback, feedback')
  BY DEF PilotInv, LedgersOK, AllGrow
<1>2. /\ \A type : TagsOn(feedback, item, type) \subseteq TagsOn(feedback', item, type)
      /\ Cardinality(AgainstIt(feedback, item)) >= 2 => Cardinality(AgainstIt(feedback', item)) >= 2
  BY <1>1, SaidStays
<1>3. /\ SuggestionDecision(item)' = "suppress" <=>
              \/ Cardinality(AgainstIt(feedback', item)) >= 2
              \/ TagsOn(feedback', item, "suggestion") \cap {"wrong", "stale"} # {}
      /\ PrepDecision(item)' = "block_stale_prep" <=> "wrong_context" \in TagsOn(feedback', item, "prep")
  BY DecisionNext DEF ReadOff
<1> QED BY <1>2, <1>3, DecisionIs DEF ReadOff

LEMMA UrgencyStays ==
    ASSUME PilotInv, PilotInv', AllGrow
    PROVE  \A item \in UrgentLearnings : item \in UrgentLearnings'
<1> SUFFICES ASSUME NEW item \in UrgentLearnings PROVE item \in UrgentLearnings'
  OBVIOUS
<1>1. item \in Learnings /\ item.priority = "P0"
  BY UrgentIs
<1>2. UrgentLearnings' = {i \in Learnings' : i.priority = "P0"}
  BY UrgentNext
<1>3. item \in LearningsFromSafety => item \in LearningsFromSafety'
  <2>1. OwnRecords(incidents) \subseteq OwnRecords(incidents')
    BY OwnKept DEF AllGrow
  <2> QED BY <2>1 DEF LearningsFromSafety
<1>4. item \in LearningsFromIssues => item \in LearningsFromIssues'
  <2>1. OwnRecords(issues) \subseteq OwnRecords(issues')
    BY OwnKept DEF AllGrow
  <2> QED BY <2>1 DEF LearningsFromIssues
<1>5. item \in LearningsFromReviews => item \in LearningsFromReviews'
  BY DEF LearningsFromReviews, AllGrow
<1>6. item \in LearningsFromFeedback => item \in LearningsFromFeedback'
  <2>1. OwnRecords(feedback) \subseteq OwnRecords(feedback')
    BY OwnKept DEF AllGrow
  <2> QED BY <2>1 DEF LearningsFromFeedback
<1>7. item \notin LearningsFromUsage
  BY <1>1 DEF LearningsFromUsage
<1> QED BY <1>1, <1>2, <1>3, <1>4, <1>5, <1>6, <1>7 DEF Learnings

\* Harm counts and stays counted, and the pilot is never charged for over any of it, for
\* any captures in any order (paid_pilot_readiness_gate, pilot_learning_queue,
\* suggestion_quality_tuning and prep_quality_tuning).
THEOREM HarmStaysCounted == PilotSpec => HarmCounts
<1>1. PilotInv => PaidOnlyWithoutHarm
  BY NotPaidOverHarm
<1>2. ASSUME PilotInv, [PilotNext]_pilotVars PROVE PilotInv'
  BY <1>2, PilotStep
<1>3. ASSUME PilotInv, [PilotNext]_pilotVars
      PROVE  [/\ \A item \in UrgentLearnings : item \in UrgentLearnings'
              /\ \A f \in OwnRecords(feedback) :
                    /\ SuggestionDecision(f.item) = "suppress" => SuggestionDecision(f.item)' = "suppress"
                    /\ PrepDecision(f.item) = "block_stale_prep"
                         => PrepDecision(f.item)' = "block_stale_prep"]_pilotVars
  <2>1. PilotInv' /\ AllGrow
    BY <1>3, PilotStep
  <2> QED BY <1>3, <2>1, DecisionsStay, UrgencyStays DEF StaysDecided
<1> QED BY <1>1, <1>2, <1>3, PilotStarts, PTL DEF PilotSpec, HarmCounts

LEMMA PilotInvTypes == PilotInv => PilotTypeOK
<1> SUFFICES ASSUME PilotInv PROVE PilotTypeOK
  OBVIOUS
<1>1. /\ \A f \in Range(feedback) : f.tag \in Tags /\ f.type = ItemType(f.item)
      /\ \A i \in Range(issues) : i.category \in {"confusing", "wrong_output", "missing_context", "general"}
      /\ Range(outcomes) \subseteq Outcomes /\ Range(incidents) \subseteq Incidents /\ Range(usage) \subseteq Usage
      /\ \A a \in Range(activations) : a.user \in PilotUsers
  BY DEF PilotInv, LedgersOK, Range, Categories
<1> QED BY <1>1, QueueOnce DEF PilotTypeOK, PilotInv, LedgersOK, PackOK

\* A ledger holds what its stage captured, and the queue of learnings one of each
\* identity (pilot_learning_queue).
THEOREM LedgersTyped == PilotSpec => []PilotTypeOK
<1>1. ASSUME PilotInv, [PilotNext]_pilotVars PROVE PilotInv'
  BY <1>1, PilotStep
<1> QED BY <1>1, PilotStarts, PilotInvTypes, PTL DEF PilotSpec

-----------------------------------------------------------------------------
(* Drafts *)

\* The draft a confirmation names was asked for, first under that title.
AskedFor(draft, title) ==
    \E k \in DOMAIN decided :
        /\ Drafted(decided[k]) /\ DecisionKey(decided[k]) = draft /\ decided[k].title = title
        /\ \A j \in DOMAIN decided : j < k => DecisionKey(decided[j]) # draft

\* The owner approved it, in the words of ExportedAsApproved.
ApprovedAs(id, title) ==
    \E k \in DOMAIN confirmed :
        /\ ConfirmationKey(confirmed[k]) = id /\ confirmed[k].title = title
        /\ Approved178(confirmed[k])

DecidedOK ==
    IsSequence(decided) /\ \A k \in DOMAIN decided :
        decided[k].status = "recorded_local_receipt" => decided[k].suggestion \in SuggestionIds

ConfirmedOK ==
    IsSequence(confirmed) /\ \A k \in DOMAIN confirmed :
        Approved178(confirmed[k]) =>
            confirmed[k].choice = "approve" /\ AskedFor(confirmed[k].draft, confirmed[k].title)

SentOK ==
    /\ \A e \in exported : e.status = "created" => ApprovedAs(e.confirmation, e.title)
    /\ IsSequence(gmail)
    /\ \A k \in DOMAIN gmail : ApprovedAs(gmail[k].confirmation, gmail[k].title)
    /\ \A a \in answered :
           a.status = "created" => \E k \in DOMAIN gmail : gmail[k].confirmation = a.confirmation

DraftInv == DecidedOK /\ ConfirmedOK /\ SentOK

\* What was approved of a draft that was asked for is what he is shown of it.
LEMMA ApprovedWasShown ==
    ASSUME DraftInv, NEW id, NEW title, ApprovedAs(id, title)
    PROVE  \E c \in Range(confirmed) :
               /\ ConfirmationKey(c) = id /\ c.choice = "approve" /\ c.title = title
               /\ \E j \in DOMAIN decided :
                      /\ decided[j].choice = "create_draft" /\ decided[j].suggestion \in SuggestionIds
                      /\ DecisionKey(decided[j]) = c.draft /\ decided[j].title = title
                      /\ \A i \in DOMAIN decided : i < j => DecisionKey(decided[i]) # c.draft
                      /\ [draft |-> c.draft, intent |-> title, source_basis |-> decided[j].suggestion] \in Shown195
<1>1. PICK k \in DOMAIN confirmed : /\ ConfirmationKey(confirmed[k]) = id /\ confirmed[k].title = title
                                    /\ Approved178(confirmed[k])
  BY DEF ApprovedAs
<1>2. confirmed[k].choice = "approve" /\ AskedFor(confirmed[k].draft, title)
  BY <1>1 DEF DraftInv, ConfirmedOK
<1>3. PICK j \in DOMAIN decided : /\ Drafted(decided[j]) /\ DecisionKey(decided[j]) = confirmed[k].draft
                                  /\ decided[j].title = title
                                  /\ \A i \in DOMAIN decided : i < j => DecisionKey(decided[i]) # confirmed[k].draft
  BY <1>2 DEF AskedFor
<1>4. decided[j].choice = "create_draft" /\ decided[j].suggestion \in SuggestionIds
  BY <1>3 DEF Drafted, DraftInv, DecidedOK
<1>5. j \in DOMAIN Queue /\ Queue[j] = DraftOf(decided[j])
  BY <1>3 DEF Queue
<1>6. Quality(DraftOf(decided[j])) \in Shown195
  BY <1>5 DEF Shown195, Range
<1>7. Quality(DraftOf(decided[j]))
        = [draft |-> confirmed[k].draft, intent |-> title, source_basis |-> decided[j].suggestion]
  BY <1>3 DEF Quality, DraftOf
<1>8. confirmed[k] \in Range(confirmed)
  BY DEF Range
<1>9. \E i \in DOMAIN decided :
          /\ decided[i].choice = "create_draft" /\ decided[i].suggestion \in SuggestionIds
          /\ DecisionKey(decided[i]) = confirmed[k].draft /\ decided[i].title = title
          /\ \A h \in DOMAIN decided : h < i => DecisionKey(decided[h]) # confirmed[k].draft
          /\ [draft |-> confirmed[k].draft, intent |-> title, source_basis |-> decided[i].suggestion] \in Shown195
  BY <1>3, <1>4, <1>6, <1>7
<1> QED BY <1>1, <1>2, <1>8, <1>9

LEMMA DraftInvApproved == DraftInv => ExportedAsApproved
<1> SUFFICES ASSUME DraftInv PROVE ExportedAsApproved
  OBVIOUS
<1>1. \A g \in Range(gmail) : ApprovedAs(g.confirmation, g.title)
  BY DEF DraftInv, SentOK, Range
<1>2. \A e \in exported : e.status = "created" => ApprovedAs(e.confirmation, e.title)
  BY DEF DraftInv, SentOK
<1>3. \A a \in answered : a.status = "created" => \E g \in Range(gmail) : g.confirmation = a.confirmation
  BY DEF DraftInv, SentOK, Range
<1> QED BY <1>1, <1>2, <1>3, ApprovedWasShown DEF ExportedAsApproved

-----------------------------------------------------------------------------
LEMMA FirstIsOne ==
    ASSUME NEW places, places \subseteq Nat, places # {}
    PROVE  First(places) \in places /\ \A j \in places : First(places) <= j
BY Least DEF First

\* A decision that is there stays, and a draft with it.
LEMMA DecideKeeps ==
    ASSUME DraftInv, NEW id \in SuggestionIds \cup {<< >>}, NEW choice, Decide172(id, choice)
    PROVE  DraftInv'
<1>1. PICK title : decided' = Append(decided, [suggestion |-> id, choice |-> choice,
                                               status |-> DecisionStatus172(id), title |-> title])
  BY DEF Decide172
<1> DEFINE d == [suggestion |-> id, choice |-> choice, status |-> DecisionStatus172(id), title |-> title]
<1>2. d.suggestion = id /\ d.status = DecisionStatus172(id)
  OBVIOUS
<1>3. d.status = "recorded_local_receipt" => d.suggestion \in SuggestionIds
  BY <1>2 DEF DecisionStatus172
<1> HIDE DEF d
<1>4. decided' = Append(decided, d)
  BY <1>1 DEF d
<1>5. /\ IsSequence(decided') /\ Len(decided) \in Nat /\ DOMAIN decided = 1 .. Len(decided)
      /\ DOMAIN decided' = 1 .. Len(decided) + 1 /\ decided'[Len(decided) + 1] = d
      /\ \A k \in DOMAIN decided : decided'[k] = decided[k]
  BY <1>4, Appended DEF DraftInv, DecidedOK
<1>6. UNCHANGED <<confirmed, exported, answered, gmail>>
  BY DEF Decide172
<1>7. DecidedOK'
  BY <1>3, <1>5 DEF DraftInv, DecidedOK
<1>8. \A draft, t : AskedFor(draft, t) => AskedFor(draft, t)'
  <2>1. ASSUME NEW k \in DOMAIN decided, NEW j \in DOMAIN decided', j < k PROVE j \in DOMAIN decided
    BY <1>5, <2>1
  <2>2. SUFFICES ASSUME NEW draft, NEW t, AskedFor(draft, t) PROVE AskedFor(draft, t)'
    OBVIOUS
  <2>3. PICK k \in DOMAIN decided : /\ Drafted(decided[k]) /\ DecisionKey(decided[k]) = draft
                                    /\ decided[k].title = t
                                    /\ \A j \in DOMAIN decided : j < k => DecisionKey(decided[j]) # draft
    BY <2>2 DEF AskedFor
  <2>4. k \in DOMAIN decided' /\ decided'[k] = decided[k]
    BY <1>5
  <2>5. \A j \in DOMAIN decided' : j < k => DecisionKey(decided'[j]) # draft
    BY <1>5, <2>1, <2>3
  <2> QED BY <2>3, <2>4, <2>5 DEF AskedFor, Drafted, DecisionKey
<1>9. ConfirmedOK'
  BY <1>6, <1>8 DEF DraftInv, ConfirmedOK
<1>10. SentOK'
  BY <1>6 DEF DraftInv, SentOK, ApprovedAs
<1> QED BY <1>7, <1>9, <1>10 DEF DraftInv

\* Only an approval of a draft that is there is one.
LEMMA ConfirmKeeps ==
    ASSUME DraftInv, NEW id, NEW choice, NEW text, Confirm(id, choice, text)
    PROVE  DraftInv'
<1> DEFINE title == IF id = << >> \/ DraftsNamed(id) = {} THEN "" ELSE FirstDraft(id).title
           c == [draft |-> id, choice |-> choice, status |-> ConfirmationStatus(id, choice, text),
                 text |-> text, title |-> title]
<1>1. confirmed' = Append(confirmed, c) /\ UNCHANGED <<decided, exported, answered, gmail>>
  BY DEF Confirm
<1>2. /\ c.draft = id /\ c.choice = choice /\ c.title = title
      /\ c.status = ConfirmationStatus(id, choice, text)
  OBVIOUS
<1>3. ASSUME Approved178(c) PROVE c.choice = "approve" /\ AskedFor(id, c.title)
  <2>1. /\ id # << >> /\ DraftsNamed(id) # {} /\ choice = "approve"
    <3> HIDE DEF c
    <3> QED BY <1>2, <1>3 DEF Approved178, ConfirmationStatus
  <2>2. DraftsNamed(id) \subseteq Nat
    <3>1. DOMAIN decided \subseteq Nat
      BY Appended DEF DraftInv, DecidedOK
    <3> QED BY <3>1 DEF DraftsNamed, Queue
  <2>3. First(DraftsNamed(id)) \in DraftsNamed(id)
    BY <2>1, <2>2, FirstIsOne
  <2> DEFINE k == First(DraftsNamed(id))
  <2>4. /\ k \in DOMAIN decided /\ Drafted(decided[k]) /\ FirstDraft(id) = DraftOf(decided[k])
        /\ DraftOf(decided[k]).draft = id
    BY <2>3 DEF DraftsNamed, FirstDraft, Queue
  <2>5. DecisionKey(decided[k]) = id /\ FirstDraft(id).title = decided[k].title
    BY <2>4 DEF DraftOf
  <2>6. c.title = decided[k].title
    BY <1>2, <2>1, <2>5
  <2>7. ASSUME NEW j \in DOMAIN decided, j < k PROVE DecisionKey(decided[j]) # id
    <3>1. SUFFICES ASSUME DecisionKey(decided[j]) = id PROVE FALSE
      OBVIOUS
    <3>2. Drafted(decided[j])
      BY <2>4, <2>5, <3>1 DEF DecisionKey, Drafted
    <3>3. j \in DraftsNamed(id)
      BY <3>1, <3>2 DEF DraftsNamed, Queue, DraftOf
    <3>4. k <= j /\ j \in Nat /\ k \in Nat
      BY <2>1, <2>2, <2>3, <3>3, FirstIsOne
    <3> QED BY <2>7, <3>4
  <2> QED BY <1>2, <2>1, <2>4, <2>5, <2>6, <2>7 DEF AskedFor
<1> HIDE DEF c
<1>4. /\ IsSequence(confirmed') /\ Len(confirmed) \in Nat /\ DOMAIN confirmed = 1 .. Len(confirmed)
      /\ DOMAIN confirmed' = 1 .. Len(confirmed) + 1 /\ confirmed'[Len(confirmed) + 1] = c
      /\ \A k \in DOMAIN confirmed : confirmed'[k] = confirmed[k]
  BY <1>1, Appended DEF DraftInv, ConfirmedOK
<1>5. DecidedOK'
  BY <1>1 DEF DraftInv, DecidedOK
<1>6. \A draft, t : AskedFor(draft, t) => AskedFor(draft, t)'
  BY <1>1 DEF AskedFor
<1>7. ConfirmedOK'
  <2>1. ASSUME NEW k \in DOMAIN confirmed', Approved178(confirmed'[k])
        PROVE  confirmed'[k].choice = "approve" /\ AskedFor(confirmed'[k].draft, confirmed'[k].title)
    <3>1. CASE k = Len(confirmed) + 1
      BY <1>2, <1>3, <1>4, <2>1, <3>1
    <3>2. CASE k # Len(confirmed) + 1
      <4>1. k \in DOMAIN confirmed
        BY <1>4, <3>2
      <4> QED BY <1>4, <2>1, <4>1 DEF DraftInv, ConfirmedOK
    <3> QED BY <3>1, <3>2
  <2>2. \A k \in DOMAIN confirmed' : Approved178(confirmed'[k]) =>
            confirmed'[k].choice = "approve" /\ AskedFor(confirmed[k].draft, confirmed[k].title)'
    BY <1>1, <2>1 DEF AskedFor
  <2> QED BY <1>4, <2>2 DEF ConfirmedOK, Approved178
<1>8. \A i, t : ApprovedAs(i, t) => ApprovedAs(i, t)'
  BY <1>4 DEF ApprovedAs, Approved178, ConfirmationKey
<1>9. SentOK'
  BY <1>1, <1>8 DEF DraftInv, SentOK
<1> QED BY <1>5, <1>7, <1>9 DEF DraftInv

\* Nothing is exported but what the named confirmation approved.
LEMMA CreatedWasApproved ==
    ASSUME DraftInv, NEW id, ExportStatus(id) = "created"
    PROVE  ApprovedAs(id, FirstConfirmation(id).title)
<1>1. ConfirmationsNamed(id) # {} /\ Approved178(FirstConfirmation(id))
  BY DEF ExportStatus
<1>2. ConfirmationsNamed(id) \subseteq Nat
  <2>1. DOMAIN confirmed \subseteq Nat
    BY Appended DEF DraftInv, ConfirmedOK
  <2> QED BY <2>1 DEF ConfirmationsNamed
<1>3. First(ConfirmationsNamed(id)) \in ConfirmationsNamed(id)
  BY <1>1, <1>2, FirstIsOne
<1> QED BY <1>1, <1>3 DEF FirstConfirmation, ConfirmationsNamed, ApprovedAs

LEMMA ExportKeeps ==
    ASSUME DraftInv, NEW id, NEW format, Export(id, format)
    PROVE  DraftInv'
<1> DEFINE e == [confirmation |-> id, format |-> format, status |-> ExportStatus(id),
                 title |-> IF ExportStatus(id) = "created" THEN FirstConfirmation(id).title ELSE ""]
<1>1. exported' = exported \cup {e} /\ UNCHANGED <<decided, confirmed, answered, gmail>>
  BY DEF Export
<1>2. /\ e.confirmation = id /\ e.status = ExportStatus(id)
      /\ e.title = IF ExportStatus(id) = "created" THEN FirstConfirmation(id).title ELSE ""
  OBVIOUS
<1> HIDE DEF e
<1>3. e.status = "created" => ApprovedAs(e.confirmation, e.title)
  BY <1>2, CreatedWasApproved
<1>4. DecidedOK' /\ ConfirmedOK'
  BY <1>1 DEF DraftInv, DecidedOK, ConfirmedOK, AskedFor
<1>5. \A i, t : ApprovedAs(i, t) => ApprovedAs(i, t)'
  BY <1>1 DEF ApprovedAs
<1>6. SentOK'
  BY <1>1, <1>3, <1>5 DEF DraftInv, SentOK
<1> QED BY <1>4, <1>6 DEF DraftInv

\* The answer says that there is a draft only where Gmail was reached.
LEMMA CreateKeeps ==
    ASSUME DraftInv, NEW id, NEW outcome, CreateGmailDraft(id, outcome)
    PROVE  DraftInv'
<1> DEFINE reached == ExportStatus(id) = "created" /\ outcome \in {"created", "lost", "noid"}
           a == [confirmation |-> id, status |-> GmailStatus(id, outcome)]
<1>1. /\ gmail' = IF reached THEN Append(gmail, RawMessage(id)) ELSE gmail
      /\ answered' = answered \cup {a} /\ UNCHANGED <<decided, confirmed, exported>>
  BY DEF CreateGmailDraft
<1>2. a.confirmation = id /\ a.status = GmailStatus(id, outcome)
  OBVIOUS
<1>3. a.status = "created" => reached
  BY <1>2 DEF GmailStatus
<1> HIDE DEF a
<1>4. DecidedOK' /\ ConfirmedOK'
  BY <1>1 DEF DraftInv, DecidedOK, ConfirmedOK, AskedFor
<1>5. \A i, t : ApprovedAs(i, t) => ApprovedAs(i, t)'
  BY <1>1 DEF ApprovedAs
<1>6. CASE reached
  <2>1. /\ IsSequence(gmail') /\ Len(gmail) \in Nat /\ DOMAIN gmail = 1 .. Len(gmail)
        /\ DOMAIN gmail' = 1 .. Len(gmail) + 1 /\ gmail'[Len(gmail) + 1] = RawMessage(id)
        /\ \A k \in DOMAIN gmail : gmail'[k] = gmail[k]
    BY <1>1, <1>6, Appended DEF DraftInv, SentOK
  <2>2. RawMessage(id).confirmation = id /\ RawMessage(id).title = FirstConfirmation(id).title
    BY DEF RawMessage
  <2>3. ApprovedAs(id, FirstConfirmation(id).title)
    BY <1>6, CreatedWasApproved
  <2>4. ASSUME NEW k \in DOMAIN gmail' PROVE ApprovedAs(gmail'[k].confirmation, gmail'[k].title)
    BY <2>1, <2>2, <2>3 DEF DraftInv, SentOK
  <2>5. \A b \in answered' :
            b.status = "created" => \E k \in DOMAIN gmail' : gmail'[k].confirmation = b.confirmation
    <3>1. \E k \in DOMAIN gmail' : gmail'[k].confirmation = id
      BY <2>1, <2>2
    <3>2. ASSUME NEW b \in answered, b.status = "created"
          PROVE  \E k \in DOMAIN gmail' : gmail'[k].confirmation = b.confirmation
      <4>1. PICK k \in DOMAIN gmail : gmail[k].confirmation = b.confirmation
        BY <3>2 DEF DraftInv, SentOK
      <4>2. k \in DOMAIN gmail' /\ gmail'[k] = gmail[k]
        BY <2>1
      <4> QED BY <4>1, <4>2
    <3> QED BY <1>1, <1>2, <3>1, <3>2
  <2>6. \A e \in exported' : e.status = "created" => ApprovedAs(e.confirmation, e.title)'
    BY <1>1, <1>5 DEF DraftInv, SentOK
  <2>7. \A k \in DOMAIN gmail' : ApprovedAs(gmail[k].confirmation, gmail[k].title)'
    BY <1>1, <2>4 DEF ApprovedAs
  <2>8. SentOK'
    BY <2>1, <2>5, <2>6, <2>7 DEF SentOK
  <2> QED BY <1>4, <2>8 DEF DraftInv
<1>7. CASE ~reached
  <2>1. SentOK'
    BY <1>1, <1>3, <1>5, <1>7 DEF DraftInv, SentOK
  <2> QED BY <1>4, <2>1 DEF DraftInv
<1> QED BY <1>6, <1>7

LEMMA RestOfDrafts ==
    ASSUME DraftInv, UNCHANGED <<decided, confirmed, exported, answered, gmail>>
    PROVE  DraftInv'
BY DEF DraftInv, DecidedOK, ConfirmedOK, SentOK, AskedFor, ApprovedAs

LEMMA DraftStep == ASSUME DraftInv, [DraftNext]_draftVars PROVE DraftInv'
<1>1. CASE UNCHANGED draftVars
  BY <1>1, RestOfDrafts DEF draftVars
<1>2. CASE SuggestNext
  BY <1>2, DecideKeeps, ConfirmKeeps, ExportKeeps, CreateKeeps, RestOfDrafts
     DEF SuggestNext, ReadSignals
<1>3. CASE ReceiptNext
  BY <1>3, RestOfDrafts DEF ReceiptNext, ReviseDraft, DecideOutput, DecideItem
<1> QED BY <1>1, <1>2, <1>3 DEF DraftNext

\* What is exported or drafted in Gmail names a receipt of an approval and carries the
\* title of the first draft he asked for under the name approved, of a suggestion his
\* inbox held, for any signals, decisions and receipts
\* (build_user_confirmation_receipt, build_approved_output_export and
\* build_approved_gmail_draft_creation).
THEOREM OnlyApprovedIsExported == DraftSpec => []ExportedAsApproved
<1>1. DraftInit => DraftInv
  <2>1. IsSequence(<< >>)
    BY DEF IsSequence
  <2> QED BY <2>1 DEF DraftInit, DraftInv, DecidedOK, ConfirmedOK, SentOK
<1> QED BY <1>1, DraftStep, DraftInvApproved, PTL DEF DraftSpec

-----------------------------------------------------------------------------
\* The types of the drafts; a draft that a confirmation found is there still.
Statuses185 == {"created", "failed_closed", "gmail_not_connected", "not_approved", "confirmation_not_found"}

DraftTypes ==
    /\ found \in Readings \cup {<< >>}
    /\ \A k \in DOMAIN decided :
           /\ decided[k].choice \in Wishes
           /\ decided[k].status = "recorded_local_receipt" => decided[k].suggestion # << >>
    /\ \A k \in DOMAIN confirmed :
           confirmed[k].status \notin {"missing_draft_id", "draft_not_found"} => DraftsNamed(confirmed[k].draft) # {}
    /\ \A e \in exported : e.title # "" => e.status = "created"
    /\ \A a \in answered : a.status \in Statuses185
    /\ \A a \in approvals : a.choice \in {"approve", "reject", "done", "dismiss"}

LEMMA DraftTypesHold == DraftTypes => DraftTypeOK
BY DEF DraftTypes, DraftTypeOK, Statuses185, Range

LEMMA DecideTyped ==
    ASSUME DraftInv, DraftTypes, NEW id, NEW choice \in Wishes, Decide172(id, choice)
    PROVE  DraftTypes'
<1>1. PICK title : decided' = Append(decided, [suggestion |-> id, choice |-> choice,
                                               status |-> DecisionStatus172(id), title |-> title])
  BY DEF Decide172
<1> DEFINE d == [suggestion |-> id, choice |-> choice, status |-> DecisionStatus172(id), title |-> title]
<1>2. d.choice = choice /\ d.suggestion = id /\ d.status = DecisionStatus172(id)
  OBVIOUS
<1>3. d.status = "recorded_local_receipt" => d.suggestion # << >>
  BY <1>2 DEF DecisionStatus172
<1> HIDE DEF d
<1>4. decided' = Append(decided, d)
  BY <1>1 DEF d
<1>5. /\ Len(decided) \in Nat /\ DOMAIN decided = 1 .. Len(decided)
      /\ DOMAIN decided' = 1 .. Len(decided) + 1 /\ decided'[Len(decided) + 1] = d
      /\ \A k \in DOMAIN decided : decided'[k] = decided[k]
  BY <1>4, Appended DEF DraftInv, DecidedOK
<1>6. UNCHANGED <<found, confirmed, exported, answered, approvals>>
  BY DEF Decide172
<1>7. \A k \in DOMAIN decided' :
          /\ decided'[k].choice \in Wishes
          /\ decided'[k].status = "recorded_local_receipt" => decided'[k].suggestion # << >>
  <2> SUFFICES ASSUME NEW k \in DOMAIN decided'
               PROVE  /\ decided'[k].choice \in Wishes
                      /\ decided'[k].status = "recorded_local_receipt" => decided'[k].suggestion # << >>
    OBVIOUS
  <2>1. CASE k = Len(decided) + 1
    BY <1>2, <1>3, <1>5, <2>1
  <2>2. CASE k # Len(decided) + 1
    <3>1. k \in DOMAIN decided /\ decided'[k] = decided[k]
      BY <1>5, <2>2
    <3> QED BY <3>1 DEF DraftTypes
  <2> QED BY <2>1, <2>2
<1>8. ASSUME NEW draft, DraftsNamed(draft) # {} PROVE DraftsNamed(draft)' # {}
  <2>1. PICK k \in DOMAIN Queue : Queue[k].draft = draft
    BY <1>8 DEF DraftsNamed
  <2>2. /\ k \in DOMAIN decided /\ Drafted(decided[k]) /\ Queue[k] = DraftOf(decided[k])
    BY <2>1 DEF Queue
  <2>3. /\ k \in DOMAIN decided' /\ Drafted(decided'[k]) /\ DraftOf(decided'[k]).draft = draft
    BY <1>5, <2>1, <2>2
  <2>4. k \in DOMAIN Queue' /\ Queue'[k] = DraftOf(decided'[k])
    BY <2>3 DEF Queue, Drafted, DraftOf, DecisionKey
  <2> QED BY <2>3, <2>4 DEF DraftsNamed
<1>9. \A k \in DOMAIN confirmed' :
          confirmed'[k].status \notin {"missing_draft_id", "draft_not_found"}
              => DraftsNamed(confirmed[k].draft)' # {}
  BY <1>6, <1>8 DEF DraftTypes
<1> QED BY <1>6, <1>7, <1>9 DEF DraftTypes

LEMMA ConfirmTyped ==
    ASSUME DraftInv, DraftTypes, NEW id, NEW choice, NEW text, Confirm(id, choice, text)
    PROVE  DraftTypes'
<1> DEFINE title == IF id = << >> \/ DraftsNamed(id) = {} THEN "" ELSE FirstDraft(id).title
           c == [draft |-> id, choice |-> choice, status |-> ConfirmationStatus(id, choice, text),
                 text |-> text, title |-> title]
<1>1. confirmed' = Append(confirmed, c) /\ UNCHANGED <<found, decided, exported, answered, approvals>>
  BY DEF Confirm
<1>2. c.draft = id /\ c.status = ConfirmationStatus(id, choice, text)
  OBVIOUS
<1>3. c.status \notin {"missing_draft_id", "draft_not_found"} => DraftsNamed(c.draft) # {}
  <2> HIDE DEF c
  <2> QED BY <1>2 DEF ConfirmationStatus
<1> HIDE DEF c
<1>4. /\ Len(confirmed) \in Nat /\ DOMAIN confirmed = 1 .. Len(confirmed)
      /\ DOMAIN confirmed' = 1 .. Len(confirmed) + 1 /\ confirmed'[Len(confirmed) + 1] = c
      /\ \A k \in DOMAIN confirmed : confirmed'[k] = confirmed[k]
  BY <1>1, Appended DEF DraftInv, ConfirmedOK
<1>5. \A k \in DOMAIN confirmed' :
          confirmed'[k].status \notin {"missing_draft_id", "draft_not_found"}
              => DraftsNamed(confirmed'[k].draft) # {}
  <2> SUFFICES ASSUME NEW k \in DOMAIN confirmed',
                      confirmed'[k].status \notin {"missing_draft_id", "draft_not_found"}
               PROVE  DraftsNamed(confirmed'[k].draft) # {}
    OBVIOUS
  <2>1. CASE k = Len(confirmed) + 1
    BY <1>3, <1>4, <2>1
  <2>2. CASE k # Len(confirmed) + 1
    <3>1. k \in DOMAIN confirmed /\ confirmed'[k] = confirmed[k]
      BY <1>4, <2>2
    <3> QED BY <3>1 DEF DraftTypes
  <2> QED BY <2>1, <2>2
<1>6. \A k \in DOMAIN confirmed' :
          confirmed'[k].status \notin {"missing_draft_id", "draft_not_found"}
              => DraftsNamed(confirmed[k].draft)' # {}
  BY <1>1, <1>5 DEF DraftsNamed, Queue
<1> QED BY <1>1, <1>6 DEF DraftTypes

\* An export, and an answer about a draft in Gmail, have the status of their stage.
LEMMA SendTyped ==
    ASSUME DraftTypes, NEW id, NEW format, NEW outcome \in GmailOutcomes,
           Export(id, format) \/ (id # << >> /\ CreateGmailDraft(id, outcome))
    PROVE  DraftTypes'
<1>1. UNCHANGED <<found, decided, confirmed, approvals>>
  BY DEF Export, CreateGmailDraft
<1>2. \A e \in exported' : e.title # "" => e.status = "created"
  <2>1. CASE exported' = exported
    BY <2>1 DEF DraftTypes
  <2>2. CASE Export(id, format)
    <3> DEFINE e == [confirmation |-> id, format |-> format, status |-> ExportStatus(id),
                     title |-> IF ExportStatus(id) = "created" THEN FirstConfirmation(id).title ELSE ""]
    <3>1. e.title # "" => e.status = "created"
      OBVIOUS
    <3>2. exported' = exported \cup {e}
      BY <2>2 DEF Export
    <3> HIDE DEF e
    <3> QED BY <3>1, <3>2 DEF DraftTypes
  <2> QED BY <2>1, <2>2 DEF CreateGmailDraft
<1>3. \A a \in answered' : a.status \in Statuses185
  <2>1. CASE answered' = answered
    BY <2>1 DEF DraftTypes
  <2>2. CASE id # << >> /\ CreateGmailDraft(id, outcome)
    <3>1. GmailStatus(id, outcome) \in Statuses185
      BY <2>2 DEF GmailStatus, ExportStatus, Statuses185
    <3> DEFINE a == [confirmation |-> id, status |-> GmailStatus(id, outcome)]
    <3>2. answered' = answered \cup {a} /\ a.status = GmailStatus(id, outcome)
      BY <2>2 DEF CreateGmailDraft
    <3> HIDE DEF a
    <3> QED BY <3>1, <3>2 DEF DraftTypes
  <2> QED BY <2>1, <2>2 DEF Export
<1>4. \A k \in DOMAIN confirmed' :
          confirmed'[k].status \notin {"missing_draft_id", "draft_not_found"}
              => DraftsNamed(confirmed[k].draft)' # {}
  BY <1>1 DEF DraftTypes, DraftsNamed, Queue
<1> QED BY <1>1, <1>2, <1>3, <1>4 DEF DraftTypes

LEMMA RestOfDraftsTyped ==
    ASSUME DraftTypes, UNCHANGED <<decided, confirmed, exported, answered>>,
           found' = found \/ found' \in Readings,
           \A a \in approvals' : a \in approvals \/ a.choice \in {"approve", "reject", "done", "dismiss"}
    PROVE  DraftTypes'
BY DEF DraftTypes, DraftsNamed, Queue

LEMMA DraftStepTyped == ASSUME DraftInv, DraftTypes, [DraftNext]_draftVars PROVE DraftTypes'
<1>1. CASE UNCHANGED draftVars
  BY <1>1, RestOfDraftsTyped DEF draftVars
<1>2. CASE SuggestNext
  <2>1. ASSUME NEW reading \in Readings, ReadSignals(reading) PROVE DraftTypes'
    BY <2>1, RestOfDraftsTyped DEF ReadSignals
  <2>2. ASSUME NEW c, NEW format, Export(c, format) PROVE DraftTypes'
    <3>1. "lost" \in GmailOutcomes
      BY DEF GmailOutcomes
    <3> QED BY <2>2, <3>1, SendTyped
  <2>3. ASSUME NEW c, NEW outcome \in GmailOutcomes, CreateGmailDraft(ConfirmationKey(c), outcome)
        PROVE  DraftTypes'
    <3>1. ConfirmationKey(c) # << >>
      BY DEF ConfirmationKey
    <3> QED BY <2>3, <3>1, SendTyped
  <2> QED BY <1>2, <2>1, <2>2, <2>3, DecideTyped, ConfirmTyped DEF SuggestNext
<1>3. CASE ReceiptNext
  <2>1. ASSUME NEW how, ReviseDraft("d", how) PROVE DraftTypes'
    BY <2>1, RestOfDraftsTyped DEF ReviseDraft
  <2>2. ASSUME NEW items, NEW item, NEW choice \in {"approve", "reject"}, DecideOutput(items, item, choice)
        PROVE  DraftTypes'
    <3> DEFINE a == [item |-> item, choice |-> choice, status |-> ApprovalStatus(items, item, choice)]
    <3>1. approvals' = approvals \cup {a} /\ UNCHANGED <<found, decided, confirmed, exported, answered>>
      BY <2>2 DEF DecideOutput
    <3>2. a.choice = choice
      OBVIOUS
    <3> HIDE DEF a
    <3> QED BY <3>1, <3>2, RestOfDraftsTyped
  <2>3. ASSUME NEW item, NEW choice \in {"done", "dismiss"}, DecideItem(item, choice) PROVE DraftTypes'
    <3> DEFINE a == [item |-> item, choice |-> choice,
                     status |-> IF choice = "done" THEN "marked_done_local_receipt"
                                ELSE "dismissed_local_receipt"]
    <3>1. approvals' = approvals \cup {a} /\ UNCHANGED <<found, decided, confirmed, exported, answered>>
      BY <2>3 DEF DecideItem
    <3>2. a.choice = choice
      OBVIOUS
    <3> HIDE DEF a
    <3> QED BY <3>1, <3>2, RestOfDraftsTyped
  <2> QED BY <1>3, <2>1, <2>2, <2>3 DEF ReceiptNext
<1> QED BY <1>1, <1>2, <1>3 DEF DraftNext

\* The receipts say of what they name what their stage found, and a draft that was found
\* stays, for any signals and wishes (build_user_confirmation_receipt,
\* build_approved_output_export).
THEOREM DraftsTyped == DraftSpec => []DraftTypeOK
<1>1. DraftInit => DraftInv /\ DraftTypes
  <2>1. IsSequence(<< >>) /\ DOMAIN << >> = {}
    BY DEF IsSequence
  <2> QED BY <2>1 DEF DraftInit, DraftInv, DecidedOK, ConfirmedOK, SentOK, DraftTypes
<1>2. DraftInv /\ DraftTypes /\ [DraftNext]_draftVars => (DraftInv /\ DraftTypes)'
  BY DraftStep, DraftStepTyped
<1> QED BY <1>1, <1>2, DraftTypesHold, PTL DEF DraftSpec

-----------------------------------------------------------------------------
(* Side by side *)

LEMMA StepsOfEach ==
    ASSUME [MCNext]_<<draftVars, meetingVars, pilotVars, commandVars, briefVars, demoVars, part>>
    PROVE  /\ [DraftNext]_draftVars /\ [MeetingNext]_meetingVars /\ [PilotNext]_pilotVars
           /\ [CommandNext]_commandVars /\ [BriefNext]_briefVars /\ [DemoNext]_demoVars
BY DEF MCNext, DraftNext

LEMMA EachOnItsOwn ==
    MCSpec => DraftSpec /\ MeetingSpec /\ PilotSpec /\ CommandSpec /\ BriefSpec /\ DemoSpec
<1>1. MCInit => DraftInit /\ MeetingInit /\ PilotInit /\ CommandInit /\ BriefInit /\ DemoInit
  BY DEF MCInit
<1> QED BY <1>1, StepsOfEach, PTL
        DEF MCSpec, DraftSpec, MeetingSpec, PilotSpec, CommandSpec, BriefSpec, DemoSpec

\* The type invariants of the six, whichever of them moves: receipts are about what their
\* stages found, tokens were issued, ledgers hold what was captured, replies show what
\* there was, and the demos keep one record for a key, for any constants under which no
\* two fixtures go by one id.
THEOREM TypesHold ==
    ASSUME OneFixturePerId
    PROVE  MCSpec => []TypesOK
<1>1. DraftTypeOK /\ MeetingTypeOK /\ PilotTypeOK /\ CommandTypeOK /\ BriefTypeOK /\ DemoTypeOK => TypesOK
  BY DEF TypesOK
<1>2. DemoSpec => []DemoTypeOK
  BY DemosTyped
<1> QED BY <1>1, <1>2, EachOnItsOwn, DraftsTyped, MeetingsTyped, LedgersTyped, CommandsTyped, BriefsTyped, PTL
=============================================================================
