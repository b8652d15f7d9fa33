------------------------------ MODULE LoopProofs ------------------------------
(***************************************************************************)
(* The proofs about the memory loop, its user and the polling loop.        *)
(*                                                                         *)
(* Memory.  Every request, to either handler, does one of six things to    *)
(* the tables.  With that (Classified), each property is proved once per   *)
(* kind of change instead of once per branch of the handlers.              *)
(*                                                                         *)
(* Polling.  What makes its safety inductive is how the position in the    *)
(* batch, the offset and what Telegram knows hang together: everything     *)
(* before the position is settled, and the offset, once there is one, is   *)
(* the position.                                                           *)
(***************************************************************************)
EXTENDS MCLoops, TLAPS

tables == <<proposal, memory, origin>>

Rewords(p, content) ==
    /\ proposal' = [proposal EXCEPT ![p].content = content]
    /\ UNCHANGED <<memory, origin>>

Creates(p, content) ==
    /\ Fresh(p)
    /\ proposal' = [ExpirePending EXCEPT
                        ![p] = [status |-> "PENDING", content |-> content]]
    /\ UNCHANGED <<memory, origin>>

Keeps(p, m) ==
    /\ m \notin Kept
    /\ proposal' = [proposal EXCEPT ![p].status = "APPROVED"]
    /\ memory' = [memory EXCEPT ![m] = [status |-> "ACTIVE", content |-> proposal[p].content]]
    /\ origin' = [origin EXCEPT ![m] = p]

Refuses(p) ==
    /\ proposal' = [proposal EXCEPT ![p].status = "REJECTED"]
    /\ UNCHANGED <<memory, origin>>

Forgets(m) ==
    /\ memory' = [memory EXCEPT ![m].status = "FORGOTTEN"]
    /\ UNCHANGED <<proposal, origin>>

Change ==
    \/ UNCHANGED tables
    \/ \E p \in ProposalIds, content \in Contents : Creates(p, content)
    \/ \E p \in Pending, content \in Contents : Rewords(p, content)
    \/ \E p \in Pending, m \in MemoryIds : Keeps(p, m)
    \/ \E p \in Pending : Refuses(p)
    \/ \E m \in Active : Forgets(m)

IInv == TypeOK /\ OneOpenProposal /\ OneMemoryPerApproval

-----------------------------------------------------------------------------
(* Steps and changes *)

LEMMA WordingIsContent ==
    ASSUME NEW text \in Texts PROVE Wording(text) \in Contents
  BY DEF Texts, Wording, Contents, Requests, Decisions

LEMMA CreateChanges ==
    ASSUME NEW content \in Contents, Create(content) PROVE Change
  BY DEF Create, Creates, Change, tables

LEMMA KeepChanges ==
    ASSUME NEW p \in Pending, Keep(p) PROVE Change
  BY DEF Keep, Keeps, Decided, Change

LEMMA RefuseChanges ==
    ASSUME NEW p \in Pending, Refuse(p) PROVE Change
  BY DEF Refuse, Refuses, Decided, Change

\* A message does to the tables one of six things.
LEMMA HandleChanges ==
    ASSUME NEW msg \in Messages, Handle(msg) PROVE Change
  <1> msg.text \in Texts
    BY DEF Messages
  <1>1. CASE Edit(msg)
    <2>1. Wording(msg.text) \in Contents
      BY WordingIsContent
    <2>2. msg.replyTo \in Pending /\ Rewords(msg.replyTo, Wording(msg.text))
      BY <1>1 DEF Edit, Editable, Rewords
    <2> QED BY <2>1, <2>2 DEF Change
  <1>2. CASE EditUnavailable(msg) \/ Undecidable(msg) \/ Remind(msg) \/ AskForEdit(msg)
               \/ Unknown(msg) \/ AlreadyFinalized(msg) \/ NothingToForget(msg) \/ Recall(msg)
    BY <1>2 DEF EditUnavailable, Undecidable, Remind, AskForEdit, Unknown,
                AlreadyFinalized, NothingToForget, Recall, Only, Change, tables
  <1>3. CASE ApproveOnly(msg)
    BY <1>3, KeepChanges DEF ApproveOnly
  <1>4. CASE RejectOnly(msg)
    BY <1>4, RefuseChanges DEF RejectOnly
  <1>5. CASE ApproveById(msg)
    BY <1>5, KeepChanges DEF ApproveById, Open
  <1>6. CASE RejectById(msg)
    BY <1>6, RefuseChanges DEF RejectById, Open
  <1>7. CASE Forget(msg)
    BY <1>7 DEF Forget, Forgettable, Forgotten, Forgets, Change
  <1>8. CASE Propose(msg)
    <2>1. msg.text.about \in Contents
      BY <1>8 DEF Propose, Says, Texts, Contents, Requests, Decisions
    <2> QED BY <1>8, <2>1, CreateChanges DEF Propose
  <1> QED
    BY <1>1, <1>2, <1>3, <1>4, <1>5, <1>6, <1>7, <1>8 DEF Handle

LEMMA FlowChanges ==
    ASSUME Flow PROVE Change
  <1>1. CASE FlowProposal
    BY <1>1, CreateChanges DEF FlowProposal, Contents
  <1>2. CASE FlowApproval
    BY <1>2, KeepChanges DEF FlowApproval
  <1>3. CASE FlowRejection
    BY <1>3, RefuseChanges DEF FlowRejection
  <1>4. CASE FlowReplyOnly
    BY <1>4 DEF FlowReplyOnly, Only, Change, tables
  <1>5. CASE FlowForget
    BY <1>5 DEF FlowForget, Forgettable, Forgotten, Forgets, Change
  <1> QED
    BY <1>1, <1>2, <1>3, <1>4, <1>5 DEF Flow

LEMMA Classified ==
    ASSUME [Next]_vars PROVE Change
  <1>1. CASE UNCHANGED vars
    BY <1>1 DEF vars, Change, tables
  <1>2. CASE \E msg \in Messages : Handle(msg)
    BY <1>2, HandleChanges
  <1>3. CASE Flow
    BY <1>3, FlowChanges
  <1> QED
    BY <1>1, <1>2, <1>3 DEF Next

-----------------------------------------------------------------------------
(* Types *)

TablesTyped ==
    /\ proposal \in [ProposalIds -> ProposalRows]
    /\ memory \in [MemoryIds -> MemoryRows]
    /\ origin \in [MemoryIds -> ProposalIds \cup {None}]

ReplyTyped == reply \in [kind : Kinds, shows : ProposalIds \cup {None}]

LEMMA PendingRow ==
    ASSUME TablesTyped, NEW p \in Pending
    PROVE  /\ p \in ProposalIds
           /\ proposal[p].content \in Contents
           /\ proposal[p] \in [status : {"PENDING"}, content : Contents]
  BY DEF TablesTyped, ProposalRows, NoRow, Pending

LEMMA ActiveRow ==
    ASSUME TablesTyped, NEW m \in Active
    PROVE  /\ m \in MemoryIds
           /\ memory[m].content \in Contents
           /\ memory[m] \in [status : {"ACTIVE"}, content : Contents]
  BY DEF TablesTyped, MemoryRows, NoRow, Active

LEMMA TablesStayTyped ==
    ASSUME TablesTyped, Change PROVE TablesTyped'
  <1>1. CASE UNCHANGED tables
    BY <1>1 DEF tables, TablesTyped
  <1>2. ASSUME NEW p \in ProposalIds, NEW content \in Contents, Creates(p, content)
        PROVE  TablesTyped'
    <2>1. [status |-> "PENDING", content |-> content] \in ProposalRows
      BY DEF ProposalRows
    <2>2. ASSUME NEW q \in Pending
          PROVE  [proposal[q] EXCEPT !.status = "EXPIRED"] \in ProposalRows
      BY PendingRow DEF ProposalRows
    <2>3. ExpirePending \in [ProposalIds -> ProposalRows]
      BY <2>2 DEF ExpirePending, TablesTyped
    <2> QED
      BY <1>2, <2>1, <2>3 DEF Creates, TablesTyped
  <1>3. ASSUME NEW p \in Pending, NEW content \in Contents, Rewords(p, content)
        PROVE  TablesTyped'
    <2>1. [proposal[p] EXCEPT !.content = content] \in ProposalRows
      BY PendingRow DEF ProposalRows
    <2> QED
      BY <1>3, <2>1 DEF Rewords, TablesTyped
  <1>4. ASSUME NEW p \in Pending, NEW m \in MemoryIds, Keeps(p, m)
        PROVE  TablesTyped'
    <2>1. [proposal[p] EXCEPT !.status = "APPROVED"] \in ProposalRows
      BY PendingRow DEF ProposalRows
    <2>2. [status |-> "ACTIVE", content |-> proposal[p].content] \in MemoryRows
      BY PendingRow DEF MemoryRows
    <2>3. p \in ProposalIds
      BY PendingRow
    <2> QED
      BY <1>4, <2>1, <2>2, <2>3 DEF Keeps, TablesTyped
  <1>5. ASSUME NEW p \in Pending, Refuses(p)
        PROVE  TablesTyped'
    <2>1. [proposal[p] EXCEPT !.status = "REJECTED"] \in ProposalRows
      BY PendingRow DEF ProposalRows
    <2> QED
      BY <1>5, <2>1 DEF Refuses, TablesTyped
  <1>6. ASSUME NEW m \in Active, Forgets(m)
        PROVE  TablesTyped'
    <2>1. [memory[m] EXCEPT !.status = "FORGOTTEN"] \in MemoryRows
      BY ActiveRow DEF MemoryRows
    <2> QED
      BY <1>6, <2>1 DEF Forgets, TablesTyped
  <1> QED
    BY <1>1, <1>2, <1>3, <1>4, <1>5, <1>6 DEF Change

LEMMA OnlyTyped ==
    ASSUME NEW kind \in Kinds, NEW p \in ProposalIds \cup {None}, Only(kind, p)
    PROVE  ReplyTyped'
  BY DEF Only, Reply, ReplyTyped

LEMMA DecisionTyped ==
    ASSUME NEW p \in ProposalIds, Keep(p) \/ Refuse(p) PROVE ReplyTyped'
  BY DEF Keep, Refuse, Reply, ReplyTyped, Kinds

LEMMA CreateTyped ==
    ASSUME NEW content, Create(content) PROVE ReplyTyped'
  BY DEF Create, Reply, ReplyTyped, Kinds

LEMMA ReplyStaysTyped ==
    ASSUME ReplyTyped, [Next]_vars PROVE ReplyTyped'
  <1>1. CASE UNCHANGED vars
    BY <1>1 DEF vars, ReplyTyped
  <1>2. ASSUME NEW msg \in Messages, Handle(msg) PROVE ReplyTyped'
    <2>1. CASE Edit(msg)
      BY <2>1 DEF Edit, Messages, Reply, ReplyTyped, Kinds
    <2>2. CASE EditUnavailable(msg) \/ Undecidable(msg) \/ Unknown(msg)
                 \/ AlreadyFinalized(msg) \/ NothingToForget(msg) \/ Recall(msg)
      BY <2>2, OnlyTyped DEF EditUnavailable, Undecidable, Unknown, AlreadyFinalized,
                             NothingToForget, Recall, Kinds
    <2>3. CASE Remind(msg) \/ AskForEdit(msg)
      BY <2>3, OnlyTyped DEF Remind, AskForEdit, Kinds, Pending
    <2>4. CASE ApproveOnly(msg) \/ RejectOnly(msg) \/ ApproveById(msg) \/ RejectById(msg)
      BY <2>4, DecisionTyped DEF ApproveOnly, RejectOnly, ApproveById, RejectById, Open, Pending
    <2>5. CASE Forget(msg)
      BY <2>5 DEF Forget, Reply, ReplyTyped, Kinds
    <2>6. CASE Propose(msg)
      BY <2>6, CreateTyped DEF Propose
    <2> QED
      BY <1>2, <2>1, <2>2, <2>3, <2>4, <2>5, <2>6 DEF Handle
  <1>3. CASE FlowProposal
    BY <1>3, CreateTyped DEF FlowProposal
  <1>4. CASE FlowApproval \/ FlowRejection
    BY <1>4, DecisionTyped DEF FlowApproval, FlowRejection, Pending
  <1>5. CASE FlowReplyOnly
    BY <1>5, OnlyTyped DEF FlowReplyOnly, Kinds
  <1>6. CASE FlowForget
    BY <1>6 DEF FlowForget, Reply, ReplyTyped, Kinds
  <1> QED
    BY <1>1, <1>2, <1>3, <1>4, <1>5, <1>6 DEF Next, Flow

-----------------------------------------------------------------------------
(* What a change does to the rows it does not name *)

LEMMA CreatedRows ==
    ASSUME TablesTyped, NEW p \in ProposalIds, NEW content \in Contents, Creates(p, content)
    PROVE  /\ proposal'[p].status = "PENDING" /\ proposal'[p].content = content
           /\ \A q \in ProposalIds \ {p} :
                 /\ q \in Pending => proposal'[q] = [proposal[q] EXCEPT !.status = "EXPIRED"]
                 /\ q \notin Pending => proposal'[q] = proposal[q]
           /\ Pending' = {p}
  <1>1. proposal'[p].status = "PENDING" /\ proposal'[p].content = content
    <2>1. p \in DOMAIN ExpirePending
      BY DEF ExpirePending
    <2> QED BY <2>1 DEF Creates
  <1>2. ASSUME NEW q \in ProposalIds \ {p}
        PROVE  /\ q \in Pending => proposal'[q] = [proposal[q] EXCEPT !.status = "EXPIRED"]
               /\ q \notin Pending => proposal'[q] = proposal[q]
    BY DEF Creates, ExpirePending
  <1>3. ASSUME NEW q \in ProposalIds \ {p} PROVE proposal'[q].status # "PENDING"
    <2>1. CASE q \in Pending
      <3>1. proposal[q] \in [status : {"PENDING"}, content : Contents]
        BY <2>1, PendingRow
      <3>2. proposal'[q] = [proposal[q] EXCEPT !.status = "EXPIRED"]
        BY <1>2, <2>1
      <3> QED BY <3>1, <3>2
    <2>2. CASE q \notin Pending
      BY <1>2, <2>2 DEF Pending
    <2> QED BY <2>1, <2>2
  <1>4. Pending' = {p}
    BY <1>1, <1>3 DEF Pending
  <1> QED BY <1>1, <1>2, <1>4

\* A decision or an edit rewrites one field of one row.
LEMMA DecidedRows ==
    ASSUME TablesTyped, NEW p \in Pending, NEW status,
           proposal' = [proposal EXCEPT ![p].status = status]
    PROVE  /\ proposal'[p].status = status
           /\ proposal'[p].content = proposal[p].content
           /\ \A q \in ProposalIds \ {p} : proposal'[q] = proposal[q]
  <1>1. p \in ProposalIds /\ proposal[p] \in [status : {"PENDING"}, content : Contents]
    BY PendingRow
  <1> QED BY <1>1 DEF TablesTyped

LEMMA RewordedRows ==
    ASSUME TablesTyped, NEW p \in Pending, NEW content, Rewords(p, content)
    PROVE  /\ proposal'[p].status = "PENDING"
           /\ proposal'[p].content = content
           /\ \A q \in ProposalIds \ {p} : proposal'[q] = proposal[q]
  <1>1. p \in ProposalIds /\ proposal[p] \in [status : {"PENDING"}, content : Contents]
    BY PendingRow
  <1> QED BY <1>1 DEF TablesTyped, Rewords

LEMMA ForgottenRows ==
    ASSUME TablesTyped, NEW m \in Active, Forgets(m)
    PROVE  /\ memory'[m].status = "FORGOTTEN"
           /\ memory'[m].content = memory[m].content
           /\ \A n \in MemoryIds \ {m} : memory'[n] = memory[n]
           /\ Kept' = Kept
  <1>1. m \in MemoryIds /\ memory[m] \in [status : {"ACTIVE"}, content : Contents]
    BY ActiveRow
  <1>2. /\ memory'[m].status = "FORGOTTEN"
        /\ memory'[m].content = memory[m].content
        /\ \A n \in MemoryIds \ {m} : memory'[n] = memory[n]
    BY <1>1 DEF TablesTyped, Forgets
  <1> QED BY <1>1, <1>2 DEF Kept

LEMMA KeptRows ==
    ASSUME TablesTyped, NEW p \in Pending, NEW m \in MemoryIds, Keeps(p, m)
    PROVE  /\ memory'[m] = [status |-> "ACTIVE", content |-> proposal[p].content]
           /\ origin'[m] = p
           /\ \A n \in MemoryIds \ {m} : memory'[n] = memory[n] /\ origin'[n] = origin[n]
           /\ Kept' = Kept \cup {m}
  <1>1. /\ memory'[m] = [status |-> "ACTIVE", content |-> proposal[p].content]
        /\ origin'[m] = p
        /\ \A n \in MemoryIds \ {m} : memory'[n] = memory[n] /\ origin'[n] = origin[n]
    BY DEF TablesTyped, Keeps
  <1> QED BY <1>1 DEF Kept

-----------------------------------------------------------------------------
(* One open proposal *)

LEMMA StaysOneOpen ==
    ASSUME TablesTyped, OneOpenProposal, Change PROVE OneOpenProposal'
  <1>1. CASE UNCHANGED tables
    BY <1>1 DEF tables, OneOpenProposal, Pending
  <1>2. ASSUME NEW p \in ProposalIds, NEW content \in Contents, Creates(p, content)
        PROVE  OneOpenProposal'
    <2>1. Pending' = {p}
      BY <1>2, CreatedRows
    <2> QED BY <2>1 DEF OneOpenProposal
  <1>3. ASSUME NEW p \in Pending, NEW content \in Contents, Rewords(p, content)
        PROVE  OneOpenProposal'
    <2>1. Pending' = Pending
      BY <1>3, RewordedRows DEF Pending
    <2> QED BY <2>1 DEF OneOpenProposal
  <1>4. ASSUME NEW p \in Pending, NEW m \in MemoryIds, Keeps(p, m)
        PROVE  OneOpenProposal'
    <2>1. Pending' \subseteq Pending
      BY <1>4, DecidedRows DEF Pending, Keeps
    <2> QED BY <2>1 DEF OneOpenProposal
  <1>5. ASSUME NEW p \in Pending, Refuses(p) PROVE OneOpenProposal'
    <2>1. Pending' \subseteq Pending
      BY <1>5, DecidedRows DEF Pending, Refuses
    <2> QED BY <2>1 DEF OneOpenProposal
  <1>6. ASSUME NEW m \in Active, Forgets(m) PROVE OneOpenProposal'
    BY <1>6 DEF Forgets, OneOpenProposal, Pending
  <1> QED
    BY <1>1, <1>2, <1>3, <1>4, <1>5, <1>6 DEF Change

-----------------------------------------------------------------------------
(* One memory per approval *)

Faithful ==
    \A m \in Kept :
        /\ origin[m] \in ProposalIds
        /\ proposal[origin[m]].status = "APPROVED"
        /\ proposal[origin[m]].content = memory[m].content

NotShared == \A m, n \in Kept : origin[m] = origin[n] => m = n

NoneMissing ==
    \A p \in ProposalIds :
        proposal[p].status = "APPROVED" => \E m \in Kept : origin[m] = p

LEMMA Parts == OneMemoryPerApproval <=> Faithful /\ NotShared /\ NoneMissing
  BY DEF OneMemoryPerApproval, Faithful, NotShared, NoneMissing

\* While no row of `memory` is made, it is enough that approved proposals stay
\* as they are and that no proposal becomes approved.
LEMMA StaysFaithful ==
    ASSUME OneMemoryPerApproval, UNCHANGED origin, Kept' = Kept,
           \A m \in Kept : memory'[m].content = memory[m].content,
           \A p \in ProposalIds :
               proposal[p].status = "APPROVED" => proposal'[p] = proposal[p],
           \A p \in ProposalIds :
               proposal'[p].status = "APPROVED" => proposal[p].status = "APPROVED"
    PROVE  OneMemoryPerApproval'
  BY DEF OneMemoryPerApproval

LEMMA StaysMatched ==
    ASSUME TablesTyped, OneMemoryPerApproval, Change PROVE OneMemoryPerApproval'
  <1>1. CASE UNCHANGED tables
    <2>1. Kept' = Kept
      BY <1>1 DEF tables, Kept
    <2> QED BY <1>1, <2>1, StaysFaithful DEF tables
  <1>2. ASSUME NEW p \in ProposalIds, NEW content \in Contents, Creates(p, content)
        PROVE  OneMemoryPerApproval'
    <2>1. UNCHANGED <<memory, origin>> /\ Kept' = Kept
      BY <1>2 DEF Creates, Kept
    <2>2. proposal[p].status = "none"
      BY <1>2 DEF Creates, Fresh
    <2>3. ASSUME NEW q \in ProposalIds, proposal[q].status = "APPROVED"
          PROVE  proposal'[q] = proposal[q]
      BY <1>2, <2>2, <2>3, CreatedRows DEF Pending
    <2>4. ASSUME NEW q \in ProposalIds, proposal'[q].status = "APPROVED"
          PROVE  proposal[q].status = "APPROVED"
      <3>1. CASE q = p
        <4>1. proposal'[p].status = "PENDING"
          BY <1>2, CreatedRows
        <4> QED BY <2>4, <3>1, <4>1
      <3>2. CASE q # p /\ q \in Pending
        <4>1. proposal[q] \in [status : {"PENDING"}, content : Contents]
          BY <3>2, PendingRow
        <4>2. proposal'[q] = [proposal[q] EXCEPT !.status = "EXPIRED"]
          BY <1>2, <3>2, CreatedRows
        <4> QED BY <2>4, <4>1, <4>2
      <3>3. CASE q # p /\ q \notin Pending
        BY <1>2, <2>4, <3>3, CreatedRows
      <3> QED BY <3>1, <3>2, <3>3
    <2> QED BY <2>1, <2>3, <2>4, StaysFaithful
  <1>3. ASSUME NEW p \in Pending, NEW content \in Contents, Rewords(p, content)
        PROVE  OneMemoryPerApproval'
    <2>1. UNCHANGED <<memory, origin>> /\ Kept' = Kept
      BY <1>3 DEF Rewords, Kept
    <2>2. proposal[p].status = "PENDING" /\ proposal'[p].status = "PENDING"
      BY <1>3, RewordedRows DEF Pending
    <2>3. \A q \in ProposalIds \ {p} : proposal'[q] = proposal[q]
      BY <1>3, RewordedRows
    <2> QED BY <2>1, <2>2, <2>3, StaysFaithful
  <1>4. ASSUME NEW p \in Pending, NEW m \in MemoryIds, Keeps(p, m)
        PROVE  OneMemoryPerApproval'
    <2>1. m \notin Kept /\ p \in ProposalIds /\ proposal[p].status = "PENDING"
      BY <1>4 DEF Keeps, Pending
    <2>2. /\ memory'[m].content = proposal[p].content
          /\ origin'[m] = p
          /\ \A n \in Kept : memory'[n] = memory[n] /\ origin'[n] = origin[n]
          /\ Kept' = Kept \cup {m}
      <3>1. Kept \subseteq MemoryIds \ {m}
        BY <2>1 DEF Kept
      <3>2. /\ memory'[m] = [status |-> "ACTIVE", content |-> proposal[p].content]
            /\ origin'[m] = p
            /\ \A n \in MemoryIds \ {m} : memory'[n] = memory[n] /\ origin'[n] = origin[n]
            /\ Kept' = Kept \cup {m}
        BY <1>4, KeptRows
      <3> QED BY <3>1, <3>2
    <2>3. /\ proposal'[p].status = "APPROVED"
          /\ proposal'[p].content = proposal[p].content
          /\ \A q \in ProposalIds \ {p} : proposal'[q] = proposal[q]
      BY <1>4, DecidedRows DEF Keeps
    <2>4. \A n \in Kept : origin[n] # p
      BY <2>1 DEF OneMemoryPerApproval
    <2>5. Faithful'
      <3>1. ASSUME NEW n \in Kept
            PROVE  /\ origin'[n] \in ProposalIds
                   /\ proposal'[origin'[n]].status = "APPROVED"
                   /\ proposal'[origin'[n]].content = memory'[n].content
        BY <2>2, <2>3, <2>4 DEF OneMemoryPerApproval
      <3> QED BY <2>1, <2>2, <2>3, <3>1 DEF Faithful
    <2>6. NotShared'
      BY <2>2, <2>4, Parts DEF NotShared
    <2>7. NoneMissing'
      <3>1. ASSUME NEW q \in ProposalIds, proposal'[q].status = "APPROVED"
            PROVE  \E n \in Kept \cup {m} : origin'[n] = q
        <4>1. CASE q = p
          BY <2>2, <4>1
        <4>2. CASE q # p
          BY <2>2, <2>3, <3>1, <4>2 DEF OneMemoryPerApproval
        <4> QED BY <4>1, <4>2
      <3> QED BY <2>2, <3>1 DEF NoneMissing
    <2> QED BY <2>5, <2>6, <2>7 DEF OneMemoryPerApproval, Faithful, NotShared, NoneMissing
  <1>5. ASSUME NEW p \in Pending, Refuses(p) PROVE OneMemoryPerApproval'
    <2>1. UNCHANGED <<memory, origin>> /\ Kept' = Kept
      BY <1>5 DEF Refuses, Kept
    <2>2. proposal[p].status = "PENDING" /\ proposal'[p].status = "REJECTED"
      BY <1>5, DecidedRows DEF Pending, Refuses
    <2>3. \A q \in ProposalIds \ {p} : proposal'[q] = proposal[q]
      BY <1>5, DecidedRows DEF Refuses
    <2> QED BY <2>1, <2>2, <2>3, StaysFaithful
  <1>6. ASSUME NEW m \in Active, Forgets(m) PROVE OneMemoryPerApproval'
    <2>1. Kept' = Kept /\ \A n \in Kept : memory'[n].content = memory[n].content
      BY <1>6, ForgottenRows DEF Kept
    <2> QED BY <1>6, <2>1, StaysFaithful DEF Forgets
  <1> QED
    BY <1>1, <1>2, <1>3, <1>4, <1>5, <1>6 DEF Change

-----------------------------------------------------------------------------
(* Theorems *)

LEMMA TypeParts == TypeOK <=> TablesTyped /\ ReplyTyped
  BY DEF TypeOK, TablesTyped, ReplyTyped

LEMMA InitIInv == Init => IInv
  <1> SUFFICES ASSUME Init PROVE IInv
    OBVIOUS
  <1>1. TypeOK
    BY DEF Init, TypeOK, ProposalRows, MemoryRows, Reply, Kinds
  <1>2. Pending = {} /\ Kept = {}
    BY DEF Init, Pending, Kept, NoRow
  <1>3. \A p \in ProposalIds : proposal[p].status # "APPROVED"
    BY DEF Init, NoRow
  <1> QED
    BY <1>1, <1>2, <1>3 DEF IInv, OneOpenProposal, OneMemoryPerApproval

LEMMA NextIInv == IInv /\ [Next]_vars => IInv'
  <1> SUFFICES ASSUME IInv, [Next]_vars PROVE IInv'
    OBVIOUS
  <1>1. TablesTyped /\ ReplyTyped /\ Change
    BY TypeParts, Classified DEF IInv
  <1>2. TablesTyped'
    BY <1>1, TablesStayTyped
  <1>3. ReplyTyped'
    BY <1>1, ReplyStaysTyped
  <1>4. TypeOK'
    BY <1>2, <1>3, TypeParts, PTL
  <1>5. OneOpenProposal'
    BY <1>1, StaysOneOpen DEF IInv
  <1>6. OneMemoryPerApproval'
    BY <1>1, StaysMatched DEF IInv
  <1> QED
    BY <1>4, <1>5, <1>6 DEF IInv

\* The conjunction of the invariants is inductive: whichever handler takes a
\* request, its change leaves all of them true.
THEOREM Invariance == Spec => []IInv
  BY InitIInv, NextIInv, PTL DEF Spec

\* Rows and replies have the types of app/models.py.
THEOREM TypeCorrect == Spec => []TypeOK
  <1>1. IInv => TypeOK
    BY DEF IInv
  <1> QED BY <1>1, Invariance, PTL

\* At most one proposal is pending, so that a decision without an id is never
\* ambiguous: the branch that lists several ids is unreachable.
THEOREM OneOpen == Spec => []OneOpenProposal
  <1>1. IInv => OneOpenProposal
    BY DEF IInv
  <1> QED BY <1>1, Invariance, PTL

\* Memories and approved proposals correspond one to one, word for word.
THEOREM MemoriesMatchApprovals == Spec => []OneMemoryPerApproval
  <1>1. IInv => OneMemoryPerApproval
    BY DEF IInv
  <1> QED BY <1>1, Invariance, PTL

LEMMA ChangeKeepsVerdicts ==
    ASSUME TablesTyped, Change,
           NEW p \in ProposalIds,
           proposal[p].status \in {"APPROVED", "REJECTED", "EXPIRED"}
    PROVE  proposal'[p] = proposal[p]
  <1>0. p \notin Pending /\ ~Fresh(p)
    BY DEF Pending, Fresh
  <1>1. CASE UNCHANGED tables
    BY <1>1 DEF tables
  <1>2. ASSUME NEW q \in ProposalIds, NEW content \in Contents, Creates(q, content)
        PROVE  proposal'[p] = proposal[p]
    <2>1. p # q
      BY <1>0, <1>2 DEF Creates
    <2> QED BY <1>0, <1>2, <2>1, CreatedRows
  <1>3. ASSUME NEW q \in Pending, NEW content \in Contents, Rewords(q, content)
        PROVE  proposal'[p] = proposal[p]
    BY <1>0, <1>3, RewordedRows
  <1>4. ASSUME NEW q \in Pending, NEW m \in MemoryIds, Keeps(q, m)
        PROVE  proposal'[p] = proposal[p]
    BY <1>0, <1>4, DecidedRows DEF Keeps
  <1>5. ASSUME NEW q \in Pending, Refuses(q) PROVE proposal'[p] = proposal[p]
    BY <1>0, <1>5, DecidedRows DEF Refuses
  <1>6. ASSUME NEW m \in Active, Forgets(m) PROVE proposal'[p] = proposal[p]
    BY <1>6 DEF Forgets
  <1> QED
    BY <1>1, <1>2, <1>3, <1>4, <1>5, <1>6 DEF Change

\* No request to either handler reopens, rewords or reverses a decision.
THEOREM DecisionsStand == Spec => VerdictsStand
  <1>1. IInv /\ [Next]_vars
            => [\A p \in ProposalIds :
                   proposal[p].status \in {"APPROVED", "REJECTED", "EXPIRED"}
                       => proposal'[p] = proposal[p]]_vars
    BY TypeParts, Classified, ChangeKeepsVerdicts DEF IInv
  <1> QED BY <1>1, Invariance, PTL DEF Spec, VerdictsStand

LEMMA ChangeKeepsForgotten ==
    ASSUME TablesTyped, Change, NEW m \in Kept
    PROVE  /\ memory'[m].content = memory[m].content
           /\ memory[m].status = "FORGOTTEN" => memory'[m].status = "FORGOTTEN"
  <1>0. m \in MemoryIds
    BY DEF Kept
  <1>1. CASE UNCHANGED memory
    BY <1>1
  <1>2. ASSUME NEW p \in Pending, NEW n \in MemoryIds, Keeps(p, n)
        PROVE  memory'[m] = memory[m]
    BY <1>0, <1>2, KeptRows DEF Keeps
  <1>3. ASSUME NEW n \in Active, Forgets(n)
        PROVE  memory'[m].content = memory[m].content
               /\ (memory[m].status = "FORGOTTEN" => memory'[m].status = "FORGOTTEN")
    BY <1>0, <1>3, ForgottenRows
  <1> QED
    BY <1>1, <1>2, <1>3 DEF Change, tables, Creates, Rewords, Refuses

\* No request brings a forgotten memory back or changes what a memory says.
THEOREM StaysForgotten == Spec => ForgottenForGood
  <1>1. IInv /\ [Next]_vars
            => [\A m \in Kept :
                  /\ memory'[m].content = memory[m].content
                  /\ memory[m].status = "FORGOTTEN" => memory'[m].status = "FORGOTTEN"]_vars
    BY TypeParts, Classified, ChangeKeepsForgotten DEF IInv
  <1> QED BY <1>1, Invariance, PTL DEF Spec, ForgottenForGood

-----------------------------------------------------------------------------
(* The contract *)

Offered == {<<p, proposal[p].content>> : p \in Pending}
Remembered == {<<origin[m], memory[m].content>> : m \in Active}
Closed == {p \in ProposalIds : ~Fresh(p)} \ Pending

LEMMA OnlyOffered ==
    ASSUME OneOpenProposal, NEW p \in Pending
    PROVE  Pending = {p} /\ Offered = {<<p, proposal[p].content>>}
  BY DEF OneOpenProposal, Offered

LEMMA OpenIdsArePending == Contract!OpenIds = Pending
  <1>1. \A p \in Pending : <<p, proposal[p].content>>[1] = p
    OBVIOUS
  <1> QED BY <1>1 DEF Contract!OpenIds

LEMMA RememberedSame ==
    ASSUME UNCHANGED <<memory, origin>> PROVE Remembered' = Remembered
  BY DEF Remembered, Active

\* What a decision does to the proposals, seen from the contract.
LEMMA DecisionCloses ==
    ASSUME TablesTyped, OneOpenProposal, NEW p \in Pending,
           NEW status \in {"APPROVED", "REJECTED"},
           proposal' = [proposal EXCEPT ![p].status = status]
    PROVE  Offered' = {} /\ Closed' = Closed \cup {p}
  <1>1. Pending = {p} /\ p \in ProposalIds
    BY OnlyOffered DEF Pending
  <1>2. /\ proposal'[p].status = status
        /\ \A q \in ProposalIds \ {p} : proposal'[q] = proposal[q]
    BY DecidedRows
  <1>3. Pending' = {}
    BY <1>1, <1>2 DEF Pending
  <1>4. {q \in ProposalIds : ~Fresh(q)}' = {q \in ProposalIds : ~Fresh(q)}
    <2>1. ~Fresh(p) /\ ~Fresh(p)'
      BY <1>2 DEF Fresh, Pending
    <2>2. \A q \in ProposalIds : Fresh(q)' <=> Fresh(q)
      BY <1>2, <2>1 DEF Fresh
    <2> QED BY <2>2
  <1>5. ~Fresh(p)
    BY DEF Fresh, Pending
  <1> QED BY <1>1, <1>3, <1>4, <1>5 DEF Offered, Closed

LEMMA ChangeKeepsContract ==
    ASSUME TablesTyped, OneOpenProposal, OneMemoryPerApproval, Change
    PROVE  Contract!Next \/ UNCHANGED <<Offered, Remembered, Closed>>
  <1>1. CASE UNCHANGED tables
    BY <1>1 DEF tables, Offered, Remembered, Closed, Pending, Active, Fresh
  <1>2. ASSUME NEW p \in ProposalIds, NEW content \in Contents, Creates(p, content)
        PROVE  Contract!Offer(p, content)
    <2>1. Pending' = {p} /\ proposal'[p].content = content
      BY <1>2, CreatedRows
    <2>2. p \notin Closed \cup Pending
      BY <1>2 DEF Creates, Fresh, Closed, Pending
    <2>3. Offered' = {<<p, content>>}
      BY <2>1 DEF Offered
    <2>4. \A q \in ProposalIds \ {p} : Fresh(q)' <=> Fresh(q)
      <3>1. ASSUME NEW q \in ProposalIds \ {p} PROVE Fresh(q)' <=> Fresh(q)
        <4>1. CASE q \in Pending
          <5>1. proposal[q] \in [status : {"PENDING"}, content : Contents]
            BY <4>1, PendingRow
          <5>2. proposal'[q] = [proposal[q] EXCEPT !.status = "EXPIRED"]
            BY <1>2, <4>1, CreatedRows
          <5> QED BY <5>1, <5>2 DEF Fresh
        <4>2. CASE q \notin Pending
          <5>1. proposal'[q] = proposal[q]
            BY <1>2, <4>2, CreatedRows
          <5> QED BY <5>1 DEF Fresh
        <4> QED BY <4>1, <4>2
      <3> QED BY <3>1
    <2>5. Closed' = Closed \cup Pending
      <3>1. Pending \subseteq {q \in ProposalIds : ~Fresh(q)}
        BY DEF Pending, Fresh
      <3> QED BY <1>2, <2>1, <2>4, <3>1 DEF Closed, Creates
    <2>6. Remembered' = Remembered
      BY <1>2, RememberedSame DEF Creates
    <2> QED
      BY <2>2, <2>3, <2>5, <2>6, OpenIdsArePending
      DEF Contract!Offer, Offered, Remembered, Closed
  <1>3. ASSUME NEW p \in Pending, NEW content \in Contents, Rewords(p, content)
        PROVE  Contract!Reword(p, content)
    <2>1. /\ proposal'[p].status = "PENDING" /\ proposal'[p].content = content
          /\ \A q \in ProposalIds \ {p} : proposal'[q] = proposal[q]
      BY <1>3, RewordedRows
    <2>2. Pending' = Pending /\ Pending = {p} /\ proposal[p].status = "PENDING"
      BY <2>1, OnlyOffered DEF Pending
    <2>3. Offered' = {<<p, content>>}
      BY <2>1, <2>2 DEF Offered
    <2>4. Closed' = Closed
      <3>1. \A q \in ProposalIds : Fresh(q)' <=> Fresh(q)
        BY <2>1, <2>2 DEF Fresh
      <3> QED BY <2>2, <3>1 DEF Closed
    <2>5. Remembered' = Remembered
      BY <1>3, RememberedSame DEF Rewords
    <2> QED
      BY <2>2, <2>3, <2>4, <2>5, OpenIdsArePending
      DEF Contract!Reword, Offered, Remembered, Closed
  <1>4. ASSUME NEW p \in Pending, NEW m \in MemoryIds, Keeps(p, m)
        PROVE  Contract!Accept(<<p, proposal[p].content>>)
    <2>1. Offered = {<<p, proposal[p].content>>}
      BY OnlyOffered
    <2>2. Offered' = {} /\ Closed' = Closed \cup {p}
      BY <1>4, DecisionCloses DEF Keeps
    <2>3. Remembered' = Remembered \cup {<<p, proposal[p].content>>}
      <3>1. Active \subseteq MemoryIds \ {m}
        BY <1>4 DEF Keeps, Active, Kept
      <3>2. /\ memory'[m] = [status |-> "ACTIVE", content |-> proposal[p].content]
            /\ origin'[m] = p
            /\ \A n \in MemoryIds \ {m} : memory'[n] = memory[n] /\ origin'[n] = origin[n]
        BY <1>4, KeptRows
      <3>3. Active' = Active \cup {m}
        BY <3>2 DEF Active
      <3> QED BY <3>1, <3>2, <3>3 DEF Remembered
    <2>4. <<p, proposal[p].content>>[1] = p
      OBVIOUS
    <2> QED
      BY <2>1, <2>2, <2>3, <2>4
      DEF Contract!Accept, Contract!Close, Offered, Remembered, Closed
  <1>5. ASSUME NEW p \in Pending, Refuses(p)
        PROVE  Contract!Refuse(<<p, proposal[p].content>>)
    <2>1. Offered = {<<p, proposal[p].content>>}
      BY OnlyOffered
    <2>2. Offered' = {} /\ Closed' = Closed \cup {p}
      BY <1>5, DecisionCloses DEF Refuses
    <2>3. Remembered' = Remembered
      BY <1>5, RememberedSame DEF Refuses
    <2>4. <<p, proposal[p].content>>[1] = p
      OBVIOUS
    <2> QED
      BY <2>1, <2>2, <2>3, <2>4
      DEF Contract!Refuse, Contract!Close, Offered, Remembered, Closed
  <1>6. ASSUME NEW m \in Active, Forgets(m)
        PROVE  Contract!Forget(<<origin[m], memory[m].content>>)
    <2>1. /\ memory'[m].status = "FORGOTTEN"
          /\ \A n \in MemoryIds \ {m} : memory'[n] = memory[n]
      BY <1>6, ForgottenRows
    <2>2. Active' = Active \ {m}
      BY <2>1 DEF Active
    <2>3. \A n \in Active : n # m => origin[n] # origin[m]
      BY DEF OneMemoryPerApproval, Active, Kept
    <2>4. Remembered' = {<<origin[n], memory[n].content>> : n \in Active \ {m}}
      BY <1>6, <2>1, <2>2 DEF Remembered, Forgets, Active
    <2>5. Remembered' = Remembered \ {<<origin[m], memory[m].content>>}
      BY <2>3, <2>4 DEF Remembered
    <2>6. UNCHANGED <<Offered, Closed>>
      BY <1>6 DEF Forgets, Offered, Closed, Pending, Fresh
    <2>7. <<origin[m], memory[m].content>> \in Remembered
      BY DEF Remembered
    <2> QED
      BY <2>5, <2>6, <2>7 DEF Contract!Forget, Offered, Remembered, Closed
  <1>7. \A p \in Pending : p \in ProposalIds /\ proposal[p].content \in Contents
    BY PendingRow
  <1>8. \A m \in Active : origin[m] \in ProposalIds /\ memory[m].content \in Contents
    BY ActiveRow DEF OneMemoryPerApproval, Active, Kept
  <1>9. ASSUME NEW p \in Pending, NEW m \in MemoryIds, Keeps(p, m) PROVE Contract!Next
    <2>1. Contract!Accept(<<p, proposal[p].content>>)
      BY <1>4, <1>9
    <2>2. p \in ProposalIds /\ proposal[p].content \in Contents
      BY <1>7
    <2> QED BY <2>1, <2>2, Zenon DEF Contract!Next, Contract!Accept, Contract!Close
  <1>10. ASSUME NEW p \in Pending, Refuses(p) PROVE Contract!Next
    <2>1. Contract!Refuse(<<p, proposal[p].content>>)
      BY <1>5, <1>10
    <2>2. p \in ProposalIds /\ proposal[p].content \in Contents
      BY <1>7
    <2> QED BY <2>1, <2>2, Zenon DEF Contract!Next, Contract!Refuse, Contract!Close
  <1>11. ASSUME NEW m \in Active, Forgets(m) PROVE Contract!Next
    <2>1. Contract!Forget(<<origin[m], memory[m].content>>)
      BY <1>6, <1>11
    <2>2. origin[m] \in ProposalIds /\ memory[m].content \in Contents
      BY <1>8
    <2> QED BY <2>1, <2>2, Zenon DEF Contract!Next, Contract!Forget
  <1>12. ASSUME NEW p \in ProposalIds, NEW content \in Contents, Creates(p, content)
         PROVE  Contract!Next
    BY <1>2, <1>12 DEF Contract!Next
  <1>13. ASSUME NEW p \in Pending, NEW content \in Contents, Rewords(p, content)
         PROVE  Contract!Next
    BY <1>3, <1>7, <1>13 DEF Contract!Next
  <1> QED
    BY <1>1, <1>9, <1>10, <1>11, <1>12, <1>13 DEF Change

\* Whichever of the two handlers takes a request, the step is one of the
\* contract or changes nothing in it.
THEOREM ContractKept == Spec => KeepsContract
  <1>1. Init => Contract!Init
    BY DEF Init, Contract!Init, Pending, Active, Fresh, NoRow
  <1>2. IInv /\ [Next]_vars => [Contract!Next]_(Contract!vars)
    BY TypeParts, Classified, ChangeKeepsContract
    DEF IInv, Contract!vars, Offered, Remembered, Closed
  <1> QED
    BY <1>1, <1>2, Invariance, PTL DEF Spec, KeepsContract, Contract!Spec

-----------------------------------------------------------------------------
(* The memory loop's user                                                   *)
(*                                                                         *)
(* A pending proposal is worded as she last read it and is the one her      *)
(* buttons are about, unless the text on its way is the one that is making  *)
(* or rewording it; so a decision on its way was written in front of what   *)
(* it decides.                                                             *)

\* One text at a time: she writes when she has read the answer to the last.
ReadsFirst == MaxInbox = 1

UserTyped ==
    /\ inbox \in Seq([msg : Messages, meant : Offers]) /\ Len(inbox) <= 1
    /\ lost \in 0 .. MaxLost
    /\ seen \in [ProposalIds -> Contents \cup {None}]
    /\ top \in ProposalIds \cup {None}
    /\ verdict \in [ProposalIds -> Offers]

\* What is on its way was meant for what is still on her screen.
WrittenInFront ==
    inbox # <<>> =>
        /\ Head(inbox).meant = Meant(Head(inbox).msg.text)
        /\ Head(inbox).msg.text.says \in {"approve", "reject"} => top # None

AsRead(p) == seen[p] = proposal[p].content /\ top \in {None, p}

OffersAnew(msg, p) == msg.replyTo = p \/ (msg.replyTo = None /\ msg.text.says = "remember")

ScreenOK == \A p \in Pending : AsRead(p) \/ (inbox # <<>> /\ OffersAnew(Head(inbox).msg, p))

UserInv == UserTyped /\ WrittenInFront /\ ScreenOK /\ DecidedAsShown

\* What a message does to the proposals: it decides one, offers one, or leaves
\* them alone; and what it answers follows.
Decides(msg, p) ==
    /\ msg.replyTo = None
    /\ \/ msg.text.says \in {"approve_id", "reject_id"} /\ msg.text.about = p
       \/ msg.text.says \in {"approve", "reject"} /\ Pending = {p}
    /\ \E verdictOf \in {"APPROVED", "REJECTED"} :
           proposal' = [proposal EXCEPT ![p].status = verdictOf]
    /\ reply'.kind \in {"approved", "rejected"}

Shows(msg, p) ==
    /\ reply'.kind \in {"proposed", "edited"} /\ reply'.shows = p
    /\ \/ \E content \in Contents : Creates(p, content)
       \/ p \in Pending /\ \E content \in Contents : Rewords(p, content)
    /\ OffersAnew(msg, p)

Leaves(msg) ==
    /\ UNCHANGED proposal
    /\ reply'.kind \notin {"proposed", "edited"}
    /\ msg.replyTo \notin Pending
    /\ ~(msg.replyTo = None /\ msg.text.says = "remember")

LEMMA KindOf ==
    ASSUME NEW kind, NEW p, reply' = Reply(kind, p)
    PROVE  reply'.kind = kind /\ reply'.shows = p
  BY DEF Reply

LEMMA HandleOffers ==
    ASSUME NEW msg \in Messages, Handle(msg)
    PROVE  \/ \E p \in Pending : Decides(msg, p)
           \/ \E p \in ProposalIds : Shows(msg, p)
           \/ Leaves(msg)
  <1>0. msg.text \in Texts /\ None \notin ProposalIds
    BY NoneAssumption DEF Messages
  <1>1. CASE Edit(msg)
    <2>1. Wording(msg.text) \in Contents
      BY <1>0, WordingIsContent
    <2>2. msg.replyTo \in Pending /\ Rewords(msg.replyTo, Wording(msg.text))
          /\ reply' = Reply("edited", msg.replyTo)
      BY <1>1 DEF Edit, Editable, Rewords
    <2>3. msg.replyTo \in ProposalIds
      BY <2>2 DEF Pending
    <2>4. Shows(msg, msg.replyTo)
      BY <2>1, <2>2, KindOf DEF Shows, OffersAnew
    <2> QED BY <2>3, <2>4
  <1>2. CASE EditUnavailable(msg)
    <2>1. UNCHANGED proposal /\ reply' = Reply("edit_unavailable", None)
          /\ msg.replyTo # None /\ msg.replyTo \notin Pending
      BY <1>2 DEF EditUnavailable, Only, Editable
    <2> QED BY <2>1, KindOf DEF Leaves
  <1>3. ASSUME NEW kind \in Kinds \ {"proposed", "edited"}, NEW p, Only(kind, p),
               NEW what \in Requests \cup {"approve_id", "reject_id", "forget"}, Says(msg, what)
        PROVE  Leaves(msg)
    <2>1. UNCHANGED proposal /\ reply'.kind = kind
      BY <1>3, KindOf DEF Only
    <2>2. msg.replyTo = None /\ msg.text.says # "remember" /\ msg.replyTo \notin Pending
      BY <1>0, <1>3 DEF Says, Requests, Decisions, Pending
    <2> QED BY <2>1, <2>2 DEF Leaves
  <1>4. CASE Undecidable(msg) \/ Remind(msg) \/ AskForEdit(msg)
    BY <1>3, <1>4 DEF Undecidable, Remind, AskForEdit, Kinds, Requests, Decisions
  <1>5. CASE Unknown(msg) \/ AlreadyFinalized(msg) \/ NothingToForget(msg) \/ Recall(msg)
    BY <1>3, <1>5 DEF Unknown, AlreadyFinalized, NothingToForget, Recall, DecidesById, Kinds, Requests
  <1>6. CASE ApproveOnly(msg) \/ RejectOnly(msg)
    <2> PICK p \in Pending : Pending = {p} /\ (Keep(p) \/ Refuse(p)) /\ msg.replyTo = None
                             /\ msg.text.says \in {"approve", "reject"}
      BY <1>6 DEF ApproveOnly, RejectOnly, OnlyPending, Says
    <2>1. Decides(msg, p)
      BY KindOf DEF Decides, Keep, Refuse, Decided
    <2> QED BY <2>1
  <1>7. CASE ApproveById(msg) \/ RejectById(msg)
    <2> DEFINE p == msg.text.about
    <2>1. p \in Pending /\ (Keep(p) \/ Refuse(p)) /\ msg.replyTo = None
          /\ msg.text.says \in {"approve_id", "reject_id"}
      BY <1>7 DEF ApproveById, RejectById, Open, Says
    <2>2. Decides(msg, p)
      BY <2>1, KindOf DEF Decides, Keep, Refuse, Decided
    <2> QED BY <2>1, <2>2
  <1>8. CASE Forget(msg)
    <2>1. UNCHANGED proposal /\ reply' = Reply("forgotten", None)
          /\ msg.replyTo = None /\ msg.text.says = "forget"
      BY <1>8 DEF Forget, Says
    <2> QED BY <1>0, <2>1, KindOf DEF Leaves, Pending
  <1>9. CASE Propose(msg)
    <2>1. msg.text.about \in Contents /\ msg.replyTo = None /\ msg.text.says = "remember"
      BY <1>0, <1>9 DEF Propose, Says, Texts, Contents, Requests, Decisions
    <2> PICK p \in ProposalIds : Creates(p, msg.text.about) /\ reply' = Reply("proposed", p)
      BY <1>9 DEF Propose, Create, Creates
    <2>2. Shows(msg, p)
      BY <2>1, KindOf DEF Shows, OffersAnew
    <2> QED BY <2>2
  <1> QED
    BY <1>1, <1>2, <1>4, <1>5, <1>6, <1>7, <1>8, <1>9 DEF Handle

LEMMA OnlyOne ==
    ASSUME UserTyped, inbox # <<>>
    PROVE  /\ Head(inbox) \in [msg : Messages, meant : Offers]
           /\ Head(inbox).msg \in Messages /\ Head(inbox).meant \in Offers
           /\ Tail(inbox) = <<>>
  <1> DEFINE R == [msg : Messages, meant : Offers]
  <1>1. inbox \in Seq(R) /\ Len(inbox) <= 1
    BY DEF UserTyped
  <1> HIDE DEF R
  <1>2. Head(inbox) \in R /\ Tail(inbox) = <<>>
    BY <1>1
  <1> QED BY <1>2 DEF R

\* With the one open proposal decided, none is left; with one shown, it is the
\* one that is open.
LEMMA OpenAfter ==
    ASSUME TablesTyped, OneOpenProposal, NEW msg
    PROVE  /\ \A p \in Pending : Decides(msg, p) => Pending' = {}
           /\ \A p \in ProposalIds : Shows(msg, p) => Pending' = {p}
  <1>1. ASSUME NEW p \in Pending, Decides(msg, p) PROVE Pending' = {}
    <2>1. proposal'[p].status # "PENDING" /\ \A q \in ProposalIds \ {p} : proposal'[q] = proposal[q]
      BY <1>1, DecidedRows DEF Decides
    <2>2. Pending = {p}
      BY DEF OneOpenProposal
    <2> QED BY <2>1, <2>2 DEF Pending
  <1>2. ASSUME NEW p \in ProposalIds, Shows(msg, p) PROVE Pending' = {p}
    <2>1. CASE \E content \in Contents : Creates(p, content)
      BY <2>1, CreatedRows
    <2>2. CASE p \in Pending /\ \E content \in Contents : Rewords(p, content)
      <3>1. proposal'[p].status = "PENDING" /\ \A q \in ProposalIds \ {p} : proposal'[q] = proposal[q]
        BY <2>2, RewordedRows
      <3>2. Pending = {p}
        BY <2>2 DEF OneOpenProposal
      <3> QED BY <3>1, <3>2 DEF Pending
    <2> QED BY <1>2, <2>1, <2>2 DEF Shows
  <1> QED BY <1>1, <1>2

\* A decision that is taken was written in front of what it decides.
LEMMA MeantAsKept ==
    ASSUME UserInv, inbox # <<>>, NEW p \in Pending, Decides(Head(inbox).msg, p)
    PROVE  Head(inbox).meant = <<p, proposal[p].content>>
  <1> DEFINE e == Head(inbox)
  <1>1. None \notin ProposalIds /\ p \in ProposalIds
    BY NoneAssumption DEF Pending
  <1>2. ~OffersAnew(e.msg, p) /\ e.meant = Meant(e.msg.text)
        /\ (e.msg.text.says \in {"approve", "reject"} => top # None)
    BY <1>1 DEF Decides, OffersAnew, UserInv, WrittenInFront
  <1>3. seen[p] = proposal[p].content /\ top \in {None, p}
    BY <1>2 DEF UserInv, ScreenOK, AsRead
  <1> HIDE DEF e
  <1>4. Meant(e.msg.text) = <<p, seen[p]>>
    BY <1>2, <1>3 DEF Decides, Meant, Shown, e
  <1> QED BY <1>2, <1>3, <1>4 DEF e

LEMMA ProcessShown ==
    ASSUME IInv, UserInv, Process
    PROVE  DecidedAsShown' /\ verdict' \in [ProposalIds -> Offers]
  <1> DEFINE e == Head(inbox)
  <1>1. /\ inbox # <<>> /\ e \in [msg : Messages, meant : Offers] /\ Handle(e.msg)
        /\ \A p \in ProposalIds :
              verdict'[p] = IF p \in Pending /\ proposal'[p].status \in {"APPROVED", "REJECTED"}
                            THEN e.meant ELSE verdict[p]
    BY OnlyOne DEF Process, UserInv
  <1>2. verdict' \in [ProposalIds -> Offers]
    <2>1. e.meant \in Offers
      BY <1>1, OnlyOne DEF UserInv
    <2> HIDE DEF e
    <2> QED BY <2>1, <1>1 DEF Process, UserInv, UserTyped, e
  <1>3. TablesTyped /\ OneOpenProposal
    BY TypeParts DEF IInv
  <1> HIDE DEF e
  <1>4. ASSUME NEW p \in Pending, Decides(e.msg, p) PROVE DecidedAsShown'
    <2>1. proposal'[p].content = proposal[p].content /\ p \in ProposalIds
          /\ \A q \in ProposalIds \ {p} : proposal'[q] = proposal[q]
      BY <1>3, <1>4, DecidedRows DEF Decides, Pending
    <2>2. e.meant = <<p, proposal'[p].content>>
      BY <1>1, <1>4, <2>1, MeantAsKept DEF e
    <2>3. proposal'[p].status \in {"APPROVED", "REJECTED"}
      BY <1>3, <1>4, DecidedRows DEF Decides
    <2> QED BY <1>1, <2>1, <2>2, <2>3 DEF DecidedAsShown, UserInv, Pending
  <1>5. ASSUME NEW p \in ProposalIds, Shows(e.msg, p) PROVE DecidedAsShown'
    <2>1. \A q \in ProposalIds : proposal'[q].status \in {"APPROVED", "REJECTED"}
                                    => q \notin Pending /\ proposal'[q] = proposal[q]
      <3>1. CASE \E content \in Contents : Creates(p, content)
        <4>1. /\ proposal'[p].status = "PENDING"
              /\ \A q \in ProposalIds \ {p} :
                    /\ q \in Pending => proposal'[q] = [proposal[q] EXCEPT !.status = "EXPIRED"]
                    /\ q \notin Pending => proposal'[q] = proposal[q]
          BY <1>3, <3>1, CreatedRows
        <4>2. \A q \in Pending : [proposal[q] EXCEPT !.status = "EXPIRED"].status = "EXPIRED"
          BY <1>3, PendingRow
        <4> QED BY <4>1, <4>2
      <3>2. CASE p \in Pending /\ \E content \in Contents : Rewords(p, content)
        <4>1. proposal'[p].status = "PENDING" /\ \A q \in ProposalIds \ {p} : proposal'[q] = proposal[q]
          BY <1>3, <3>2, RewordedRows
        <4> QED BY <4>1 DEF Pending
      <3> QED BY <1>5, <3>1, <3>2 DEF Shows
    <2> QED BY <1>1, <2>1 DEF DecidedAsShown, UserInv
  <1>6. ASSUME Leaves(e.msg) PROVE DecidedAsShown'
    <2>1. proposal' = proposal
      BY <1>6 DEF Leaves
    <2>2. \A p \in ProposalIds : p \in Pending => proposal[p].status \notin {"APPROVED", "REJECTED"}
      BY DEF Pending
    <2>3. \A p \in ProposalIds : proposal[p].status \in {"APPROVED", "REJECTED"} => verdict'[p] = verdict[p]
      BY <1>1, <2>1, <2>2
    <2> QED BY <2>1, <2>3 DEF DecidedAsShown, UserInv
  <1>7. e.msg \in Messages
    BY <1>1, OnlyOne DEF UserInv, e
  <1> QED BY <1>1, <1>2, <1>4, <1>5, <1>6, <1>7, HandleOffers

LEMMA ProcessTyped ==
    ASSUME IInv, UserInv, Process PROVE IInv'
  <1>1. Head(inbox).msg \in Messages
    BY OnlyOne DEF Process, UserInv
  <1> QED BY <1>1, NextIInv DEF Process, Next

LEMMA DeliverKeeps ==
    ASSUME IInv, UserInv, Deliver PROVE UserInv'
  <1> DEFINE msg == Head(inbox).msg
  <1>1. Process /\ inbox # <<>> /\ Handle(msg) /\ inbox' = <<>> /\ msg \in Messages
        /\ TablesTyped /\ OneOpenProposal /\ None \notin ProposalIds
    BY TypeParts, NoneAssumption, OnlyOne DEF Deliver, Process, UserInv, IInv
  <1>2. /\ seen' = IF ShowsOffer THEN [seen EXCEPT ![reply'.shows] = proposal'[reply'.shows].content]
                   ELSE seen
        /\ top' = IF ShowsOffer THEN reply'.shows
                  ELSE IF reply'.kind \in {"approved", "rejected", "no_pending", "edit_unavailable"} THEN None
                  ELSE top
        /\ UNCHANGED lost
    BY DEF Deliver
  <1>3. seen \in [ProposalIds -> Contents \cup {None}] /\ top \in ProposalIds \cup {None}
    BY DEF UserInv, UserTyped
  <1>4. WrittenInFront'
    BY <1>1 DEF WrittenInFront
  <1> HIDE DEF msg
  <1>5. ASSUME NEW p \in ProposalIds, Shows(msg, p)
        PROVE  /\ ScreenOK' /\ seen' \in [ProposalIds -> Contents \cup {None}]
               /\ top' \in ProposalIds \cup {None}
    <2>1. seen' = [seen EXCEPT ![p] = proposal'[p].content] /\ top' = p
      BY <1>2, <1>5 DEF Shows, ShowsOffer
    <2>2. Pending' = {p}
      BY <1>1, <1>5, OpenAfter
    <2>3. proposal'[p].content \in Contents
      BY <1>1, <1>5, CreatedRows, RewordedRows DEF Shows
    <2> QED BY <1>3, <2>1, <2>2, <2>3 DEF ScreenOK, AsRead
  <1>6. ASSUME NEW p \in Pending, Decides(msg, p)
        PROVE  /\ ScreenOK' /\ seen' \in [ProposalIds -> Contents \cup {None}]
               /\ top' \in ProposalIds \cup {None}
    <2>1. Pending' = {}
      BY <1>1, <1>6, OpenAfter
    <2> QED BY <1>2, <1>3, <1>6, <2>1 DEF ScreenOK, Decides, ShowsOffer
  <1>7. ASSUME Leaves(msg)
        PROVE  /\ ScreenOK' /\ seen' \in [ProposalIds -> Contents \cup {None}]
               /\ top' \in ProposalIds \cup {None}
    <2>1. seen' = seen /\ top' \in {None, top} /\ Pending' = Pending
      BY <1>2, <1>7 DEF Leaves, ShowsOffer, Pending
    <2>2. \A p \in Pending : AsRead(p)
      BY <1>7 DEF Leaves, UserInv, ScreenOK, OffersAnew, msg
    <2> QED BY <1>3, <1>7, <2>1, <2>2 DEF ScreenOK, AsRead, Leaves
  <1>8. /\ ScreenOK' /\ seen' \in [ProposalIds -> Contents \cup {None}]
        /\ top' \in ProposalIds \cup {None}
    BY <1>1, <1>5, <1>6, <1>7, HandleOffers
  <1>9. DecidedAsShown' /\ verdict' \in [ProposalIds -> Offers]
    BY <1>1, ProcessShown
  <1>10. UserTyped'
    BY <1>1, <1>2, <1>8, <1>9 DEF UserInv, UserTyped
  <1> QED BY <1>4, <1>8, <1>9, <1>10 DEF UserInv

LEMMA UnansweredKeeps ==
    ASSUME IInv, UserInv, DeliverUnanswered PROVE UserInv'
  <1> DEFINE msg == Head(inbox).msg
  <1>1. Process /\ inbox # <<>> /\ Handle(msg) /\ msg \in Messages /\ UNCHANGED <<inbox, seen, top>>
        /\ TablesTyped /\ OneOpenProposal
    BY TypeParts, OnlyOne DEF DeliverUnanswered, Process, UserInv, IInv
  <1>2. DecidedAsShown' /\ verdict' \in [ProposalIds -> Offers]
    BY <1>1, ProcessShown
  <1>3. UserTyped'
    BY <1>1, <1>2, MaxLostAssumption DEF DeliverUnanswered, UserInv, UserTyped
  <1>4. WrittenInFront'
    BY <1>1 DEF UserInv, WrittenInFront, Meant, Shown
  <1> HIDE DEF msg
  <1>5. ASSUME NEW p \in ProposalIds, Shows(msg, p) PROVE ScreenOK'
    <2>1. Pending' = {p}
      BY <1>1, <1>5, OpenAfter
    <2> QED BY <1>1, <1>5, <2>1 DEF ScreenOK, Shows, OffersAnew, msg
  <1>6. ASSUME NEW p \in Pending, Decides(msg, p) PROVE ScreenOK'
    BY <1>1, <1>6, OpenAfter DEF ScreenOK
  <1>7. ASSUME Leaves(msg) PROVE ScreenOK'
    BY <1>1, <1>7 DEF Leaves, UserInv, ScreenOK, AsRead, Pending
  <1> QED BY <1>1, <1>2, <1>3, <1>4, <1>5, <1>6, <1>7, HandleOffers DEF UserInv

LEMMA SendKeeps ==
    ASSUME UserInv, ReadsFirst, NEW msg \in Messages, Send(msg) PROVE UserInv'
  <1> DEFINE e == [msg |-> msg, meant |-> Meant(msg.text)]
  <1>0. inbox = <<>>
    <2> DEFINE R == [msg : Messages, meant : Offers]
    <2>1. inbox \in Seq(R) /\ Len(inbox) < 1
      BY DEF Send, UserInv, UserTyped, ReadsFirst
    <2> HIDE DEF R
    <2> QED BY <2>1
  <1>1. inbox = <<>> /\ inbox' = <<e>> /\ UNCHANGED <<vars, lost, seen, top, verdict>>
    BY <1>0 DEF Send
  <1>2. /\ msg.text.says \in {"approve_id", "reject_id"} => seen[msg.text.about] # None
        /\ msg.text.says \in {"approve", "reject"} => top # None
    BY DEF Send, Writable
  <1>3. Meant(msg.text) \in Offers
    <2>1. \A p \in ProposalIds : Shown(p) \in Offers
      BY DEF UserInv, UserTyped, Shown, Offers
    <2>2. msg.text.says \in {"approve_id", "reject_id"} => msg.text.about \in ProposalIds
      BY DEF Messages, Texts, Requests, Decisions
    <2>3. top # None => top \in ProposalIds
      BY DEF UserInv, UserTyped
    <2>4. NoOffer \in Offers
      BY DEF Offers
    <2> QED BY <2>1, <2>2, <2>3, <2>4 DEF Meant
  <1>4. e \in [msg : Messages, meant : Offers] /\ e.msg = msg /\ e.meant = Meant(msg.text)
    BY <1>3
  <1> HIDE DEF e
  <1>5. inbox' \in Seq([msg : Messages, meant : Offers]) /\ Len(inbox') = 1 /\ Head(inbox') = e
        /\ inbox' # <<>>
    BY <1>1, <1>4
  <1>6. UserTyped'
    BY <1>1, <1>5 DEF UserInv, UserTyped
  <1>7. WrittenInFront'
    BY <1>1, <1>2, <1>4, <1>5 DEF WrittenInFront, Meant, Shown
  <1>8. ScreenOK' /\ DecidedAsShown'
    BY <1>1 DEF vars, UserInv, ScreenOK, AsRead, DecidedAsShown, Pending
  <1> QED BY <1>6, <1>7, <1>8 DEF UserInv

LEMMA UserInit == DeliveryInit => IInv /\ UserInv
  <1> SUFFICES ASSUME DeliveryInit PROVE UserInv
    BY InitIInv DEF DeliveryInit
  <1>1. \A p \in ProposalIds : proposal[p].status = "none"
    BY DEF DeliveryInit, Init, NoRow
  <1>2. UserTyped
    BY MaxLostAssumption DEF DeliveryInit, UserTyped, Offers
  <1> QED BY <1>1, <1>2
      DEF DeliveryInit, UserInv, WrittenInFront, ScreenOK, DecidedAsShown, Pending

LEMMA UserNext ==
    ASSUME ReadsFirst, IInv, UserInv, [DeliveryNext]_allVars PROVE IInv' /\ UserInv'
  <1>1. ASSUME NEW msg \in Messages, Send(msg) PROVE IInv' /\ UserInv'
    <2>1. UNCHANGED vars
      BY <1>1 DEF Send
    <2> QED BY <1>1, <2>1, SendKeeps, NextIInv
  <1>2. CASE Deliver
    BY <1>2, DeliverKeeps, ProcessTyped DEF Deliver
  <1>3. CASE DeliverUnanswered
    BY <1>3, UnansweredKeeps, ProcessTyped DEF DeliverUnanswered
  <1>4. CASE UNCHANGED allVars
    <2>1. IInv'
      BY <1>4, NextIInv DEF allVars
    <2> QED BY <1>4, <2>1 DEF allVars, delivery, vars, UserInv, UserTyped, WrittenInFront, Meant,
                             Shown, ScreenOK, AsRead, DecidedAsShown, Pending
  <1> QED BY <1>1, <1>2, <1>3, <1>4 DEF DeliveryNext

\* Every decision that is carried out was written in front of the proposal it
\* decides, worded as it is kept, however many answers are lost.
THEOREM ShownIsDecided ==
    ASSUME ReadsFirst
    PROVE  DeliverySpec => [](DeliveryTypeOK /\ DecidedAsShown)
  <1>1. DeliveryInit => IInv /\ UserInv
    BY UserInit
  <1>2. (IInv /\ UserInv) /\ [DeliveryNext]_allVars => (IInv /\ UserInv)'
    BY UserNext
  <1>3. IInv /\ UserInv => DeliveryTypeOK /\ DecidedAsShown
    BY DEF IInv, UserInv, UserTyped, DeliveryTypeOK, ReadsFirst
  <1> QED BY <1>1, <1>2, <1>3, PTL DEF DeliverySpec

\* The same where she is one of several that move, as run loops checks it.
THEOREM ShownIsDecidedAmongLoops ==
    ASSUME ReadsFirst
    PROVE  MCSpec => []SheDecidesAsShown
  <1> DEFINE Inv == part = "user" => IInv /\ UserInv
  <1>1. MCInit => Inv
    BY UserInit DEF MCInit
  <1>2. Inv /\ [MCNext]_mcVars => Inv'
    <2> SUFFICES ASSUME part = "user", IInv, UserInv, [MCNext]_mcVars PROVE IInv' /\ UserInv'
      BY DEF MCNext, FromAnywhere, FromUser, TalkMoves, PollingMoves, OnlyMemory, OnlyTalk,
             OnlyPolling, mcVars
    <2>1. [DeliveryNext]_allVars
      BY DEF MCNext, FromAnywhere, FromUser, TalkMoves, PollingMoves, OnlyTalk, OnlyPolling, mcVars
    <2> QED BY <2>1, UserNext
  <1>3. Inv => SheDecidesAsShown
    BY DEF IInv, UserInv, UserTyped, SheDecidesAsShown, DeliveryTypeOK, ReadsFirst
  <1> QED BY <1>1, <1>2, <1>3, PTL DEF MCSpec

-----------------------------------------------------------------------------
(* The polling loop, for every poll_limit and any number of updates and     *)
(* failures                                                                 *)

\* The batch reaches less than poll_limit past what is confirmed.
BatchOK ==
    /\ at <= upTo + 1 \/ at = 1
    /\ upTo < confirmed + PollLimit
    /\ at <= upTo => confirmed <= at
    /\ offset # NoOffset => offset = at /\ confirmed <= at /\ at <= upTo + 1

\* Everything behind the position is settled, and so is what an answer has passed.
SettledOK ==
    /\ \A u \in Known : u < confirmed \/ u < at => Settled(u)
    /\ \A u \in Known, v \in answered : u < v => Settled(u)

\* This life's answers lie behind its offset.
LifeOK == \A u \in Ids : times[u] = 0 \/ (times[u] = 1 /\ offset # NoOffset /\ u < at)

PollingInv == PollTypeOK /\ BatchOK /\ SettledOK /\ ReplayWindow /\ LifeOK

LEMMA InitPolling == PollInit => PollingInv
BY PollLimitAssumption, BoundsAssumption
   DEF PollInit, PollingInv, PollTypeOK, BatchOK, SettledOK, ReplayWindow, LifeOK, NoOffset, Known, UpdateKinds, Ids

\* An update that arrives leaves the older ones where they are.
LEMMA ArriveKeeps ==
    ASSUME PollingInv, NEW kind \in UpdateKinds, Arrive(kind)
    PROVE  PollingInv'
<1>1. updates' \in Seq(UpdateKinds) /\ Len(updates') = Len(updates) + 1
      /\ \A u \in Known : updates'[u] = updates[u]
  BY DEF Arrive, PollingInv, PollTypeOK, Known
<1>2. PollTypeOK'
  BY <1>1, BoundsAssumption DEF Arrive, PollingInv, PollTypeOK, Known
<1>3. \A u \in Known' : u \in Known \/ u = Len(updates) + 1
  BY <1>1 DEF Known, PollingInv, PollTypeOK
<1>4. \A u \in Known : Settled(u) => Settled(u)'
  BY <1>1 DEF Arrive, Settled
<1>5. SettledOK'
  BY <1>2, <1>3, <1>4 DEF Arrive, PollingInv, PollTypeOK, SettledOK, Known
<1> QED BY <1>2, <1>5 DEF Arrive, PollingInv, BatchOK, ReplayWindow, LifeOK, NoOffset

\* A poll confirms what lies before the offset, all of it settled, and leaves
\* the position where it was unless the loop has only begun.
LEMMA PollKeeps ==
    ASSUME PollingInv, Poll
    PROVE  PollingInv'
<1> USE PollLimitAssumption DEF PollingInv, NoOffset
<1>1. FirstPending \in 1 .. Len(updates) + 1 /\ confirmed <= FirstPending
      /\ (offset # 0 => FirstPending = at) /\ (offset = 0 => FirstPending = confirmed)
  BY DEF FirstPending, PollTypeOK, BatchOK
<1>2. LastOfBatch(FirstPending) \in 0 .. Len(updates)
      /\ LastOfBatch(FirstPending) < FirstPending + PollLimit
      /\ FirstPending <= LastOfBatch(FirstPending) + 1
  BY <1>1 DEF LastOfBatch, PollTypeOK
<1>3. PollTypeOK'
  BY <1>1, <1>2 DEF Poll, PollTypeOK, Known
<1>4. BatchOK'
  BY <1>1, <1>2, <1>3 DEF Poll, BatchOK, PollTypeOK
<1>5. SettledOK'
  BY <1>1, <1>3 DEF Poll, SettledOK, Settled, PollTypeOK, Known
<1>6. ReplayWindow'
  BY <1>1, <1>3 DEF Poll, ReplayWindow, PollTypeOK, Known
<1>7. LifeOK'
  BY <1>1 DEF Poll, LifeOK
<1> QED BY <1>3, <1>4, <1>5, <1>6, <1>7

\* An update ignored or answered is settled, and offset and position follow it.
LEMMA HandledKeeps ==
    ASSUME PollingInv, at <= upTo, Handled(at), answered' \in {answered, answered \cup {at}},
           updates[at] = "unreadable" \/ at \in answered',
           times' = times \/ (times' = [times EXCEPT ![at] = @ + 1]),
           UNCHANGED <<updates, confirmed, up, upTo, failures>>
    PROVE  PollingInv'
<1> USE PollLimitAssumption DEF PollingInv, NoOffset
<1>1. at \in Known /\ at \in Ids /\ confirmed <= at /\ at' = at + 1 /\ offset' = at + 1
  <2>1. Len(updates) \in Nat /\ Len(updates) <= MaxUpdates
    BY DEF PollTypeOK
  <2>2. at \in Int /\ upTo \in Int /\ 1 <= at /\ upTo <= Len(updates)
    BY <2>1 DEF PollTypeOK
  <2>3. at \in Known /\ at \in Ids
    BY <2>1, <2>2, BoundsAssumption DEF Known, Ids
  <2>4. confirmed <= at
    BY DEF BatchOK
  <2> QED BY <2>3, <2>4 DEF Handled, NextOffset
<1>2. PollTypeOK'
  BY <1>1 DEF PollTypeOK, Known, Ids
<1>3. BatchOK'
  BY <1>1 DEF BatchOK, PollTypeOK
<1>4. SettledOK'
  <2>1. \A u \in Known : u < at => Settled(u)'
    BY DEF SettledOK, Settled
  <2>2. \A u \in Known : u = at => Settled(u)'
    BY DEF Settled
  <2>3. \A u \in Known : Settled(u) => Settled(u)'
    BY DEF Settled
  <2>4. \A u \in Known : u < confirmed => Settled(u)'
    BY <2>3 DEF SettledOK
  <2>5. \A u \in Known : u < at' => u < at \/ u = at
    BY <1>1 DEF Known
  <2>6. \A u \in Known, v \in answered' : u < v => Settled(u)'
    <3>1. \A u \in Known, v \in answered : u < v => Settled(u)'
      BY <2>3 DEF SettledOK
    <3> QED BY <2>1, <3>1
  <2>7. Known' = Known
    BY DEF Known
  <2> QED BY <2>1, <2>2, <2>4, <2>5, <2>6, <2>7 DEF SettledOK
<1>5. ReplayWindow'
  BY <1>1 DEF ReplayWindow, BatchOK, PollTypeOK
<1>6. LifeOK'
  <2>1. times[at] = 0
    BY <1>1 DEF LifeOK, PollTypeOK
  <2>2. \A u \in Ids : times'[u] = IF u = at THEN times'[at] ELSE times[u]
    BY <1>1 DEF PollTypeOK
  <2>3. times'[at] \in {0, 1}
    BY <1>1, <2>1 DEF PollTypeOK
  <2> QED BY <1>1, <2>2, <2>3 DEF LifeOK, PollTypeOK, Ids
<1> QED BY <1>2, <1>3, <1>4, <1>5, <1>6

\* A sum that starts at one is positive.
LEMMA SumPositive == \A c, p \in Nat : 1 <= c => 0 < c + p
  OBVIOUS

\* The end of the process takes back no answer and confirms nothing unsettled.
LEMMA EndKeeps ==
    ASSUME PollingInv, EndProcess, updates' = updates,
           answered' = answered \/ (at \in Fetched /\ answered' = answered \cup {at}),
           confirmed' \in {confirmed, FirstPending},
           failures' \in 0 .. MaxFailures
    PROVE  PollingInv'
<1>0. PollTypeOK /\ BatchOK /\ SettledOK /\ ReplayWindow
  BY DEF PollingInv
<1>1. confirmed' \in 1 .. Len(updates) + 1 /\ confirmed <= confirmed'
      /\ (confirmed' = confirmed \/ confirmed' = at)
  BY <1>0 DEF FirstPending, PollTypeOK, BatchOK, NoOffset
<1>2. at \in Fetched => at \in Known /\ confirmed <= at /\ at < confirmed + PollLimit
  BY <1>0, PollLimitAssumption DEF Fetched, PollTypeOK, BatchOK, Known
<1>3. Len(updates) \in Nat /\ confirmed \in Nat /\ confirmed' \in Nat /\ 1 <= confirmed'
      /\ Known \subseteq Nat
  BY <1>0, <1>1 DEF PollTypeOK, Known
<1>4. at' = 1 /\ upTo' = 0 /\ offset' = 0 /\ up' = FALSE /\ times' = [u \in Ids |-> 0]
  BY DEF EndProcess, NoOffset
<1>5. PollTypeOK'
  <2>1. updates' \in Seq(UpdateKinds) /\ Len(updates') <= MaxUpdates
    BY <1>0 DEF PollTypeOK
  <2>2. answered' \subseteq Known'
    BY <1>0, <1>2 DEF PollTypeOK, Known
  <2>3. times' \in [Ids -> Nat]
    BY <1>4
  <2>4. confirmed' \in 1 .. Len(updates') + 1
    BY <1>1
  <2>5. offset' \in 0 .. Len(updates') + 1 /\ at' \in 1 .. Len(updates') + 1 /\ upTo' \in 0 .. Len(updates')
    BY <1>3, <1>4
  <2> QED BY <1>4, <2>1, <2>2, <2>3, <2>4, <2>5 DEF PollTypeOK
<1>6. BatchOK'
  <2>1. 0 < confirmed' + PollLimit
    <3>1. PollLimit \in Nat
      BY PollLimitAssumption
    <3>2. confirmed' \in Nat /\ 1 <= confirmed'
      BY <1>3
    <3> QED BY <3>1, <3>2, SumPositive, Zenon
  <2>2. at' = 1 /\ upTo' = 0 /\ offset' = NoOffset
    BY <1>4 DEF NoOffset
  <2>3. ~(at' <= upTo')
    BY <2>2
  <2> QED BY <2>1, <2>2, <2>3 DEF BatchOK
<1>7. SettledOK'
  <2>1. \A u \in Known : Settled(u) => Settled(u)'
    BY DEF Settled
  <2>2. \A u \in Known : u < confirmed' \/ u < 1 => Settled(u)
    BY <1>0, <1>1, <1>3 DEF SettledOK
  <2>3. \A u \in Known, v \in answered' : u < v => Settled(u)
    BY <1>0, <1>2 DEF SettledOK
  <2>4. Known' = Known
    BY DEF Known
  <2> QED BY <1>4, <2>1, <2>2, <2>3, <2>4 DEF SettledOK
<1>8. ReplayWindow'
  <2>1. answered \subseteq Nat
    BY <1>0, <1>3 DEF PollTypeOK
  <2>2. \A u \in answered : u < confirmed + PollLimit
    BY <1>0 DEF ReplayWindow
  <2>3. \A u \in answered' : u \in Nat /\ u < confirmed + PollLimit
    BY <1>2, <1>3, <2>1, <2>2
  <2> QED BY <1>1, <1>3, <2>3, PollLimitAssumption DEF ReplayWindow
<1>9. LifeOK'
  BY <1>4 DEF LifeOK
<1> QED BY <1>5, <1>6, <1>7, <1>8, <1>9 DEF PollingInv

LEMMA NextPolling ==
    ASSUME PollingInv, [PollNext]_pollVars
    PROVE  PollingInv'
<1> USE BoundsAssumption
<1>1. ASSUME NEW kind \in UpdateKinds, Arrive(kind) PROVE PollingInv'
  BY <1>1, ArriveKeeps
<1>2. CASE Poll
  BY <1>2, PollKeeps
<1>3. CASE up /\ at <= upTo /\ Ignore(at)
  BY <1>3, HandledKeeps DEF Ignore
<1>4. CASE up /\ at <= upTo /\ Answer(at)
  BY <1>4, HandledKeeps DEF Answer
<1>5. CASE up /\ at <= upTo /\ Raise(at)
  BY <1>5, EndKeeps DEF Raise, PollingInv, PollTypeOK
<1>6. CASE up /\ at <= upTo /\ SendFails(at)
  <2>1. at \in Fetched
    BY <1>6 DEF Fetched, PollingInv, PollTypeOK
  <2>2. failures' \in 0 .. MaxFailures
    BY <1>6 DEF SendFails, Fail, PollingInv, PollTypeOK
  <2> QED BY <1>6, <2>1, <2>2, EndKeeps DEF SendFails
<1>7. CASE PollFails
  <2>1. failures' \in 0 .. MaxFailures
    BY <1>7 DEF PollFails, Fail, PollingInv, PollTypeOK
  <2> QED BY <1>7, <2>1, EndKeeps DEF PollFails
<1>8. CASE Stop
  <2>1. failures' \in 0 .. MaxFailures
    BY <1>8 DEF Stop, Fail, PollingInv, PollTypeOK
  <2> QED BY <1>8, <2>1, EndKeeps DEF Stop
<1>9. CASE Start
  BY <1>9 DEF Start, PollingInv, PollTypeOK, BatchOK, SettledOK, Settled, ReplayWindow, LifeOK, Known, NoOffset
<1>10. CASE UNCHANGED pollVars
  BY <1>10 DEF pollVars, PollingInv, PollTypeOK, BatchOK, SettledOK, Settled, ReplayWindow, LifeOK, Known, NoOffset
<1> QED BY <1>1, <1>2, <1>3, <1>4, <1>5, <1>6, <1>7, <1>8, <1>9, <1>10 DEF PollNext, HandleUpdate

\* The inductive invariant holds throughout (run_polling_once, run_polling_loop).
THEOREM PollingInductive == PollSpec => []PollingInv
<1>1. PollingInv /\ [PollNext]_pollVars => PollingInv'
  BY NextPolling
<1> QED BY <1>1, InitPolling, PTL DEF PollSpec

\* Batch, offset and confirmations stay within the updates there are.
THEOREM PollTypeCorrect == PollSpec => []PollTypeOK
<1>1. PollingInv => PollTypeOK
  BY DEF PollingInv
<1> QED BY <1>1, PollingInductive, PTL

\* No command is left behind, whatever fails: confirmed updates and those an
\* answer has passed are settled.
THEOREM NothingOvertaken == PollSpec => []NoneOvertaken
<1>1. PollingInv => NoneOvertaken
  BY DEF PollingInv, SettledOK, NoneOvertaken
<1> QED BY <1>1, PollingInductive, PTL

\* A restart answers at most one batch a second time.
THEOREM OneBatchReplayed == PollSpec => []ReplayWindow
<1>1. PollingInv => ReplayWindow
  BY DEF PollingInv
<1> QED BY <1>1, PollingInductive, PTL

\* One life of the process answers no command twice.
THEOREM AnsweredOnce == PollSpec => []OncePerLife
<1>1. PollingInv => OncePerLife
  BY DEF PollingInv, LifeOK, OncePerLife
<1> QED BY <1>1, PollingInductive, PTL
=============================================================================
