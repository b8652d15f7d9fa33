---------------------------- MODULE ActionPackets ----------------------------
(***************************************************************************)
(* The approval loop of one action packet (app/action_packet_approval.py). *)
(*                                                                         *)
(* An approval state is an immutable record: each function takes one and   *)
(* returns the next, and the caller goes on with what it was returned.     *)
(* Here the record is the variables, and each call of a function is one    *)
(* step.  Nothing that is asked for is ignored: a call that does not fit   *)
(* blocks the packet.  The time of a decision is part of the decision, so  *)
(* decisions may be applied in another order than they were made.          *)
(***************************************************************************)
EXTENDS Naturals, Sequences

CONSTANTS
    Payloads,        \* what a packet may propose
    CostlyPayloads,  \* those with cost_preflight_required or memory_projection_required
    LastTime,        \* bound: the times a decision may have been made at
    MaxVersions      \* bound: revisions by editing

ASSUME PacketBounds == LastTime \in Nat /\ MaxVersions \in Nat \ {0}

VARIABLES
    request,   \* the ActionPacketRequest: its evidence and its deadline
    packet,    \* the current version
    priors,    \* prior_versions
    token,     \* the resume token
    signed,    \* history: who approved or resumed last, and when
    agreed,    \* history: the payload of each version when it was approved
    uses       \* history: how often each version was resumed

packetVars == <<request, packet, priors, token, signed, agreed, uses>>

Versions == 1 .. MaxVersions
Times    == 0 .. LastTime
Nothing  == "nothing"   \* no payload, no version approved
NoKey    == 0           \* no token; a token is named by the version it is for
NoToken  == [key |-> NoKey, used |-> FALSE]

ASSUME PayloadsAssumption == CostlyPayloads \subseteq Payloads /\ Nothing \notin Payloads

\* The actor the packet names; another actor in the same role, for the same owner
\* and robot; and somebody of another owner, robot or role.
People == {"reviewer", "colleague", "stranger"}

\* _request_block_reason: the policy trace and all that every packet needs, and what
\* only some payloads need.
Supported(payload) == request.trace /\ (payload \in CostlyPayloads => request.evidence)

Stopped == {"rejected", "cancelled", "expired", "blocked"}

-----------------------------------------------------------------------------
(* What a call does to the record *)

Enters(state) == packet' = [packet EXCEPT !.state = state]

\* A packet already blocked loses its token; any other keeps it.
Block ==
    /\ Enters("blocked")
    /\ token' = IF packet.state = "blocked" THEN NoToken ELSE token
    /\ UNCHANGED <<request, priors, signed, agreed, uses>>

Submittable == packet.state = "proposed"

\* submit_action_packet_for_approval asks neither who submits nor when.
Submit ==
    \/ /\ Submittable
       /\ Enters("awaiting_approval")
       /\ UNCHANGED <<request, priors, token, signed, agreed, uses>>
    \/ ~Submittable /\ Block

Fits_ByRole(what, version, by) == version = packet.version /\ by # "stranger"

\* _decision_mismatch_reason: a colleague may do anything but approve and resume.
Fits(what, version, by) ==
    /\ version = packet.version
    /\ by # "stranger"
    /\ what \in {"approve", "resume"} => by = "reviewer"

\* _is_expired; the deadline of the token is the same.  A deadline at the last time
\* never passes, as if there were none.
Late(at) == request.deadline < at

\* Every decision but "resume" finds that the time is over, in whatever state the
\* packet is.
Lapse ==
    /\ Enters("expired")
    /\ UNCHANGED <<request, priors, token, signed, agreed, uses>>

Approvable == packet.state = "awaiting_approval"

Approve(by, at) ==
    /\ Approvable
    /\ Enters("approved")
    /\ token' = [key |-> packet.version, used |-> FALSE]
    /\ agreed' = [agreed EXCEPT ![packet.version] = packet.payload]
    /\ signed' = [by |-> by, at |-> at]
    /\ UNCHANGED <<request, priors, uses>>

Endable == packet.state \in {"proposed", "awaiting_approval", "approved"}

Outcome(what) ==
    CASE what = "reject" -> "rejected" [] what = "cancel" -> "cancelled"
      [] what = "expire" -> "expired"

\* _terminal_transition; the token stays in the record.
End(what) ==
    /\ Endable
    /\ Enters(Outcome(what))
    /\ UNCHANGED <<request, priors, token, signed, agreed, uses>>

Edit_InPlace(payload) ==
    /\ packet' = [packet EXCEPT !.payload = payload]
    /\ UNCHANGED <<request, priors, token, signed, agreed, uses>>

Revised(payload) == [version |-> packet.version + 1, state |-> "proposed", payload |-> payload]

Edit_KeepsToken(payload) ==
    /\ packet.version < MaxVersions
    /\ packet' = Revised(payload) /\ priors' = Append(priors, packet)
    /\ UNCHANGED <<request, token, signed, agreed, uses>>

\* _edit_transition, from any state: the version is put away and a new one proposed.
Edit(payload) ==
    /\ packet.version < MaxVersions
    /\ packet' = Revised(payload) /\ priors' = Append(priors, packet)
    /\ token' = NoToken
    /\ UNCHANGED <<request, signed, agreed, uses>>

\* The conditions of _resume_transition and _resume_token_block_reason.
Usable(key, at) ==
    /\ packet.state = "approved"
    /\ key # NoKey /\ key = token.key /\ ~token.used
    /\ ~Late(at)

Resume(key, by, at) ==
    /\ Usable(key, at)
    /\ Enters("resumed")
    /\ token' = [token EXCEPT !.used = TRUE]
    /\ uses' = [uses EXCEPT ![packet.version] = @ + 1]
    /\ signed' = [by |-> by, at |-> at]
    /\ UNCHANGED <<request, priors, agreed>>

-----------------------------------------------------------------------------
(* apply_action_packet_decision *)

Decisions == {"approve", "reject", "cancel", "expire", "edit", "resume"}

\* A decision that does not fit, or is none of the six.
Misfit(what, version, by) == (what \notin Decisions \/ ~Fits(what, version, by)) /\ Block

Lapsed(what, version, by, at) ==
    what \in Decisions \ {"resume"} /\ Fits(what, version, by) /\ Late(at) /\ Lapse

InTime(what, version, by, at) == Fits(what, version, by) /\ ~Late(at)

DecideApprove(version, by, at) ==
    /\ InTime("approve", version, by, at)
    /\ Approve(by, at) \/ (~Approvable /\ Block)

DecideEnd(what, version, by, at) ==
    /\ InTime(what, version, by, at)
    /\ End(what) \/ (~Endable /\ Block)

\* Without a new payload an edit blocks.
DecideEdit(version, by, at) ==
    /\ InTime("edit", version, by, at)
    /\ Block \/ \E payload \in Payloads : Edit(payload)

DecideResume(version, by, at, key) ==
    /\ Fits("resume", version, by)
    /\ Resume(key, by, at) \/ (~Usable(key, at) /\ Block)

Decide(version, by, at) ==
    \/ \E what \in Decisions : Lapsed(what, version, by, at)
    \/ DecideApprove(version, by, at)
    \/ \E what \in {"reject", "cancel", "expire"} : DecideEnd(what, version, by, at)
    \/ DecideEdit(version, by, at)
    \/ \E key \in Versions \cup {NoKey} : DecideResume(version, by, at, key)

\* create_action_packet: a request that lacks something is blocked at once.
PacketInit ==
    /\ request \in [trace : BOOLEAN, evidence : BOOLEAN, deadline : Times]
    /\ \E payload \in Payloads :
         packet = [version |-> 1, payload |-> payload,
                   state |-> IF Supported(payload) THEN "proposed" ELSE "blocked"]
    /\ priors = <<>> /\ token = NoToken
    /\ signed = [by |-> "nobody", at |-> 0]
    /\ agreed = [version \in Versions |-> Nothing]
    /\ uses = [version \in Versions |-> 0]

PacketNext ==
    \/ Submit
    \/ \E what \in Decisions \cup {"unknown"}, version \in Versions, by \in People :
         Misfit(what, version, by)
    \/ \E version \in Versions, by \in People, at \in Times : Decide(version, by, at)

PacketSpec == PacketInit /\ [][PacketNext]_packetVars

-----------------------------------------------------------------------------
(* Properties *)

States == {"proposed", "awaiting_approval", "approved", "resumed"} \cup Stopped
Packets == [version : Versions, state : States, payload : Payloads]

\* Every part of the record holds what the functions put there.
PacketTypeOK ==
    /\ request \in [trace : BOOLEAN, evidence : BOOLEAN, deadline : Times]
    /\ packet \in Packets
    /\ priors \in Seq(Packets)
    /\ token \in [key : Versions \cup {NoKey}, used : BOOLEAN]
    /\ signed \in [by : People \cup {"nobody"}, at : Times]
    /\ agreed \in [Versions -> Payloads \cup {Nothing}]
    /\ uses \in [Versions -> Nat]

\* What is resumed is what was approved: this version, with the payload it had
\* then, however often the packet was edited before.
ResumedAsApproved ==
    /\ packet.state \in {"approved", "resumed"} => agreed[packet.version] = packet.payload
    /\ \A version \in Versions : uses[version] > 0 => agreed[version] # Nothing

\* A token is good for one version and one use: none outlives an edit, and no
\* version is resumed twice.
TokenBound ==
    /\ token.key \in {NoKey, packet.version}
    /\ packet.state = "approved" => token = [key |-> packet.version, used |-> FALSE]
    /\ \A version \in Versions : uses[version] <= 1

\* Editing never rewrites: all earlier versions are kept, in order, and an approved
\* one still reads as it was approved.
PriorsKept ==
    /\ Len(priors) = packet.version - 1
    /\ \A i \in DOMAIN priors :
         /\ priors[i].version = i
         /\ agreed[i] # Nothing => priors[i].payload = agreed[i]

\* A version that was rejected, cancelled, expired or blocked never gets further,
\* whatever is asked of it in which order.
StoppedForGood ==
    [][packet.state \in Stopped /\ packet'.version = packet.version
         => packet'.state \in Stopped /\ uses' = uses]_packetVars

\* A packet is approved and resumed by the actor it names only, and only by a
\* decision made before its deadline.
OnlyTheReviewerInTime ==
    [][packet'.state # packet.state /\ packet'.state \in {"approved", "resumed"}
         => signed'.by = "reviewer" /\ signed'.at <= request.deadline]_packetVars

\* A packet that lacks the evidence its payload needs is blocked, so it is not
\* approved.
ApprovedWithEvidence == packet.state \in {"approved", "resumed"} => Supported(packet.payload)
=============================================================================
