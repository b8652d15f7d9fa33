------------------------------ MODULE MCPolicies ------------------------------
(***************************************************************************)
(* The control plane, the approval loop of one action packet and the chain *)
(* of policies a message passes on its way to Hermes share no state.  TLC  *)
(* explores them in one run: one of them moves in a behaviour, the others  *)
(* rest in an initial state of their own.                                  *)
(***************************************************************************)
EXTENDS ControlPlane, ActionPackets, PolicyChain

VARIABLE part   \* which of them moves

Text(command, words, chars) == [command |-> command, words |-> words, chars |-> chars, items |-> 0]

\* Texts on both sides of what each policy looks for, alone and two at a time.
Words == {{}, {"send", "remind"}, {"destructive", "remind"}, {"fell", "dose"}, {"fell"}, {"lost"}, {"done"},
          {"treatment"}, {"pill"}, {"premium"}, {"async"}, {"premium", "medical"}}

ChainTexts ==
    {Text("none", words, 40) : words \in Words}
    \cup {Text("none", {}, 10000), Text("none", {"wash"}, 20000), Text("approval", {}, 20),
          Text("single", {"water"}, 5), Text("operator", {}, 7), Text("wrapped", {"yolo"}, 8),
          Text("malformed", {}, 0)}

Routine(kind) ==
    [kind |-> kind, approved |-> TRUE, manual |-> TRUE, wakes |-> TRUE, budgeted |-> TRUE, fails |-> FALSE, pills |-> FALSE]

Routines ==
    {Routine("general"), Routine("caregiver"), [Routine("caregiver") EXCEPT !.pills = TRUE],
     [Routine("general") EXCEPT !.approved = FALSE], [Routine("general") EXCEPT !.wakes = FALSE],
     [Routine("general") EXCEPT !.fails = TRUE]}

PlaneRests   == ~retrieval
PacketsRests == request = [trace |-> FALSE, evidence |-> FALSE, deadline |-> 0] /\ packet.payload \in CostlyPayloads

MCInit ==
    /\ Init /\ PacketInit /\ ChainInit
    /\ part \in {"plane", "packets", "chain"}
    /\ part # "plane" => PlaneRests
    /\ part # "packets" => PacketsRests

MCNext ==
    \/ part = "plane" /\ Next /\ UNCHANGED <<packetVars, chainVars, part>>
    \/ part = "packets" /\ PacketNext /\ UNCHANGED <<vars, chainVars, part>>
    \/ part = "chain" /\ ChainNext /\ UNCHANGED <<vars, packetVars, part>>

MCSpec == MCInit /\ [][MCNext]_<<vars, packetVars, chainVars, part>>
=============================================================================
