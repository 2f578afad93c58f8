---------------------------- MODULE MailContract ----------------------------
(***************************************************************************)
(* What the message bus promises the agents (doc comments of               *)
(* packages/coding-agent/src/irc/bus.ts): a send ends with a truthful      *)
(* receipt; a message reported delivered is shown to its recipient once; a *)
(* message reported failed is shown only if it was kept for the            *)
(* recipient's inbox.                                                      *)
(*   unsent    not written yet                                             *)
(*   posted    send has not answered                                       *)
(*   held      delivered, on its way to the recipient's context            *)
(*   kept      not delivered, but in the recipient's mailbox               *)
(*   seen      in the recipient's context, or in the result of its call    *)
(*   refused   not delivered, not kept                                     *)
(*   lost      delivered, and gone with the recipient's session            *)
(*   discarded delivered to a call of the recipient that failed            *)
(***************************************************************************)
CONSTANT Msgs
VARIABLES phase, receipt, route, over

Init == /\ phase = [m \in Msgs |-> "unsent"]
        /\ receipt = [m \in Msgs |-> "none"]
        /\ route \in [Msgs -> {<<>>}]

\* The recipient of m got no message through to its sender: the call that
\* wrote it failed, whatever else it held.
Snubbed(m) == \E n \in Msgs : /\ receipt[n] = "failed"
                              /\ route[n] = <<route[m][2], route[m][1]>>

Moves(m) ==
    CASE phase[m] = "unsent" -> {"posted", "held", "seen", "refused"}
      [] phase[m] = "posted" -> {"held", "seen", "refused", "kept"}
      [] phase[m] = "kept"   -> {"seen", "refused"}
      [] phase[m] = "held"   -> {"seen"}
             \cup (IF route[m][2] \in over' THEN {"lost"} ELSE {})
             \cup (IF Snubbed(m) THEN {"discarded"} ELSE {})
      [] OTHER               -> {}

\* The receipt is written once, and says whether the message was delivered.
Answer(m) ==
    IF receipt[m] # "none" \/ phase'[m] \in {"unsent", "posted"} THEN receipt[m]
    ELSE IF phase'[m] \in {"held", "seen"} THEN "ok" ELSE "failed"

Step(m) == /\ phase'[m] \in Moves(m) \cup {phase[m]}
           /\ receipt'[m] = Answer(m)
           /\ phase[m] # "unsent" => route'[m] = route[m]

Next == \A m \in Msgs : Step(m)

Spec == Init /\ [][Next]_<<phase, receipt, route, over>>
==============================================================================
