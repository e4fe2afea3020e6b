------------------------------ MODULE MCServer ------------------------------
(* The server's life, and the lane in which a connection keeps what it is sent, *)
(* share no state: each is explored alone.  Only the life has liveness *)
(* properties, and ServerFair binds its behaviours. *)
EXTENDS ServerLife, ClientLane

VARIABLE part      \* the part that runs; the other stays as it began

Init == part \in {"life", "lane"} /\ ServerInit /\ LaneInit

RunLife == part = "life" /\ ServerNext /\ UNCHANGED <<part, laneVars>>
RunLane == part = "lane" /\ LaneNext /\ UNCHANGED <<part, serverVars>>

Next == RunLife \/ RunLane
Spec == Init /\ [][Next]_<<part, serverVars, laneVars>> /\ ServerFair

=============================================================================
