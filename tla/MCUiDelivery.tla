---------------------------- MODULE MCUiDelivery -----------------------------
(* UiDelivery for TLC: the connection driver and a tray thread. *)
EXTENDS UiDelivery

CONSTANTS driver, tray, hud, selector

\* The driver sends everything; the tray only ordered events.
Kinds ==
  [p \in Sender |-> IF p = driver THEN Class \cup {"ordered", "log"} ELSE {"ordered"}]

\* The driver asks before each event, and asks without one for a log it keeps
\* itself.  A left click asks and sends two events, a right click sends one; a
\* choice in the menu sends one, asks, and may send another.
Doings ==
  [p \in Sender |->
     IF p = driver THEN {<<"askSend">>, <<"ask">>}
     ELSE {<<"askSend", "send">>, <<"send">>, <<"send", "ask">>,
           <<"send", "ask", "send">>}]

=============================================================================
