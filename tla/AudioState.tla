----------------------------- MODULE AudioState -----------------------------
(***************************************************************************)
(* What the audio interfaces promise about their property State: the       *)
(* transitions that doc/audio-api.txt lists, for every interface the same. *)
(***************************************************************************)
VARIABLE state

CONSTANT States  \* the states the interface has

Init == state = "disconnected"

Connecting == state = "disconnected" /\ state' = "connecting"
Connected == state = "connecting" /\ state' = "connected"
Playing == state = "connected" /\ "playing" \in States /\ state' = "playing"
Stopped == state = "playing" /\ state' = "connected"
Disconnected == state # "disconnected" /\ state' = "disconnected"

Next == Connecting \/ Connected \/ Playing \/ Stopped \/ Disconnected

Spec == Init /\ [][Next]_state
=============================================================================
