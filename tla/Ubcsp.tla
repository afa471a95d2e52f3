------------------------------- MODULE Ubcsp --------------------------------
(***************************************************************************)
(* tools/ubcsp.c: the BCSP engine by which csr_bcsp.c talks to a chip over  *)
(* a serial line.  Two engines establish the link and send reliable packets *)
(* with a window of one and unreliable ones, over lines that lose and       *)
(* garble frames but keep their order.  A frame of the host is composed      *)
(* when it is begun and is on the line when its last octet is, one of the    *)
(* chip at once; the octets, escapes and the CRC of a frame are one value,   *)
(* garbled or not.                                                         *)
(***************************************************************************)
EXTENDS Integers, Sequences, SequencesExt

CONSTANTS
  Modulus,    \* of the sequence numbers: 8 in the code, whose fields have 3 bits
  MaxPackets, \* bound: packets that each side sends, a function on Sides
  Restarts,   \* the sides that start again
  MaxLine,    \* bound: frames on a line
  Environment \* what happens: "loss", unreliable packets ("unreliable");
              \* and a peer that restarts while the answer to its last CONF is still to be sent ("owed"),
              \* an unreliable packet handed over before anything was received, when
              \* link establishment may still have packets to send ("early")

VARIABLE b

Sides == {"host", "chip"}
Peer(e) == IF e = "host" THEN "chip" ELSE "host"
None == [n |-> 0, reliable |-> FALSE]
Frame(k, r, s, a, p) == [k |-> k, reliable |-> r, seq |-> s, ack |-> a, packet |-> p, ok |-> TRUE]
LeFrame(p) == Frame(p, FALSE, 0, 0, None)
Idle == LeFrame("none")

\* state, resp, packet: those of link establishment; seq, ack: sequence_number and ack_number;
\* send: send_packet; sending: the frame that is being sent; room: receive_packet is there.
\* The caller: may: it was told that it can send; next: the number of its last packet; told:
\* the packets it was told are sent; got: those it has received.  put: the packets that were ever on the line.
\* ubcsp_initialize leaves the rest alone.
ubcsp_initialize(s) == [s EXCEPT !.ack = 0, !.seq = 0, !.sending = Idle, !.state = 0, !.packet = "sync"]

Started == [state |-> 0, resp |-> 0, packet |-> "sync", seq |-> 0, ack |-> 0, send_ack |-> FALSE,
            send |-> None, sending |-> Idle, room |-> TRUE,
            may |-> FALSE, next |-> 0, told |-> {}, got |-> <<>>, put |-> {}]
Init == b = [s |-> [e \in Sides |-> Started], line |-> [e \in Sides |-> <<>>]]  \* line[e]: to e

-----------------------------------------------------------------------------
(* Sending: ubcsp_poll begins a frame when none is being sent.             *)

\* Mutant: a response is owed until it is sent by its own table entry only.
next_le_packet_kept(state, resp) ==
  CASE resp = 0 -> <<"sync", "conf", "none">>[state + 1]
    [] resp = 1 -> <<"none", "sync_resp", "none">>[state + 1]
    [] resp = 2 -> <<"none", "conf_resp", "conf_resp">>[state + 1]

next_le_packet(state, resp) ==
  CASE resp = 0 -> <<"sync", "conf", "none">>[state + 1]
    [] resp = 1 -> <<"sync_resp", "sync_resp", "none">>[state + 1]
    [] resp = 2 -> <<"none", "conf_resp", "conf_resp">>[state + 1]

\* What is sent next, and the engine then.
Begins(s) ==
  CASE s.packet # "none" ->
         [s EXCEPT !.sending = LeFrame(s.packet), !.packet = next_le_packet(s.state, s.resp), !.resp = 0]
    [] s.packet = "none" /\ s.resp = 2 -> [s EXCEPT !.sending = LeFrame("conf_resp"), !.resp = 0]
    [] s.packet = "none" /\ s.resp # 2 /\ s.send # None ->
         [s EXCEPT !.sending = Frame("data", s.send.reliable, s.seq, s.ack, s.send), !.send_ack = FALSE]
    [] s.packet = "none" /\ s.resp # 2 /\ s.send = None /\ s.send_ack ->
         [s EXCEPT !.sending = Frame("ack", FALSE, 0, s.ack, None), !.send_ack = FALSE]
    [] OTHER -> s

ubcsp_setup_packet(e) ==
  /\ e = "host" /\ b.s[e].sending = Idle /\ Begins(b.s[e]) # b.s[e]
  /\ b' = [b EXCEPT !.s[e] = Begins(@)]

\* UBCSP_PACKET_SENT: the caller may send, and its packet, if there is one, is sent.
Told(s) == [s EXCEPT !.may = TRUE, !.told = @ \union ({s.send} \ {None})]

\* After the last octet of any frame: an unreliable packet is done with.
ubcsp_sent_packet(s) == IF s.send # None /\ ~s.send.reliable THEN [Told(s) EXCEPT !.send = None] ELSE s

FrameSent(e) ==
  LET begun == IF e = "host" THEN b.s[e] ELSE Begins(b.s[e])
      f == begun.sending
      s == [begun EXCEPT !.sending = Idle, !.put = @ \union ({f.packet} \ {None})]
  IN /\ f # Idle /\ Len(b.line[Peer(e)]) < MaxLine
     /\ b' = [b EXCEPT !.s[e] = ubcsp_sent_packet(s), !.line[Peer(e)] = Append(@, f)]

\* The caller sends when it may.  A frame that is being sent is cut short.
ubcsp_send_packet(e, reliable) ==
  LET s == b.s[e]
      cut == s.sending # Idle
      p == [n |-> s.next + 1, reliable |-> reliable]
  IN /\ s.may /\ s.next < MaxPackets[e]
     /\ reliable \/ ("unreliable" \in Environment /\ ((s.got # <<>> /\ s.packet = "none" /\ s.resp = 0) \/ "early" \in Environment))
     /\ cut => Len(b.line[Peer(e)]) < MaxLine
     /\ b' = [b EXCEPT !.s[e] = [s EXCEPT !.may = FALSE, !.next = @ + 1, !.send = p, !.sending = Idle],
                       !.line[Peer(e)] = IF cut THEN Append(@, [s.sending EXCEPT !.ok = FALSE]) ELSE @]

ubcsp_receive_packet(e) == ~b.s[e].room /\ b' = [b EXCEPT !.s[e].room = TRUE]

-----------------------------------------------------------------------------
(* Receiving.                                                              *)

\* The window is one: any other acknowledgement is for the packet that was sent.
Acked(s, f) ==
  IF f.ack # s.seq /\ s.send # None /\ s.send.reliable
  THEN [Told(s) EXCEPT !.send = None, !.seq = (@ + 1) % Modulus] ELSE s

LinkEstablishment(s, k) ==
  CASE k = "sync" -> IF s.state < 2 THEN [s EXCEPT !.resp = 1] ELSE ubcsp_initialize(s)
    [] k = "sync_resp" -> IF s.state < 1 THEN [s EXCEPT !.state = 1] ELSE s
    [] k = "conf" -> IF s.state >= 1 THEN [s EXCEPT !.resp = 2] ELSE s
    [] k = "conf_resp" -> IF s.state < 2 THEN [Told(s) EXCEPT !.state = 2, !.sending = Idle] ELSE s

Received(s, p) == [s EXCEPT !.room = FALSE, !.got = Append(@, p)]
Payload(s, f) ==
  CASE s.state # 2 -> s
    [] s.state = 2 /\ f.reliable ->
         LET a == [s EXCEPT !.send_ack = TRUE]
         IN IF f.seq = s.ack THEN Received([a EXCEPT !.ack = (@ + 1) % Modulus], f.packet) ELSE a
    [] s.state = 2 /\ ~f.reliable -> Received(s, f.packet)

ubcsp_recevied_packet(s, f) ==
  CASE ~f.ok -> [s EXCEPT !.send_ack = TRUE]
    [] f.ok /\ f.k \in {"sync", "sync_resp", "conf", "conf_resp"} -> LinkEstablishment(Acked(s, f), f.k)
    [] f.ok /\ f.k = "data" -> Payload(Acked(s, f), f)
    [] f.ok /\ f.k = "ack" -> Acked(s, f)

\* A frame whose sending is cut by the answer CONF RESP has begun on the line.
Cut(s, t) == IF s.sending # Idle /\ t.sending = Idle THEN <<[s.sending EXCEPT !.ok = FALSE]>> ELSE <<>>

ubcsp_poll(e) ==
  LET f == Head(b.line[e])
      s == b.s[e]
      t == ubcsp_recevied_packet(s, f)
  IN /\ b.line[e] # <<>> /\ s.room
     /\ (f.ok /\ f.k = "sync" /\ s.state = 2 /\ s.resp = 2) => "owed" \in Environment
     /\ b' = [b EXCEPT !.s[e] = t, !.line[e] = Tail(@), !.line[Peer(e)] = @ \o Cut(s, t)]

-----------------------------------------------------------------------------
(* The line, and sides that start again.                                   *)

Loses(e) == /\ "loss" \in Environment /\ b.line[e] # <<>>
            /\ b' = [b EXCEPT !.line[e] = Tail(@)]
Garbles(e) == /\ "loss" \in Environment /\ b.line[e] # <<>> /\ Head(b.line[e]).ok
              /\ b' = [b EXCEPT !.line[e] = <<[Head(@) EXCEPT !.ok = FALSE]>> \o Tail(@)]
Restart(e) == /\ e \in Restarts
              /\ b' = [b EXCEPT !.s[e] = [Started EXCEPT !.next = b.s[e].next]]

Step(e) == \/ ubcsp_setup_packet(e) \/ FrameSent(e) \/ ubcsp_poll(e) \/ ubcsp_receive_packet(e)
           \/ \E reliable \in BOOLEAN : ubcsp_send_packet(e, reliable)
           \/ Loses(e) \/ Garbles(e) \/ Restart(e)

\* When both callers have sent their packets, polling goes on and finds nothing to do.
Polled == /\ \A e \in Sides : /\ b.s[e].next = MaxPackets[e] /\ b.line[e] = <<>>
                              /\ b.s[e].sending = Idle /\ Begins(b.s[e]) = b.s[e]
          /\ UNCHANGED b

Next == (\E e \in Sides : Step(e)) \/ Polled
Spec == Init /\ [][Next]_b

-----------------------------------------------------------------------------

Reliable(ps) == SelectSeq(ps, LAMBDA p : p.reliable)

\* Packets arrive at most once and in order, whatever is lost and repeated; a
\* reliable one that the caller is told is sent has arrived, so none is skipped.
InOrder ==
  Restarts # {} \/
  \A e \in Sides :
    LET got == b.s[Peer(e)].got
    IN /\ \A i, j \in DOMAIN got : i < j => got[i].n < got[j].n
       /\ \A p \in b.s[e].told : p.reliable => p \in ToSet(got)

\* A packet that the caller is told is sent was on the line.
SentWasPut == Restarts # {} \/ \A e \in Sides : b.s[e].told \subseteq b.s[e].put

\* As long as the link is not active, a packet that establishes it will be sent: else
\* neither side would ever bring it up.
Establishes == \A e \in Sides : b.s[e].state # 2 => b.s[e].packet # "none"

\* An active side that has something to send, or to acknowledge, will send it.
Sends == \A e \in Sides : b.s[e].sending = Idle /\ (b.s[e].send # None \/ b.s[e].send_ack) => Begins(b.s[e]) # b.s[e]

Safe == InOrder /\ SentWasPut /\ Establishes /\ Sends
=============================================================================
