-------------------------- MODULE SapServerProofs --------------------------
(***************************************************************************)
(* The invariants of the SIM Access server for every buffer size and every *)
(* set of message sizes.  The functions of the server are operators on     *)
(* world records, so the argument is: every function keeps a world well    *)
(* typed, and takes a consistent world to a consistent one.                *)
(***************************************************************************)
EXTENDS SapServer, SequenceTheorems, TLAPS

Conns == [phase : Phases, state : ConnStates, req : ProcessingReqs,
          timer_id : {0, 1}]
Drvs == [sim : SimStates, sap_data : {"NULL", "conn"}, ongoing : BOOLEAN,
         maxsize : MsgSizes]
Worlds == [up : BOOLEAN, conn : Conns, drv : Drvs, bus : BOOLEAN,
           sent : Seq(Message)]

\* The messages the server can send are messages.
LEMMA SendType ==
  ASSUME NEW w \in Worlds, NEW id, NEW arg \in MsgArgs, id \in MsgIds
  PROVE  /\ send_message(w, id, arg) \in Worlds
         /\ send_message(w, id, arg).up = w.up
         /\ send_message(w, id, arg).conn = w.conn
         /\ send_message(w, id, arg).drv = w.drv
         /\ send_message(w, id, arg).bus = w.bus
<1>1. [id |-> id, arg |-> arg] \in Message
  BY DEF Message
<1>2. Append(w.sent, [id |-> id, arg |-> arg]) \in Seq(Message)
  BY <1>1 DEF Worlds
<1> QED
  BY <1>2 DEF Worlds, send_message


\* The session states a world may rest in, and what they fix.
SessionOf(w) == w.conn.state \in {"CONNECTED", "GRACEFUL_DISCONNECT"}

Rest(w) ==
  /\ w.conn.state \in {"DISCONNECTED", "CONNECTED", "GRACEFUL_DISCONNECT"}
  /\ w.conn.timer_id # 0 <=>
       \/ w.conn.phase = "watch" /\ w.conn.state = "DISCONNECTED"
       \/ w.conn.state = "GRACEFUL_DISCONNECT"
  /\ w.drv.sap_data # "NULL" <=> SessionOf(w)
  /\ w.drv.sim # "SIM_DISCONNECTED" <=> SessionOf(w)
  /\ SessionOf(w) => w.conn.req = NO_REQ /\ w.conn.phase = "watch"

\* start_guard_timer and stop_guard_timer change the timer only.
LEMMA TimerType ==
  ASSUME NEW w \in Worlds
  PROVE  /\ start_guard_timer(w) \in Worlds
         /\ stop_guard_timer(w) \in Worlds
  BY DEF start_guard_timer, stop_guard_timer, Worlds, Conns

\* sap_connect_rsp ends the request to connect either way.
LEMMA ConnectRsp ==
  ASSUME NEW w \in Worlds, NEW status \in MsgArgs,
         w.conn.state = "CONNECT_IN_PROGRESS"
  PROVE  LET r == sap_connect_rsp(w, status) IN
         /\ r \in Worlds
         /\ r.up = w.up /\ r.drv = w.drv
         /\ r.conn.phase = w.conn.phase /\ r.conn.req = NO_REQ
         /\ status = "OK" => /\ r.conn.state = "CONNECTED"
                             /\ r.conn.timer_id = w.conn.timer_id
         /\ status # "OK" => /\ r.conn.state = "DISCONNECTED"
                             /\ r.conn.timer_id = 1
<1> DEFINE w1 == IF status = "OK"
                 THEN [w EXCEPT !.bus = TRUE, !.conn.state = "CONNECTED"]
                 ELSE start_guard_timer(
                        [w EXCEPT !.conn.state = "DISCONNECTED"])
           w2 == [w1 EXCEPT !.conn.req = NO_REQ]
<1>1. /\ w2 \in Worlds
      /\ w2.up = w.up /\ w2.drv = w.drv
      /\ w2.conn.phase = w.conn.phase /\ w2.conn.req = NO_REQ
      /\ status = "OK" => /\ w2.conn.state = "CONNECTED"
                          /\ w2.conn.timer_id = w.conn.timer_id
      /\ status # "OK" => /\ w2.conn.state = "DISCONNECTED"
                          /\ w2.conn.timer_id = 1
  BY DEF Worlds, Conns, ConnStates, ProcessingReqs, NO_REQ, start_guard_timer
<1>2. sap_connect_rsp(w, status) = send_message(w2, "CONNECT_RESP", status)
  BY DEF sap_connect_rsp
<1> HIDE DEF w2
<1> QED BY <1>1, <1>2, SendType DEF MsgIds

\* sap_status_ind at most sends.
LEMMA StatusInd ==
  ASSUME NEW w \in Worlds, NEW change \in MsgArgs
  PROVE  LET r == sap_status_ind(w, change) IN
         /\ r \in Worlds
         /\ r.up = w.up /\ r.drv = w.drv /\ r.conn = w.conn
  BY SendType DEF sap_status_ind, MsgIds

\* A refused connection leaves an idle channel with its timer.
LEMMA RefusedConnect ==
  ASSUME NEW w \in Worlds, NEW status \in MsgArgs \ {"OK"},
         w.conn.state = "CONNECT_IN_PROGRESS", w.conn.phase = "watch",
         w.drv.sap_data = "NULL", w.drv.sim = "SIM_DISCONNECTED"
  PROVE  /\ sap_connect_rsp(w, status) \in Worlds
         /\ sap_connect_rsp(w, status).up = w.up
         /\ Rest(sap_connect_rsp(w, status))
<1> DEFINE r == sap_connect_rsp(w, status)
<1>1. /\ r \in Worlds /\ r.up = w.up /\ r.drv = w.drv
      /\ r.conn.phase = "watch" /\ r.conn.state = "DISCONNECTED"
      /\ r.conn.timer_id = 1
  BY ConnectRsp
<1> HIDE DEF r
<1>2. Rest(r)
  BY <1>1 DEF Rest, SessionOf
<1> QED BY <1>1, <1>2 DEF r

\* The driver decides on a request to connect: the SIM is taken exactly when
\* the answer makes a session.
LEMMA ConnectReq ==
  ASSUME NEW w \in Worlds, NEW size \in MsgSizes,
         w.conn.state = "CONNECT_IN_PROGRESS", w.conn.phase = "watch",
         w.conn.timer_id = 0, w.drv.sap_data = "NULL", w.drv.sim = "SIM_DISCONNECTED"
  PROVE  LET r == sap_connect_req(w, size) IN
         r \in Worlds /\ r.up = w.up /\ Rest(r)
<1>1. size \in Nat /\ w.drv.maxsize \in Nat
  BY SizeAssumption DEF Worlds, Drvs
<1>2. CASE w.drv.maxsize > size
  <2>1. sap_connect_req(w, size) = sap_connect_rsp(w, "MAX_MSG_SIZE_TOO_SMALL")
    BY <1>1, <1>2 DEF sap_connect_req
  <2>2. "MAX_MSG_SIZE_TOO_SMALL" \in MsgArgs \ {"OK"}
    BY DEF MsgArgs
  <2> QED BY <2>1, <2>2, RefusedConnect
<1>3. CASE w.drv.maxsize < size
  <2>1. sap_connect_req(w, size)
          = sap_connect_rsp(w, "MAX_MSG_SIZE_NOT_SUPPORTED")
    BY <1>1, <1>3 DEF sap_connect_req
  <2>2. "MAX_MSG_SIZE_NOT_SUPPORTED" \in MsgArgs \ {"OK"}
    BY DEF MsgArgs
  <2> QED BY <2>1, <2>2, RefusedConnect
<1>4. CASE w.drv.maxsize = size /\ w.drv.ongoing
  <2>1. sap_connect_req(w, size) = sap_connect_rsp(w, "OK_ONGOING_CALL")
    BY <1>1, <1>4 DEF sap_connect_req
  <2>2. "OK_ONGOING_CALL" \in MsgArgs \ {"OK"}
    BY DEF MsgArgs
  <2> QED BY <2>1, <2>2, RefusedConnect
<1>5. CASE w.drv.maxsize = size /\ ~w.drv.ongoing
  <2> DEFINE w1 == [w EXCEPT !.drv.sim = "SIM_CONNECTED", !.drv.sap_data = "conn"]
             w2 == sap_connect_rsp(w1, "OK")
  <2>1. /\ w1 \in Worlds /\ w1.up = w.up /\ w1.conn = w.conn
        /\ w1.drv.sim = "SIM_CONNECTED" /\ w1.drv.sap_data = "conn"
    BY DEF Worlds, Drvs, SimStates
  <2>2. sap_connect_req(w, size) = sap_status_ind(w2, "CARD_RESET")
    BY <1>1, <1>5 DEF sap_connect_req
  <2> HIDE DEF w1
  <2>3. /\ w2 \in Worlds /\ w2.up = w.up /\ w2.drv = w1.drv
        /\ w2.conn.phase = "watch" /\ w2.conn.req = NO_REQ
        /\ w2.conn.state = "CONNECTED" /\ w2.conn.timer_id = w.conn.timer_id
    <3>1. "OK" \in MsgArgs
      BY DEF MsgArgs
    <3> QED BY <2>1, <3>1, ConnectRsp
  <2> HIDE DEF w2
  <2> DEFINE w3 == sap_status_ind(w2, "CARD_RESET")
  <2>4. w3 \in Worlds /\ w3.up = w.up /\ w3.drv = w1.drv /\ w3.conn = w2.conn
    BY <2>3, StatusInd DEF MsgArgs
  <2> HIDE DEF w3
  <2>5. Rest(w3)
    BY <2>1, <2>3, <2>4 DEF Rest, SessionOf
  <2> QED BY <2>2, <2>4, <2>5 DEF w3
<1> QED BY <1>1, <1>2, <1>3, <1>4, <1>5

\* disconnect_ind at most sends.
LEMMA DisconnectInd ==
  ASSUME NEW w \in Worlds, NEW type \in {"GRACEFUL", "IMMEDIATE"}
  PROVE  /\ disconnect_ind(w, type) \in Worlds
         /\ disconnect_ind(w, type).up = w.up
         /\ disconnect_ind(w, type).drv = w.drv
         /\ disconnect_ind(w, type).conn = w.conn
<1>1. "DISCONNECT_IND" \in MsgIds /\ type \in MsgArgs
  BY DEF MsgIds, MsgArgs
<1> QED BY <1>1, SendType DEF disconnect_ind

\* sap_error_rsp only sends.
LEMMA ErrorRsp ==
  ASSUME NEW w \in Worlds
  PROVE  /\ sap_error_rsp(w) \in Worlds
         /\ sap_error_rsp(w).up = w.up
         /\ sap_error_rsp(w).drv = w.drv
         /\ sap_error_rsp(w).conn = w.conn
<1>1. "ERROR_RESP" \in MsgIds /\ "" \in MsgArgs
  BY DEF MsgIds, MsgArgs
<1> QED BY <1>1, SendType DEF sap_error_rsp

\* sap_disconnect_req and the sap_disconnect_rsp it calls: the session is
\* over, the SIM is back, and either the timer watches the idle channel or
\* the channel is shut down.
LEMMA DisconnectByDriver ==
  ASSUME NEW w \in Worlds, w.conn.phase = "watch", w.conn.timer_id = 0,
         w.conn.state \in {"CLIENT_DISCONNECT", "IMMEDIATE_DISCONNECT"}
  PROVE  /\ sap_disconnect_req(w, FALSE) \in Worlds
         /\ sap_disconnect_req(w, FALSE).up = w.up
         /\ Rest(sap_disconnect_req(w, FALSE))
<1> DEFINE w1 == [w EXCEPT !.drv.sim = "SIM_DISCONNECTED",
                           !.drv.sap_data = "NULL", !.drv.ongoing = FALSE]
           r  == sap_disconnect_rsp(w1)
<1>1. /\ w1 \in Worlds /\ w1.up = w.up /\ w1.conn = w.conn
      /\ w1.drv.sim = "SIM_DISCONNECTED" /\ w1.drv.sap_data = "NULL"
  BY DEF Worlds, Drvs, SimStates
<1>2. sap_disconnect_req(w, FALSE) = r
  BY DEF sap_disconnect_req
<1> HIDE DEF w1
<1>3. CASE w.conn.state = "CLIENT_DISCONNECT"
  <2> DEFINE w2 == start_guard_timer([w1 EXCEPT !.conn.state = "DISCONNECTED",
                                                !.conn.req = NO_REQ])
  <2>1. /\ w2 \in Worlds /\ w2.up = w.up /\ w2.drv = w1.drv
        /\ w2.conn.state = "DISCONNECTED" /\ w2.conn.phase = "watch"
        /\ w2.conn.timer_id = 1
    BY <1>1 DEF start_guard_timer, Worlds, Conns, ConnStates,
                ProcessingReqs, NO_REQ
  <2>2. r = send_message(w2, "DISCONNECT_RESP", "")
    BY <1>1, <1>3 DEF sap_disconnect_rsp
  <2>3. "DISCONNECT_RESP" \in MsgIds /\ "" \in MsgArgs
    BY DEF MsgIds, MsgArgs
  <2> HIDE DEF w2, r
  <2>4. /\ r \in Worlds /\ r.up = w.up /\ r.drv = w1.drv /\ r.conn = w2.conn
    BY <2>1, <2>2, <2>3, SendType
  <2>5. Rest(r)
    BY <1>1, <2>1, <2>4 DEF Rest, SessionOf
  <2> QED BY <1>2, <2>4, <2>5
<1>4. CASE w.conn.state = "IMMEDIATE_DISCONNECT"
  <2>1. r = [w1 EXCEPT !.conn.state = "DISCONNECTED", !.conn.req = NO_REQ,
                       !.conn.phase = "shut"]
    BY <1>1, <1>4 DEF sap_disconnect_rsp
  <2> HIDE DEF r
  <2>2. /\ r \in Worlds /\ r.up = w.up /\ r.drv = w1.drv
        /\ r.conn.state = "DISCONNECTED" /\ r.conn.phase = "shut"
        /\ r.conn.timer_id = 0
    BY <1>1, <2>1 DEF Worlds, Conns, ConnStates, ProcessingReqs, NO_REQ,
                      Phases
  <2>3. Rest(r)
    BY <1>1, <2>2 DEF Rest, SessionOf
  <2> QED BY <1>2, <2>2, <2>3
<1> QED BY <1>3, <1>4

\* disconnect_req takes a resting world to a resting world, whoever asks;
\* for the timeout the world it starts from has its timer just expired.
LEMMA DisconnectReq ==
  ASSUME NEW w \in Worlds, NEW type \in {"GRACEFUL", "IMMEDIATE", "CLIENT"},
         w.conn.phase # "none",
         \/ Rest(w)
         \/ type = "IMMEDIATE" /\ SessionOf(w) /\ w.conn.phase = "watch"
  PROVE  /\ disconnect_req(w, type) \in Worlds
         /\ disconnect_req(w, type).up = w.up
         /\ Rest(disconnect_req(w, type))
<1> DEFINE r == disconnect_req(w, type)
<1>1. CASE type = "GRACEFUL" /\ w.conn.state = "CONNECTED"
  <2> DEFINE w1 == Drop(w, "GRACEFUL_DISCONNECT")
             w2 == disconnect_ind(w1, type)
  <2>1. /\ w1 \in Worlds /\ w1.up = w.up /\ w1.drv = w.drv
        /\ w1.conn.state = "GRACEFUL_DISCONNECT" /\ w1.conn.req = NO_REQ
        /\ w1.conn.phase = w.conn.phase
    BY DEF Drop, Worlds, Conns, ConnStates, ProcessingReqs, NO_REQ
  <2>2. r = start_guard_timer(w2)
    BY <1>1 DEF disconnect_req
  <2> HIDE DEF w1
  <2>3. w2 \in Worlds /\ w2.up = w.up /\ w2.drv = w.drv /\ w2.conn = w1.conn
    BY <1>1, <2>1, DisconnectInd
  <2> HIDE DEF w2, r
  <2>4. /\ r \in Worlds /\ r.up = w.up /\ r.drv = w.drv
        /\ r.conn.state = "GRACEFUL_DISCONNECT" /\ r.conn.req = NO_REQ
        /\ r.conn.phase = w.conn.phase /\ r.conn.timer_id = 1
    BY <2>1, <2>2, <2>3 DEF start_guard_timer, Worlds, Conns
  <2>5. Rest(r)
    BY <1>1, <2>4 DEF Rest, SessionOf
  <2> QED BY <2>4, <2>5 DEF r
<1>2. CASE type = "IMMEDIATE" /\ SessionOf(w)
  <2> DEFINE w0 == Drop(w, "IMMEDIATE_DISCONNECT")
             w1 == stop_guard_timer(w0)
             w2 == disconnect_ind(w1, type)
  <2>0. w.conn.phase = "watch"
    BY <1>2 DEF Rest, SessionOf
  <2>1. /\ w1 \in Worlds /\ w1.up = w.up
        /\ w1.conn.state = "IMMEDIATE_DISCONNECT" /\ w1.conn.timer_id = 0
        /\ w1.conn.phase = "watch"
    BY <2>0 DEF Drop, stop_guard_timer, Worlds, Conns, ConnStates,
                ProcessingReqs, NO_REQ
  <2>2. r = sap_disconnect_req(w2, FALSE)
    BY <1>2 DEF disconnect_req, SessionOf
  <2> HIDE DEF w1
  <2>3. w2 \in Worlds /\ w2.up = w.up /\ w2.conn = w1.conn
    BY <1>2, <2>1, DisconnectInd
  <2> HIDE DEF w2, r
  <2>4. r \in Worlds /\ r.up = w.up /\ Rest(r)
    BY <2>1, <2>2, <2>3, DisconnectByDriver
  <2> QED BY <2>4 DEF r
<1>3. CASE type = "CLIENT" /\ SessionOf(w)
  <2> DEFINE w0 == Drop(w, "CLIENT_DISCONNECT")
             w1 == stop_guard_timer(w0)
  <2>0. w.conn.phase = "watch"
    BY <1>3 DEF Rest, SessionOf
  <2>1. /\ w1 \in Worlds /\ w1.up = w.up
        /\ w1.conn.state = "CLIENT_DISCONNECT" /\ w1.conn.timer_id = 0
        /\ w1.conn.phase = "watch"
    BY <2>0 DEF Drop, stop_guard_timer, Worlds, Conns, ConnStates,
                ProcessingReqs, NO_REQ
  <2>2. r = sap_disconnect_req(w1, FALSE)
    BY <1>3 DEF disconnect_req, SessionOf
  <2> HIDE DEF w1, r
  <2>4. r \in Worlds /\ r.up = w.up /\ Rest(r)
    BY <2>1, <2>2, DisconnectByDriver
  <2> QED BY <2>4 DEF r
<1>4. CASE type = "CLIENT" /\ ~SessionOf(w)
  <2>1. r = sap_error_rsp(w)
    BY <1>4 DEF disconnect_req, SessionOf
  <2>2. Rest(w)
    BY <1>4
  <2> HIDE DEF r
  <2>3. r \in Worlds /\ r.up = w.up /\ r.drv = w.drv /\ r.conn = w.conn
    BY <2>1, ErrorRsp
  <2>4. Rest(r)
    BY <2>2, <2>3 DEF Rest, SessionOf
  <2> QED BY <2>3, <2>4 DEF r
<1>5. CASE /\ ~(type = "GRACEFUL" /\ w.conn.state = "CONNECTED")
           /\ ~(type \in {"IMMEDIATE", "CLIENT"} /\ SessionOf(w))
           /\ type # "CLIENT"
  <2>1. r = w
    BY <1>5 DEF disconnect_req, SessionOf
  <2>2. Rest(w)
    BY <1>5 DEF SessionOf
  <2> QED BY <2>1, <2>2
<1> QED BY <1>1, <1>2, <1>3, <1>4, <1>5

\* A card request in a session, whatever its kind, is answered and over.
LEMMA DriverCardReq ==
  ASSUME NEW w \in Worlds, NEW kind \in CardRequests,
         w.conn.req = kind, w.drv.sim # "SIM_DISCONNECTED"
  PROVE  LET r == driver_card_req(w, kind) IN
         /\ r \in Worlds /\ r.up = w.up
         /\ r.conn = [w.conn EXCEPT !.req = NO_REQ]
         /\ r.drv.sim # "SIM_DISCONNECTED" /\ r.drv.sap_data = w.drv.sap_data
<1> DEFINE res == CardResult(kind, w.drv.sim)
           w1 == [w EXCEPT !.conn.req = NO_REQ]
           w2 == send_message(w1, kind, res)
           r  == driver_card_req(w, kind)
<1>1. w.drv.sim \in SimStates
  BY DEF Worlds, Drvs
<1>2. res \in {"OK", "CARD_REMOVED", "POWERED_OFF", "NO_REASON",
              "NOT_ACCESSIBLE", "NOT_SUPPORTED"}
  <2>1. CASE w.drv.sim = "SIM_MISSING"
    BY <2>1 DEF CardResult
  <2>2. CASE w.drv.sim = "SIM_POWERED_OFF"
    BY <2>2 DEF CardResult
  <2>3. CASE w.drv.sim = "SIM_DISCONNECTED"
    BY <2>3 DEF CardResult
  <2>4. CASE w.drv.sim = "SIM_CONNECTED"
    BY <2>4 DEF CardResult
  <2> QED BY <1>1, <2>1, <2>2, <2>3, <2>4 DEF SimStates
<1>3. /\ w1 \in Worlds /\ w1.up = w.up /\ w1.drv = w.drv
      /\ w1.conn = [w.conn EXCEPT !.req = NO_REQ]
  BY DEF Worlds, Conns, ProcessingReqs, NO_REQ
<1>4. sap_card_rsp(w, kind, res) = w2
  BY DEF sap_card_rsp
<1>5. kind \in MsgIds
  BY DEF MsgIds
<1> HIDE DEF w1, res
<1>9. res \in MsgArgs
  BY <1>2 DEF MsgArgs
<1>6. w2 \in Worlds /\ w2.up = w.up /\ w2.drv = w.drv /\ w2.conn = w1.conn
  BY <1>9, <1>3, <1>5, SendType
<1>7. r \in {w2, [w2 EXCEPT !.drv.sim = "SIM_POWERED_OFF"],
             [w2 EXCEPT !.drv.sim = "SIM_CONNECTED"]}
  BY <1>4 DEF driver_card_req, res
<1> HIDE DEF w2, r
<1>8. /\ r \in Worlds /\ r.up = w2.up /\ r.conn = w2.conn
      /\ r.drv.sim # "SIM_DISCONNECTED" /\ r.drv.sap_data = w2.drv.sap_data
  <2>1. CASE r = w2
    BY <1>6, <2>1
  <2>2. CASE r = [w2 EXCEPT !.drv.sim = "SIM_POWERED_OFF"]
    BY <1>6, <2>2 DEF Worlds, Drvs, SimStates
  <2>3. CASE r = [w2 EXCEPT !.drv.sim = "SIM_CONNECTED"]
    BY <1>6, <2>3 DEF Worlds, Drvs, SimStates
  <2> QED BY <1>7, <2>1, <2>2, <2>3
<1> QED BY <1>3, <1>6, <1>8 DEF r

LEMMA CardReq ==
  ASSUME NEW w \in Worlds, NEW kind \in CardRequests, Rest(w)
  PROVE  /\ card_req(w, kind) \in Worlds
         /\ card_req(w, kind).up = w.up
         /\ Rest(card_req(w, kind))
<1> DEFINE r == card_req(w, kind)
           w1 == [w EXCEPT !.conn.req = kind]
<1>1. CASE r = sap_error_rsp(w)
  <2> HIDE DEF r
  <2>1. r \in Worlds /\ r.up = w.up /\ r.drv = w.drv /\ r.conn = w.conn
    BY <1>1, ErrorRsp
  <2>2. Rest(r)
    BY <2>1 DEF Rest, SessionOf
  <2> QED BY <2>1, <2>2 DEF r
<1>2. CASE SessionOf(w) /\ r = driver_card_req(w1, kind)
  <2>1. /\ w1 \in Worlds /\ w1.up = w.up /\ w1.drv = w.drv
        /\ w1.conn.req = kind /\ w1.conn.phase = w.conn.phase
        /\ w1.conn.timer_id = w.conn.timer_id
        /\ w1.conn.state = w.conn.state
    BY DEF Worlds, Conns, ProcessingReqs
  <2>2. w.drv.sim # "SIM_DISCONNECTED"
    BY <1>2 DEF Rest
  <2> HIDE DEF w1, r
  <2>3. /\ r \in Worlds /\ r.up = w.up
        /\ r.conn = [w1.conn EXCEPT !.req = NO_REQ]
        /\ r.drv.sim # "SIM_DISCONNECTED"
        /\ r.drv.sap_data = w.drv.sap_data
    BY <1>2, <2>1, <2>2, DriverCardReq
  <2>4. /\ r.conn.state = w.conn.state /\ r.conn.phase = w.conn.phase
        /\ r.conn.timer_id = w.conn.timer_id /\ r.conn.req = NO_REQ
    BY <2>1, <2>3 DEF Worlds, Conns
  <2>5. Rest(r)
    BY <1>2, <2>3, <2>4 DEF Rest, SessionOf
  <2> QED BY <2>3, <2>5 DEF r
<1> QED BY <1>1, <1>2 DEF card_req, SessionOf

\* The channel is gone: nothing of the connection is left anywhere.
LEMMA IoDestroy ==
  ASSUME NEW w \in Worlds, Rest(w)
  PROVE  /\ sap_io_destroy(w) \in Worlds
         /\ sap_io_destroy(w).up = w.up
         /\ Rest(sap_io_destroy(w))
<1> DEFINE w1 == [stop_guard_timer(w) EXCEPT
                    !.bus = IF w.conn.state # "CONNECT_IN_PROGRESS"
                            THEN FALSE ELSE @]
           w2 == IF w.conn.state \in {"CONNECT_IN_PROGRESS", "CONNECTED",
                                      "GRACEFUL_DISCONNECT"}
                 THEN sap_disconnect_req(w1, TRUE) ELSE w1
           r  == sap_io_destroy(w)
<1>1. /\ w1 \in Worlds /\ w1.up = w.up /\ w1.drv = w.drv
      /\ w1.conn.timer_id = 0
  BY DEF stop_guard_timer, Worlds, Conns
<1>2. r = sap_conn_remove(w2)
  BY DEF sap_io_destroy
<1> HIDE DEF w1
<1>3. /\ w2 \in Worlds /\ w2.up = w.up /\ w2.conn.timer_id = 0
      /\ w2.drv.sim = "SIM_DISCONNECTED" /\ w2.drv.sap_data = "NULL"
  BY <1>1 DEF sap_disconnect_req, Rest, SessionOf, Worlds, Drvs, SimStates
<1> HIDE DEF w2, r
<1>4. /\ r \in Worlds /\ r.up = w.up /\ r.drv = w2.drv
      /\ r.conn.phase = "none" /\ r.conn.state = "DISCONNECTED"
      /\ r.conn.timer_id = 0
  BY <1>2, <1>3 DEF sap_conn_remove, NoConn, Worlds, Conns, Phases,
                    ConnStates, ProcessingReqs, NO_REQ
<1>5. Rest(r)
  BY <1>3, <1>4 DEF Rest, SessionOf
<1> QED BY <1>4, <1>5 DEF r

\* A CONNECT_REQ ends in a session or in a refusal with the timer running.
LEMMA ClientConnect ==
  ASSUME NEW w \in Worlds, NEW size \in MsgSizes,
         Rest(w), w.conn.phase = "watch"
  PROVE  /\ connect_req(w, size) \in Worlds
         /\ connect_req(w, size).up = w.up
         /\ Rest(connect_req(w, size))
<1> DEFINE r == connect_req(w, size)
           w1 == [stop_guard_timer(w) EXCEPT
                    !.conn.state = "CONNECT_IN_PROGRESS"]
           w2 == [w1 EXCEPT !.conn.req = "CONNECT"]
<1>1. CASE w.conn.state # "DISCONNECTED"
  <2>1. r = sap_error_rsp(w)
    BY <1>1 DEF connect_req
  <2> HIDE DEF r
  <2>2. r \in Worlds /\ r.up = w.up /\ r.drv = w.drv /\ r.conn = w.conn
    BY <2>1, ErrorRsp
  <2>3. Rest(r)
    BY <2>2 DEF Rest, SessionOf
  <2> QED BY <2>2, <2>3 DEF r
<1>2. CASE w.conn.state = "DISCONNECTED"
  <2>1. /\ w1 \in Worlds /\ w1.up = w.up /\ w1.drv = w.drv
        /\ w1.conn.state = "CONNECT_IN_PROGRESS"
        /\ w1.conn.phase = "watch" /\ w1.conn.timer_id = 0
    BY DEF stop_guard_timer, Worlds, Conns, ConnStates
  <2>2. w1.drv.sap_data = "NULL" /\ w1.drv.sim = "SIM_DISCONNECTED"
    BY <1>2, <2>1 DEF Rest, SessionOf
  <2>3. r = IF size <= SAP_BUF_SIZE THEN sap_connect_req(w2, size)
            ELSE sap_connect_rsp(w1, "MAX_MSG_SIZE_NOT_SUPPORTED")
    BY <1>2 DEF connect_req
  <2> HIDE DEF w1, r
  <2>4. /\ w2 \in Worlds /\ w2.up = w.up /\ w2.drv = w1.drv
        /\ w2.conn.state = "CONNECT_IN_PROGRESS"
        /\ w2.conn.phase = "watch" /\ w2.conn.timer_id = 0
    BY <2>1 DEF Worlds, Conns, ProcessingReqs
  <2> HIDE DEF w2
  <2>5. "MAX_MSG_SIZE_NOT_SUPPORTED" \in MsgArgs \ {"OK"}
    BY DEF MsgArgs
  <2>6. CASE size <= SAP_BUF_SIZE
    <3>1. r = sap_connect_req(w2, size)
      BY <2>3, <2>6
    <3>2. r \in Worlds /\ r.up = w2.up /\ Rest(r)
      BY <2>2, <2>4, <3>1, ConnectReq
    <3> QED BY <2>4, <3>2 DEF r
  <2>7. CASE ~(size <= SAP_BUF_SIZE)
    <3>1. r = sap_connect_rsp(w1, "MAX_MSG_SIZE_NOT_SUPPORTED")
      BY <2>3, <2>7
    <3>2. r \in Worlds /\ r.up = w1.up /\ Rest(r)
      BY <2>1, <2>2, <2>5, <3>1, RefusedConnect
    <3> QED BY <2>1, <3>2 DEF r
  <2> QED BY <2>6, <2>7
<1> QED BY <1>1, <1>2

-----------------------------------------------------------------------------
(* The inductive invariant: between two events the world is at rest.       *)
IInv == /\ TypeOK
        /\ up => Rest(world)
        /\ ~up => conn.state = "DISCONNECTED"

\* The initial world is at rest.
LEMMA InitRests == Init => IInv
<1> SUFFICES ASSUME Init PROVE IInv
  OBVIOUS
<1>1. conn \in Conns /\ conn.state = "DISCONNECTED" /\ conn.timer_id = 0
      /\ conn.phase = "none"
  BY DEF Init, NoConn, Conns, NO_REQ, Phases, ConnStates, ProcessingReqs
<1>2. drv \in Drvs /\ drv.sap_data = "NULL" /\ drv.sim = "SIM_DISCONNECTED"
  BY SizeAssumption DEF Init, Drvs, SimStates
<1>3. TypeOK
  <2>1. sent \in Seq(Message)
    <3>1. << >> \in Seq(Message)
      OBVIOUS
    <3> QED BY <3>1 DEF Init
  <2>2. up \in BOOLEAN /\ bus \in BOOLEAN
    BY Zenon DEF Init
  <2> QED BY <1>1, <1>2, <2>1, <2>2 DEF TypeOK, Conns, Drvs
<1>4. Rest(world)
  BY <1>1, <1>2 DEF Rest, SessionOf, world
<1> QED BY <1>1, <1>3, <1>4 DEF IInv

\* A world installed by an action, well typed and at rest, keeps IInv.
LEMMA Installed ==
  ASSUME NEW w \in Worlds, Becomes(w), Rest(w), w.up
  PROVE  IInv'
<1>1. TypeOK'
  BY DEF Becomes, TypeOK, Worlds, Conns, Drvs
<1>2. Rest(world)'
  BY DEF Becomes, Rest, SessionOf, world
<1> QED BY <1>1, <1>2 DEF IInv, Becomes

\* The state as a world record.
LEMMA WorldType ==
  ASSUME IInv, up
  PROVE  /\ world \in Worlds /\ Rest(world) /\ world.up
         /\ world.conn = conn /\ world.drv = drv
<1>1. << >> \in Seq(Message)
  OBVIOUS
<1> QED BY <1>1 DEF IInv, TypeOK, world, Worlds, Conns, Drvs

\* A world at rest stays so when only its SIM, power state or card status
\* changes within a session, or its switches change outside one.
LEMMA DriverChange ==
  ASSUME NEW w \in Worlds, NEW r \in Worlds, Rest(w), r.up = w.up,
         r.conn = w.conn, r.drv.sap_data = w.drv.sap_data,
         r.drv.sim = "SIM_DISCONNECTED" <=> w.drv.sim = "SIM_DISCONNECTED"
  PROVE  Rest(r)
  BY DEF Rest, SessionOf

\* Each event of the main loop leaves the world at rest.
LEMMA StepRests == IInv /\ [Next]_vars => IInv'
<1> SUFFICES ASSUME IInv, [Next]_vars PROVE IInv'
  OBVIOUS
<1> USE DEF IInv
<1>1. CASE connect_confirm_cb
  <2> DEFINE w1 == [world EXCEPT !.conn = [phase |-> "auth",
                      state |-> "DISCONNECTED", req |-> "CONNECT",
                      timer_id |-> 0]]
             w2 == sap_conn_remove(world)
  <2>1. world \in Worlds /\ Rest(world) /\ world.up /\ conn.phase = "none"
        /\ world.conn = conn
    BY <1>1, WorldType DEF connect_confirm_cb
  <2>2. w1 \in Worlds /\ w1.up /\ Rest(w1)
    BY <2>1 DEF Worlds, Conns, Phases, ConnStates, ProcessingReqs, Rest,
                SessionOf
  <2>3. w2 \in Worlds /\ w2.up /\ Rest(w2)
    BY <2>1 DEF sap_conn_remove, NoConn, NO_REQ, Worlds, Conns, Phases,
                ConnStates, ProcessingReqs, Rest, SessionOf
  <2>4. Becomes(w1) \/ Becomes(w2)
    BY <1>1 DEF connect_confirm_cb
  <2> QED BY <2>2, <2>3, <2>4, Installed
<1>2. CASE connect_auth_cb
  <2> DEFINE w1 == sap_conn_remove(world)
             w2 == [world EXCEPT !.conn.phase = "accept"]
  <2>1. world \in Worlds /\ Rest(world) /\ world.up /\ conn.phase = "auth"
        /\ world.conn = conn
    BY <1>2, WorldType DEF connect_auth_cb
  <2>2. w1 \in Worlds /\ w1.up /\ Rest(w1)
    BY <2>1 DEF sap_conn_remove, NoConn, NO_REQ, Worlds, Conns, Phases,
                ConnStates, ProcessingReqs, Rest, SessionOf
  <2>3. w2 \in Worlds /\ w2.up /\ Rest(w2)
    BY <2>1 DEF Worlds, Conns, Phases, Rest, SessionOf
  <2>4. Becomes(w1) \/ Becomes(w2)
    BY <1>2 DEF connect_auth_cb
  <2> QED BY <2>2, <2>3, <2>4, Installed
<1>3. CASE sap_connect_cb
  <2> DEFINE r == start_guard_timer([world EXCEPT !.conn.phase = "watch"])
  <2>1. world \in Worlds /\ Rest(world) /\ world.up
        /\ conn.phase = "accept" /\ world.conn = conn
    BY <1>3, WorldType DEF sap_connect_cb
  <2>4. /\ r \in Worlds /\ r.up = world.up /\ r.drv = world.drv
        /\ r.conn.state = conn.state /\ r.conn.req = conn.req
        /\ r.conn.phase = "watch" /\ r.conn.timer_id = 1
    BY <2>1 DEF start_guard_timer, Worlds, Conns, Phases
  <2>5. conn.state = "DISCONNECTED"
    BY <2>1 DEF Rest, SessionOf
  <2>2. r \in Worlds /\ r.up /\ Rest(r)
    <3> HIDE DEF r
    <3> QED BY <2>1, <2>4, <2>5 DEF Rest, SessionOf
  <2>3. Becomes(r)
    BY <1>3 DEF sap_connect_cb
  <2> QED BY <2>2, <2>3, Installed
<1>4. CASE HandleConnect
  <2>1. /\ world \in Worlds /\ Rest(world) /\ world.up
        /\ world.conn.phase = "watch"
    BY <1>4, WorldType DEF HandleConnect, Readable
  <2>2. PICK size \in MsgSizes : Becomes(connect_req(world, size))
    BY <1>4 DEF HandleConnect
  <2>3. /\ connect_req(world, size) \in Worlds
        /\ connect_req(world, size).up = world.up
        /\ Rest(connect_req(world, size))
    BY <2>1, ClientConnect
  <2> QED BY <2>1, <2>2, <2>3, Installed
<1>5. CASE HandleDisconnect
  <2>1. /\ world \in Worlds /\ Rest(world) /\ world.up
        /\ world.conn.phase # "none"
    BY <1>5, WorldType DEF HandleDisconnect, Readable
  <2>2. Becomes(disconnect_req(world, "CLIENT"))
    BY <1>5 DEF HandleDisconnect
  <2>3. /\ disconnect_req(world, "CLIENT") \in Worlds
        /\ disconnect_req(world, "CLIENT").up = world.up
        /\ Rest(disconnect_req(world, "CLIENT"))
    BY <2>1, DisconnectReq
  <2> QED BY <2>1, <2>2, <2>3, Installed
<1>6. CASE HandleBadMsg
  <2>1. world \in Worlds /\ Rest(world) /\ world.up
    BY <1>6, WorldType DEF HandleBadMsg, Readable
  <2>2. Becomes(sap_error_rsp(world))
    BY <1>6 DEF HandleBadMsg
  <2>3. /\ sap_error_rsp(world) \in Worlds
        /\ sap_error_rsp(world).up = world.up
        /\ sap_error_rsp(world).conn = world.conn
        /\ sap_error_rsp(world).drv = world.drv
    BY <2>1, ErrorRsp
  <2>4. Rest(sap_error_rsp(world))
    BY <2>1, <2>3 DEF Rest, SessionOf
  <2> QED BY <2>1, <2>2, <2>3, <2>4, Installed
<1>7. CASE \E kind \in CardRequests : HandleCard(kind)
  <2>1. PICK kind \in CardRequests : HandleCard(kind)
    BY <1>7
  <2>2. world \in Worlds /\ Rest(world) /\ world.up
    BY <2>1, WorldType DEF HandleCard, Readable
  <2>3. Becomes(card_req(world, kind))
    BY <2>1 DEF HandleCard
  <2>4. /\ card_req(world, kind) \in Worlds
        /\ card_req(world, kind).up = world.up
        /\ Rest(card_req(world, kind))
    BY <2>2, CardReq
  <2> QED BY <2>2, <2>3, <2>4, Installed
<1>8. CASE ChannelGone
  <2>1. world \in Worlds /\ Rest(world) /\ world.up
    BY <1>8, WorldType DEF ChannelGone
  <2>2. Becomes(sap_io_destroy(world))
    BY <1>8 DEF ChannelGone
  <2>3. /\ sap_io_destroy(world) \in Worlds
        /\ sap_io_destroy(world).up = world.up
        /\ Rest(sap_io_destroy(world))
    BY <2>1, IoDestroy
  <2> QED BY <2>1, <2>2, <2>3, Installed
<1>9. CASE guard_timeout
  <2> DEFINE w == [world EXCEPT !.conn.timer_id = 0]
             s == [w EXCEPT !.conn.phase = "shut"]
  <2>1. /\ world \in Worlds /\ Rest(world) /\ world.up /\ world.conn = conn
        /\ conn.timer_id # 0
    BY <1>9, WorldType DEF guard_timeout
  <2>2. /\ w \in Worlds /\ w.up = world.up /\ w.drv = world.drv
        /\ w.conn.state = conn.state /\ w.conn.phase = conn.phase
        /\ w.conn.req = conn.req /\ w.conn.timer_id = 0
    BY <2>1 DEF Worlds, Conns
  <2>3. CASE conn.state = "DISCONNECTED"
    <3>1. Becomes(s)
      BY <1>9, <2>3 DEF guard_timeout
    <3>2. s \in Worlds /\ s.up
      BY <2>1, <2>2 DEF Worlds, Conns, Phases
    <3>3. Rest(s)
      BY <2>1, <2>2, <2>3 DEF Rest, SessionOf, Worlds, Conns
    <3> QED BY <3>1, <3>2, <3>3, Installed
  <2>4. CASE conn.state = "GRACEFUL_DISCONNECT"
    <3> DEFINE r == disconnect_req(w, "IMMEDIATE")
    <3>1. Becomes(r)
      BY <1>9, <2>4 DEF guard_timeout
    <3>2. SessionOf(w) /\ w.conn.phase = "watch"
      BY <2>1, <2>2, <2>4 DEF Rest, SessionOf
    <3> HIDE DEF w
    <3>3. r \in Worlds /\ r.up = w.up /\ Rest(r)
      BY <2>2, <3>2, DisconnectReq
    <3> QED BY <2>1, <2>2, <3>1, <3>3, Installed
  <2> QED BY <2>1, <2>3, <2>4 DEF Rest
<1>10. CASE Disconnect
  <2>1. /\ world \in Worlds /\ Rest(world) /\ world.up
        /\ world.conn.phase # "none"
    BY <1>10, WorldType DEF Disconnect
  <2>2. Becomes(disconnect_req(world, "GRACEFUL"))
    BY <1>10 DEF Disconnect
  <2>3. /\ disconnect_req(world, "GRACEFUL") \in Worlds
        /\ disconnect_req(world, "GRACEFUL").up = world.up
        /\ Rest(disconnect_req(world, "GRACEFUL"))
    BY <2>1, DisconnectReq
  <2> QED BY <2>1, <2>2, <2>3, Installed
<1>11. CASE sap_server_unregister
  <2> DEFINE r == [sap_conn_remove(world) EXCEPT !.up = FALSE]
  <2>1. world \in Worlds
    BY <1>11, WorldType DEF sap_server_unregister
  <2>2. r \in Worlds /\ ~r.up /\ r.conn.state = "DISCONNECTED"
    BY <2>1 DEF sap_conn_remove, NoConn, NO_REQ, Worlds, Conns, Phases,
                ConnStates, ProcessingReqs
  <2>3. Becomes(r)
    BY <1>11 DEF sap_server_unregister
  <2>4. TypeOK' /\ ~up' /\ conn'.state = "DISCONNECTED"
    BY <2>2, <2>3 DEF Becomes, TypeOK, Worlds, Conns, Drvs
  <2> QED BY <2>4
<1>12. CASE \E on \in BOOLEAN : OngoingCall(on)
  <2> DEFINE f0 == sap_connect_rsp(world, "OK")
             f == sap_status_ind(f0, "CARD_RESET")
  <2>1. /\ world \in Worlds /\ Rest(world) /\ world.up
        /\ world.conn = conn /\ world.drv = drv
    BY <1>12, WorldType DEF OngoingCall
  <2>2. f0 = world
    BY <2>1 DEF Rest, sap_connect_rsp
  <2>3. "CARD_RESET" \in MsgArgs
    BY DEF MsgArgs
  <2>4. /\ f \in Worlds /\ f.up = world.up /\ f.drv = world.drv
        /\ f.conn = world.conn
    BY <2>1, <2>2, <2>3, StatusInd
  <2>5. \/ Becomes([world EXCEPT !.drv.ongoing = TRUE])
        \/ Becomes([world EXCEPT !.drv.ongoing = FALSE])
        \/ Becomes([f EXCEPT !.drv.ongoing = FALSE])
    BY <1>12 DEF OngoingCall
  <2> HIDE DEF f
  <2>6. ASSUME NEW g \in Worlds, NEW v \in BOOLEAN, g.up, Rest(g),
               Becomes([g EXCEPT !.drv.ongoing = v])
        PROVE  IInv'
    <3> DEFINE r == [g EXCEPT !.drv.ongoing = v]
    <3>1. /\ r \in Worlds /\ r.up = g.up /\ r.conn = g.conn
          /\ r.drv.sim = g.drv.sim /\ r.drv.sap_data = g.drv.sap_data
      BY <2>6 DEF Worlds, Drvs
    <3> HIDE DEF r
    <3>2. Rest(r)
      BY <2>6, <3>1, DriverChange
    <3> QED BY <2>6, <3>1, <3>2, Installed DEF r
  <2>7. Rest(f)
    BY <2>1, <2>4, DriverChange
  <2> QED BY <2>1, <2>4, <2>5, <2>6, <2>7
<1>13. CASE \E size \in MsgSizes : MaxMessageSize(size)
  <2>1. PICK size \in MsgSizes : MaxMessageSize(size)
    BY <1>13
  <2> DEFINE r == [world EXCEPT !.drv.maxsize = size]
  <2>2. world \in Worlds /\ Rest(world) /\ world.up
    BY <2>1, WorldType DEF MaxMessageSize
  <2>3. Becomes(r)
    BY <2>1 DEF MaxMessageSize
  <2>4. /\ r \in Worlds /\ r.up = world.up /\ r.conn = world.conn
        /\ r.drv.sim = world.drv.sim /\ r.drv.sap_data = world.drv.sap_data
    BY <2>2 DEF Worlds, Drvs
  <2> HIDE DEF r
  <2>5. Rest(r)
    BY <2>2, <2>4, DriverChange
  <2> QED BY <2>2, <2>3, <2>4, <2>5, Installed
<1>14. CASE DisconnectImmediate
  <2> DEFINE w == [world EXCEPT !.drv.sim = "SIM_DISCONNECTED"]
             r == disconnect_req(w, "IMMEDIATE")
  <2>1. /\ world \in Worlds /\ Rest(world) /\ world.up /\ world.drv = drv
        /\ drv.sim # "SIM_DISCONNECTED"
    BY <1>14, WorldType DEF DisconnectImmediate
  <2>2. SessionOf(world) /\ world.conn.phase = "watch"
    BY <2>1 DEF Rest
  <2>3. w \in Worlds /\ w.up = world.up /\ w.conn = world.conn
    BY <2>1 DEF Worlds, Drvs, SimStates
  <2>4. Becomes(r)
    BY <1>14 DEF DisconnectImmediate
  <2> HIDE DEF w
  <2>5. r \in Worlds /\ r.up = w.up /\ Rest(r)
    BY <2>2, <2>3, DisconnectReq DEF SessionOf
  <2> QED BY <2>1, <2>3, <2>4, <2>5, Installed
<1>15. CASE \E status \in 0..2 : CardStatus(status)
  <2> DEFINE w1 == [world EXCEPT !.drv.sim = "SIM_MISSING"]
             w2 == [world EXCEPT !.drv.sim = "SIM_POWERED_OFF"]
             r1 == sap_status_ind(w1, "CARD_REMOVED")
             r2 == sap_status_ind(w2, "CARD_NOT_ACCESSIBLE")
  <2>1. /\ world \in Worlds /\ Rest(world) /\ world.up /\ world.drv = drv
        /\ drv.sim = "SIM_CONNECTED"
    BY <1>15, WorldType DEF CardStatus
  <2>2. Becomes(r1) \/ Becomes(r2) \/ Becomes(world)
    BY <1>15 DEF CardStatus
  <2>3. "CARD_REMOVED" \in MsgArgs /\ "CARD_NOT_ACCESSIBLE" \in MsgArgs
    BY DEF MsgArgs
  <2>4. /\ w1 \in Worlds /\ w1.up = world.up /\ w1.conn = world.conn
        /\ w1.drv.sim = "SIM_MISSING"
        /\ w1.drv.sap_data = world.drv.sap_data
    BY <2>1 DEF Worlds, Drvs, SimStates
  <2>5. /\ w2 \in Worlds /\ w2.up = world.up /\ w2.conn = world.conn
        /\ w2.drv.sim = "SIM_POWERED_OFF"
        /\ w2.drv.sap_data = world.drv.sap_data
    BY <2>1 DEF Worlds, Drvs, SimStates
  <2> HIDE DEF w1, w2
  <2>6. r1 \in Worlds /\ r1.up = w1.up /\ r1.drv = w1.drv /\ r1.conn = w1.conn
    BY <2>3, <2>4, StatusInd
  <2>7. r2 \in Worlds /\ r2.up = w2.up /\ r2.drv = w2.drv /\ r2.conn = w2.conn
    BY <2>3, <2>5, StatusInd
  <2> HIDE DEF r1, r2
  <2>8. Rest(r1)
    BY <2>1, <2>4, <2>6, DriverChange
  <2>9. Rest(r2)
    BY <2>1, <2>5, <2>7, DriverChange
  <2> QED
    BY <2>1, <2>2, <2>4, <2>5, <2>6, <2>7, <2>8, <2>9, Installed
<1>16. CASE UNCHANGED vars
  <2>1. TypeOK'
    BY <1>16 DEF TypeOK, vars
  <2>2. up => Rest(world)'
    BY <1>16 DEF vars, Rest, SessionOf, world
  <2> QED BY <1>16, <2>1, <2>2 DEF vars
<1> QED
  BY <1>1, <1>2, <1>3, <1>4, <1>5, <1>6, <1>7, <1>8, <1>9, <1>10, <1>11,
     <1>12, <1>13, <1>14, <1>15, <1>16 DEF Next

\* The world is at rest between any two events of the main loop.
THEOREM RestInvariant == Spec => []IInv
<1> QED BY InitRests, StepRests, PTL DEF Spec

\* Type correctness of the server and the driver's globals.
THEOREM TypeCorrect == Spec => []TypeOK
<1>1. IInv => TypeOK
  BY DEF IInv
<1> QED BY <1>1, RestInvariant, PTL

\* The guard timer of server.c runs exactly while it is needed: whoever
\* holds the only connection slot without a session is timed.
THEOREM GuardTimer == Spec => []GuardTimerRuns
<1>1. IInv => GuardTimerRuns
  BY DEF IInv, GuardTimerRuns, Rest, SessionOf, world
<1> QED BY <1>1, RestInvariant, PTL

\* sap-dummy.c holds the SIM exactly while server.c has a session.
THEOREM SimOwnership == Spec => []SimHeldIffSession
<1>1. IInv => SimHeldIffSession
  BY DEF IInv, SimHeldIffSession, Rest, SessionOf, Connected, world
<1> QED BY <1>1, RestInvariant, PTL

\* No answer of the driver is ever lost in an established session.
THEOREM NoRequestStuck == Spec => []NoStuckRequest
<1>1. IInv => NoStuckRequest
  BY DEF IInv, NoStuckRequest, Rest, SessionOf, Connected, world
<1> QED BY <1>1, RestInvariant, PTL

-----------------------------------------------------------------------------
(* Answers.                                                                *)

\* What AnsweredOnce asks of the messages that an event sends.
OneResponse(s) ==
  \E i \in DOMAIN s : \A j \in DOMAIN s : (s[j].id \in Responses) <=> (i = j)

\* One response, alone or with a notification after it.
LEMMA OneResponses ==
  ASSUME NEW id \in Responses, NEW arg
  PROVE  /\ OneResponse(<<[id |-> id, arg |-> arg]>>)
         /\ \A other : other.id \notin Responses =>
              OneResponse(<<[id |-> id, arg |-> arg], other>>)
<1> DEFINE m == [id |-> id, arg |-> arg]
<1>1. m.id \in Responses
  OBVIOUS
<1> HIDE DEF m
<1>2. OneResponse(<<m>>)
  <2>1. 1 \in DOMAIN <<m>> /\ \A j \in DOMAIN <<m>> : (<<m>>[j].id \in Responses) <=> (1 = j)
    BY <1>1
  <2> QED
    BY <2>1 DEF OneResponse
<1>3. ASSUME NEW other, other.id \notin Responses
      PROVE  OneResponse(<<m, other>>)
  <2> DEFINE s == <<m, other>>
  <2>1. DOMAIN s = {1, 2} /\ s[1].id \in Responses /\ s[2].id \notin Responses
    BY <1>1, <1>3
  <2> HIDE DEF s
  <2>2. \A j \in DOMAIN s : (s[j].id \in Responses) <=> (1 = j)
    BY <2>1
  <2>3. OneResponse(s)
    BY <2>1, <2>2 DEF OneResponse
  <2> QED
    BY <2>3 DEF s
<1> QED
  BY <1>2, <1>3 DEF m

LEMMA Appends ==
  ASSUME NEW m, NEW n
  PROVE  Append(<< >>, m) = <<m>> /\ Append(<<m>>, n) = <<m, n>>
<1> DEFINE S == {m, n}
<1>1. << >> \in Seq(S) /\ <<m>> \in Seq(S) /\ <<m, n>> \in Seq(S)
  OBVIOUS
<1>2. Len(<<m>>) = 1 /\ Len(<<m, n>>) = 2 /\ Len(<< >>) = 0
  OBVIOUS
<1>3. Append(<< >>, m) \in Seq(S) /\ Len(Append(<< >>, m)) = 1 /\ Append(<< >>, m)[1] = m
  BY <1>1, <1>2, AppendProperties
<1>4. /\ Append(<<m>>, n) \in Seq(S) /\ Len(Append(<<m>>, n)) = 2
      /\ Append(<<m>>, n)[1] = m /\ Append(<<m>>, n)[2] = n
  BY <1>1, <1>2, AppendProperties
<1> HIDE DEF S
<1>5. Append(<< >>, m) = <<m>>
  <2> DEFINE a == Append(<< >>, m)
             t == <<m>>
  <2>1. t[1] = m
    OBVIOUS
  <2>2. a \in Seq(S) /\ t \in Seq(S) /\ Len(a) = 1 /\ Len(t) = 1 /\ a[1] = t[1]
    BY <1>1, <1>2, <1>3, <2>1
  <2> HIDE DEF a, t
  <2>3. a = t
    BY <2>2, SeqEqual
  <2> QED
    BY <2>3 DEF a, t
<1>6. Append(<<m>>, n) = <<m, n>>
  <2> DEFINE a == Append(<<m>>, n)
             t == <<m, n>>
  <2>1. t[1] = m /\ t[2] = n
    OBVIOUS
  <2>2. /\ a \in Seq(S) /\ t \in Seq(S) /\ Len(a) = 2 /\ Len(t) = 2
        /\ a[1] = t[1] /\ a[2] = t[2]
    BY <1>1, <1>2, <1>4, <2>1
  <2> HIDE DEF a, t
  <2>3. a = t
    BY <2>2, SeqEqual
  <2> QED
    BY <2>3 DEF a, t
<1> QED
  BY <1>5, <1>6

\* What send_message adds.
LEMMA Sends ==
  ASSUME NEW w \in Worlds, NEW id, NEW arg
  PROVE  /\ send_message(w, id, arg).sent = Append(w.sent, [id |-> id, arg |-> arg])
         /\ w.sent = << >> => send_message(w, id, arg).sent = <<[id |-> id, arg |-> arg]>>
<1> DEFINE m == [id |-> id, arg |-> arg]
<1>1. send_message(w, id, arg).sent = Append(w.sent, m)
  BY DEF send_message, Worlds
<1> HIDE DEF m
<1>2. w.sent = << >> => Append(w.sent, m) = <<m>>
  BY Appends
<1> QED
  BY <1>1, <1>2 DEF m

\* sap_error_rsp answers.
LEMMA ErrorAnswers ==
  ASSUME NEW w \in Worlds, w.sent = << >>
  PROVE  OneResponse(sap_error_rsp(w).sent)
<1>1. sap_error_rsp(w).sent = <<[id |-> "ERROR_RESP", arg |-> ""]>>
  BY Sends DEF sap_error_rsp
<1>2. "ERROR_RESP" \in Responses
  BY DEF Responses
<1> QED
  BY <1>1, <1>2, OneResponses

\* sap_connect_rsp answers a request to connect.
LEMMA ConnectAnswers ==
  ASSUME NEW w \in Worlds, NEW status \in MsgArgs, w.sent = << >>,
         w.conn.state = "CONNECT_IN_PROGRESS"
  PROVE  sap_connect_rsp(w, status).sent = <<[id |-> "CONNECT_RESP", arg |-> status]>>
<1> DEFINE w1 == IF status = "OK"
                 THEN [w EXCEPT !.bus = TRUE, !.conn.state = "CONNECTED"]
                 ELSE start_guard_timer(
                        [w EXCEPT !.conn.state = "DISCONNECTED"])
           w2 == [w1 EXCEPT !.conn.req = NO_REQ]
<1>1. w2 \in Worlds /\ w2.sent = << >>
  BY DEF Worlds, Conns, ConnStates, ProcessingReqs, NO_REQ, start_guard_timer
<1>2. sap_connect_rsp(w, status) = send_message(w2, "CONNECT_RESP", status)
  BY DEF sap_connect_rsp
<1> HIDE DEF w2
<1> QED
  BY <1>1, <1>2, Sends

\* sap_connect_req answers once, and tells the state of the card of a new session.
LEMMA DriverConnectAnswers ==
  ASSUME NEW w \in Worlds, NEW size \in MsgSizes, w.sent = << >>,
         w.conn.state = "CONNECT_IN_PROGRESS", w.drv.sim = "SIM_DISCONNECTED"
  PROVE  OneResponse(sap_connect_req(w, size).sent)
<1>1. size \in Nat /\ w.drv.maxsize \in Nat
  BY SizeAssumption DEF Worlds, Drvs
<1>2. "CONNECT_RESP" \in Responses
  BY DEF Responses
<1>3. CASE ~(w.drv.maxsize = size /\ ~w.drv.ongoing)
  <2>1. PICK status \in MsgArgs : sap_connect_req(w, size) = sap_connect_rsp(w, status)
    <3>1. w.drv.maxsize > size =>
            sap_connect_req(w, size) = sap_connect_rsp(w, "MAX_MSG_SIZE_TOO_SMALL")
      BY <1>1 DEF sap_connect_req
    <3>2. w.drv.maxsize < size =>
            sap_connect_req(w, size) = sap_connect_rsp(w, "MAX_MSG_SIZE_NOT_SUPPORTED")
      BY <1>1 DEF sap_connect_req
    <3>3. w.drv.maxsize = size /\ w.drv.ongoing =>
            sap_connect_req(w, size) = sap_connect_rsp(w, "OK_ONGOING_CALL")
      BY <1>1 DEF sap_connect_req
    <3>4. {"MAX_MSG_SIZE_TOO_SMALL", "MAX_MSG_SIZE_NOT_SUPPORTED", "OK_ONGOING_CALL"} \subseteq MsgArgs
      BY DEF MsgArgs
    <3> QED
      BY <1>1, <1>3, <3>1, <3>2, <3>3, <3>4
  <2> QED
    BY <1>2, <2>1, ConnectAnswers, OneResponses
<1>4. CASE w.drv.maxsize = size /\ ~w.drv.ongoing
  <2> DEFINE w1 == [w EXCEPT !.drv.sim = "SIM_CONNECTED", !.drv.sap_data = "conn"]
             w2 == sap_connect_rsp(w1, "OK")
             m  == [id |-> "CONNECT_RESP", arg |-> "OK"]
             n  == [id |-> "STATUS_IND", arg |-> "CARD_RESET"]
  <2>1. w1 \in Worlds /\ w1.conn = w.conn /\ w1.sent = << >>
    BY DEF Worlds, Drvs, SimStates
  <2>2. sap_connect_req(w, size) = sap_status_ind(w2, "CARD_RESET")
    BY <1>1, <1>4 DEF sap_connect_req
  <2> HIDE DEF w1
  <2>3. "OK" \in MsgArgs
    BY DEF MsgArgs
  <2>4. w2 \in Worlds /\ w2.conn.state = "CONNECTED" /\ w2.sent = <<m>>
    BY <2>1, <2>3, ConnectRsp, ConnectAnswers
  <2> HIDE DEF w2
  <2>a. sap_status_ind(w2, "CARD_RESET") = send_message(w2, "STATUS_IND", "CARD_RESET")
    BY <2>4 DEF sap_status_ind
  <2>b. send_message(w2, "STATUS_IND", "CARD_RESET").sent = Append(<<m>>, n)
    BY <2>4, Sends
  <2>5. sap_status_ind(w2, "CARD_RESET").sent = <<m, n>>
    BY <2>a, <2>b, Appends
  <2>6. n.id \notin Responses
    BY DEF Responses, CardRequests
  <2> QED
    BY <1>2, <2>2, <2>5, <2>6, OneResponses
<1> QED
  BY <1>3, <1>4

\* A CONNECT_REQ is answered once.
LEMMA ClientConnectAnswers ==
  ASSUME NEW w \in Worlds, NEW size \in MsgSizes, Rest(w), w.sent = << >>
  PROVE  OneResponse(connect_req(w, size).sent)
<1> DEFINE w1 == [stop_guard_timer(w) EXCEPT
                    !.conn.state = "CONNECT_IN_PROGRESS"]
           w2 == [w1 EXCEPT !.conn.req = "CONNECT"]
<1>1. CASE w.conn.state # "DISCONNECTED"
  BY <1>1, ErrorAnswers DEF connect_req
<1>2. CASE w.conn.state = "DISCONNECTED"
  <2>1. /\ w1 \in Worlds /\ w1.drv = w.drv /\ w1.sent = << >>
        /\ w1.conn.state = "CONNECT_IN_PROGRESS"
    BY DEF stop_guard_timer, Worlds, Conns, ConnStates
  <2>2. w.drv.sim = "SIM_DISCONNECTED"
    BY <1>2 DEF Rest, SessionOf
  <2>3. connect_req(w, size) =
          IF size <= SAP_BUF_SIZE THEN sap_connect_req(w2, size)
          ELSE sap_connect_rsp(w1, "MAX_MSG_SIZE_NOT_SUPPORTED")
    BY <1>2 DEF connect_req
  <2> HIDE DEF w1
  <2>4. /\ w2 \in Worlds /\ w2.drv = w1.drv /\ w2.sent = << >>
        /\ w2.conn.state = "CONNECT_IN_PROGRESS"
    BY <2>1 DEF Worlds, Conns, ProcessingReqs
  <2> HIDE DEF w2
  <2>5. OneResponse(sap_connect_req(w2, size).sent)
    BY <2>1, <2>2, <2>4, DriverConnectAnswers
  <2>6. OneResponse(sap_connect_rsp(w1, "MAX_MSG_SIZE_NOT_SUPPORTED").sent)
    <3>1. "CONNECT_RESP" \in Responses /\ "MAX_MSG_SIZE_NOT_SUPPORTED" \in MsgArgs
      BY DEF Responses, MsgArgs
    <3> QED
      BY <2>1, <3>1, ConnectAnswers, OneResponses
  <2> QED
    BY <2>3, <2>5, <2>6
<1> QED
  BY <1>1, <1>2

\* A DISCONNECT_REQ is answered once.
LEMMA ClientDisconnectAnswers ==
  ASSUME NEW w \in Worlds, w.sent = << >>
  PROVE  OneResponse(disconnect_req(w, "CLIENT").sent)
<1>1. CASE ~SessionOf(w)
  BY <1>1, ErrorAnswers DEF disconnect_req, SessionOf
<1>2. CASE SessionOf(w)
  <2> DEFINE w0 == Drop(w, "CLIENT_DISCONNECT")
             w1 == stop_guard_timer(w0)
             w2 == [w1 EXCEPT !.drv.sim = "SIM_DISCONNECTED",
                              !.drv.sap_data = "NULL", !.drv.ongoing = FALSE]
             w3 == start_guard_timer([w2 EXCEPT !.conn.state = "DISCONNECTED",
                                                !.conn.req = NO_REQ])
  <2>1. w1 \in Worlds /\ w1.sent = << >> /\ w1.conn.state = "CLIENT_DISCONNECT"
    BY DEF Drop, stop_guard_timer, Worlds, Conns, ConnStates, ProcessingReqs, NO_REQ
  <2>2. disconnect_req(w, "CLIENT") = sap_disconnect_req(w1, FALSE)
    BY <1>2 DEF disconnect_req, SessionOf
  <2> HIDE DEF w1
  <2>3. w2 \in Worlds /\ w2.sent = << >> /\ w2.conn.state = "CLIENT_DISCONNECT"
    BY <2>1 DEF Worlds, Drvs, SimStates
  <2>4. sap_disconnect_req(w1, FALSE) = sap_disconnect_rsp(w2)
    BY DEF sap_disconnect_req
  <2> HIDE DEF w2
  <2>5. w3 \in Worlds /\ w3.sent = << >>
    BY <2>3 DEF start_guard_timer, Worlds, Conns, ConnStates, ProcessingReqs, NO_REQ
  <2>6. sap_disconnect_rsp(w2) = send_message(w3, "DISCONNECT_RESP", "")
    BY <2>3 DEF sap_disconnect_rsp
  <2> HIDE DEF w3
  <2>7. "DISCONNECT_RESP" \in Responses
    BY DEF Responses
  <2>8. send_message(w3, "DISCONNECT_RESP", "").sent = <<[id |-> "DISCONNECT_RESP", arg |-> ""]>>
    BY <2>5, Sends
  <2> QED
    BY <2>2, <2>4, <2>6, <2>7, <2>8, OneResponses
<1> QED
  BY <1>1, <1>2

\* A card request is answered once, by the driver or by an error.
LEMMA CardAnswers ==
  ASSUME NEW w \in Worlds, NEW kind \in CardRequests, w.sent = << >>
  PROVE  OneResponse(card_req(w, kind).sent)
<1> DEFINE w1 == [w EXCEPT !.conn.req = kind]
           res == CardResult(kind, w1.drv.sim)
           w2 == [w1 EXCEPT !.conn.req = NO_REQ]
           w3 == send_message(w2, kind, res)
           r  == driver_card_req(w1, kind)
<1>1. CASE card_req(w, kind) = sap_error_rsp(w)
  BY <1>1, ErrorAnswers
<1>2. CASE card_req(w, kind) = r
  <2>1. w1 \in Worlds /\ w1.sent = << >> /\ w1.conn.req = kind
    BY DEF Worlds, Conns, ProcessingReqs
  <2> HIDE DEF w1
  <2>2. w2 \in Worlds /\ w2.sent = << >>
    BY <2>1 DEF Worlds, Conns, ProcessingReqs, NO_REQ
  <2>3. sap_card_rsp(w1, kind, res) = w3
    BY <2>1 DEF sap_card_rsp
  <2>4. r \in {w3, [w3 EXCEPT !.drv.sim = "SIM_POWERED_OFF"],
               [w3 EXCEPT !.drv.sim = "SIM_CONNECTED"]}
    BY <2>3 DEF driver_card_req, res
  <2>5. w3.sent = <<[id |-> kind, arg |-> res]>>
    BY <2>2, Sends
  <2>6. DOMAIN w3 = {"up", "conn", "drv", "bus", "sent"}
    BY <2>2 DEF send_message, Worlds
  <2> HIDE DEF w2, w3, r, res
  <2>7. r.sent = w3.sent
    BY <2>4, <2>6
  <2>8. kind \in Responses
    BY DEF Responses
  <2> QED
    BY <1>2, <2>5, <2>7, <2>8, OneResponses
<1> QED
  BY <1>1, <1>2 DEF card_req

\* Every message of the client is answered by exactly one response within the
\* same event, whatever the server's and the driver's state (handle_cmd).
THEOREM Answers == Spec => AnsweredOnce
<1> DEFINE Handled == \/ HandleConnect \/ HandleDisconnect
                      \/ \E kind \in CardRequests : HandleCard(kind)
           A == Handled => \E i \in DOMAIN sent' :
                  \A j \in DOMAIN sent' : (sent'[j].id \in Responses) <=> (i = j)
<1>1. IInv /\ [Next]_vars => [A]_vars
  <2> SUFFICES ASSUME IInv, Handled
               PROVE  OneResponse(sent')
    BY DEF OneResponse
  <2>1. up
    BY DEF HandleConnect, HandleDisconnect, HandleCard, Readable
  <2>2. world \in Worlds /\ Rest(world) /\ world.sent = << >>
    BY <2>1, WorldType DEF world
  <2>3. CASE HandleConnect
    <3>1. PICK size \in MsgSizes : sent' = connect_req(world, size).sent
      BY <2>3 DEF HandleConnect, Becomes
    <3> QED
      BY <2>2, <3>1, ClientConnectAnswers
  <2>4. CASE HandleDisconnect
    <3>1. sent' = disconnect_req(world, "CLIENT").sent
      BY <2>4 DEF HandleDisconnect, Becomes
    <3> QED
      BY <2>2, <3>1, ClientDisconnectAnswers
  <2>5. CASE \E kind \in CardRequests : HandleCard(kind)
    <3>1. PICK kind \in CardRequests : sent' = card_req(world, kind).sent
      BY <2>5 DEF HandleCard, Becomes
    <3> QED
      BY <2>2, <3>1, CardAnswers
  <2> QED
    BY <2>3, <2>4, <2>5
<1> QED
  BY <1>1, RestInvariant, PTL DEF Spec, AnsweredOnce

=============================================================================
