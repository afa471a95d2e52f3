----------------------------- MODULE SapServer -----------------------------
(***************************************************************************)
(* The SIM Access Profile server: sap/server.c together with the one SIM   *)
(* driver of the tree, sap/sap-dummy.c, which answers every request        *)
(* synchronously.  One RFCOMM client at a time is served.                  *)
(*                                                                         *)
(* The C functions call each other with the connection and the driver's    *)
(* globals as shared state (connect_req -> sap_connect_req ->              *)
(* sap_connect_rsp -> start_guard_timer ...), so each function is an       *)
(* operator from one world record to the next, and each entry point of     *)
(* the main loop is an action that installs the world it computes.         *)
(***************************************************************************)
EXTENDS Integers, Sequences

CONSTANTS
  SAP_BUF_SIZE,   \* largest MaxMsgSize the server accepts
  MsgSizes,       \* sizes a client or the test interface may ask for
  AddrReadsConnected \* what get_properties finds in the adapter's address

ASSUME SizeAssumption == /\ SAP_BUF_SIZE \in Nat
                         /\ MsgSizes \subseteq Nat
                         /\ SAP_BUF_SIZE \in MsgSizes
                         /\ AddrReadsConnected \in BOOLEAN

VARIABLES
  up,     \* the server is registered (struct sap_server exists)
  conn,   \* struct sap_connection, and how far its channel has come
  drv,    \* the globals of sap-dummy.c
  bus,    \* last value of "Connected" sent by emit_property_changed
  sent    \* the messages sent to the client by the last step

vars == <<up, conn, drv, bus, sent>>
world == [up |-> up, conn |-> conn, drv |-> drv, bus |-> bus, sent |-> << >>]

ConnStates == {"DISCONNECTED", "CONNECT_IN_PROGRESS", "CONNECTED",
               "GRACEFUL_DISCONNECT", "IMMEDIATE_DISCONNECT",
               "CLIENT_DISCONNECT"}

\* Requests a client sends once it is connected; the session requests
\* CONNECT and DISCONNECT are handled apart.
CardRequests == {"TRANSFER_APDU", "TRANSFER_ATR", "POWER_SIM_OFF",
                 "POWER_SIM_ON", "RESET_SIM", "TRANSFER_CARD_READER_STATUS",
                 "SET_TRANSPORT_PROTOCOL"}

NO_REQ == "NO_REQ"
ProcessingReqs == CardRequests \cup {"CONNECT", NO_REQ}

SimStates == {"SIM_DISCONNECTED", "SIM_CONNECTED", "SIM_POWERED_OFF",
              "SIM_MISSING"}

\* none: server->conn is NULL.  auth: waiting for connect_auth_cb.  accept:
\* waiting for sap_connect_cb.  watch: sap_io_cb is installed.  shut: the
\* server shut the socket down and sap_io_destroy has not run yet.
Phases == {"none", "auth", "accept", "watch", "shut"}

MsgIds == {"CONNECT_RESP", "DISCONNECT_RESP", "DISCONNECT_IND",
           "STATUS_IND", "ERROR_RESP"} \cup CardRequests

\* The connection status, result code, status change or kind of
\* disconnection a message carries.
MsgArgs == {"", "OK", "CONNECTION_FAILED", "MAX_MSG_SIZE_TOO_SMALL",
            "MAX_MSG_SIZE_NOT_SUPPORTED", "OK_ONGOING_CALL", "NO_REASON",
            "NOT_ACCESSIBLE", "POWERED_OFF", "CARD_REMOVED", "NOT_SUPPORTED",
            "CARD_RESET", "CARD_NOT_ACCESSIBLE", "GRACEFUL", "IMMEDIATE"}

Message == [id : MsgIds, arg : MsgArgs]

NoConn == [phase |-> "none", state |-> "DISCONNECTED", req |-> NO_REQ,
           timer_id |-> 0]

-----------------------------------------------------------------------------
(* Sending and the guard timer.                                            *)

send_message(w, id, arg) ==
  [w EXCEPT !.sent = Append(@, [id |-> id, arg |-> arg])]

sap_error_rsp(w) == send_message(w, "ERROR_RESP", "")

\* A second start of a running timer is only logged.
start_guard_timer(w) == [w EXCEPT !.conn.timer_id = 1]

stop_guard_timer(w) == [w EXCEPT !.conn.timer_id = 0]

-----------------------------------------------------------------------------
(* Answers of the driver, implemented by the server.                       *)

\* Mutant: the request in progress is not reset.
sap_connect_rsp_keep_req(w, status) ==
  IF w.conn.state # "CONNECT_IN_PROGRESS" THEN w
  ELSE send_message(IF status = "OK"
                    THEN [w EXCEPT !.bus = TRUE, !.conn.state = "CONNECTED"]
                    ELSE start_guard_timer(
                           [w EXCEPT !.conn.state = "DISCONNECTED"]),
                    "CONNECT_RESP", status)

sap_connect_rsp(w, status) ==
  IF w.conn.state # "CONNECT_IN_PROGRESS" THEN w
  ELSE LET w1 == IF status = "OK"
                 THEN [w EXCEPT !.bus = TRUE, !.conn.state = "CONNECTED"]
                 ELSE start_guard_timer(
                        [w EXCEPT !.conn.state = "DISCONNECTED"])
       IN  send_message([w1 EXCEPT !.conn.req = NO_REQ],
                        "CONNECT_RESP", status)

\* Mutant: the session closed by the client leaves no timer behind.
sap_disconnect_rsp_no_timer(w) ==
  CASE w.conn.state = "CLIENT_DISCONNECT" ->
         send_message([w EXCEPT !.conn.state = "DISCONNECTED",
                                !.conn.req = NO_REQ], "DISCONNECT_RESP", "")
    [] w.conn.state = "IMMEDIATE_DISCONNECT" ->
         [w EXCEPT !.conn.state = "DISCONNECTED", !.conn.req = NO_REQ,
                   !.conn.phase = "shut"]
    [] OTHER -> w

sap_disconnect_rsp(w) ==
  CASE w.conn.state = "CLIENT_DISCONNECT" ->
         send_message(
           start_guard_timer([w EXCEPT !.conn.state = "DISCONNECTED",
                                       !.conn.req = NO_REQ]),
           "DISCONNECT_RESP", "")
    [] w.conn.state = "IMMEDIATE_DISCONNECT" ->
         [w EXCEPT !.conn.state = "DISCONNECTED", !.conn.req = NO_REQ,
                   !.conn.phase = "shut"]
    [] OTHER -> w

\* sap_transfer_apdu_rsp, sap_transfer_atr_rsp, sap_power_sim_off_rsp and
\* the rest: an answer to anything but the request in progress is dropped.
sap_card_rsp(w, kind, result) ==
  IF w.conn.req # kind THEN w
  ELSE send_message([w EXCEPT !.conn.req = NO_REQ], kind, result)

sap_status_ind(w, change) ==
  IF w.conn.state \in {"CONNECTED", "GRACEFUL_DISCONNECT"}
  THEN send_message(w, "STATUS_IND", change)
  ELSE w

-----------------------------------------------------------------------------
(* The driver, sap-dummy.c.                                                *)

sap_connect_req(w, size) ==
  CASE w.drv.sim # "SIM_DISCONNECTED" ->
         sap_connect_rsp(w, "CONNECTION_FAILED")
    [] w.drv.sim = "SIM_DISCONNECTED" /\ w.drv.maxsize > size ->
         sap_connect_rsp(w, "MAX_MSG_SIZE_TOO_SMALL")
    [] w.drv.sim = "SIM_DISCONNECTED" /\ w.drv.maxsize < size ->
         sap_connect_rsp(w, "MAX_MSG_SIZE_NOT_SUPPORTED")
    [] w.drv.sim = "SIM_DISCONNECTED" /\ w.drv.maxsize = size
         /\ w.drv.ongoing ->
         sap_connect_rsp(w, "OK_ONGOING_CALL")
    [] OTHER ->
         sap_status_ind(
           sap_connect_rsp([w EXCEPT !.drv.sim = "SIM_CONNECTED",
                                     !.drv.sap_data = "conn"], "OK"),
           "CARD_RESET")

sap_disconnect_req(w, linkloss) ==
  LET w1 == [w EXCEPT !.drv.sim = "SIM_DISCONNECTED", !.drv.sap_data = "NULL",
                      !.drv.ongoing = FALSE]
  IN  IF linkloss THEN w1 ELSE sap_disconnect_rsp(w1)

\* The result each card request gets in each state of the SIM.
CardResult(kind, sim) ==
  CASE kind = "SET_TRANSPORT_PROTOCOL" -> "NOT_SUPPORTED"
    [] kind = "TRANSFER_CARD_READER_STATUS" ->
         IF sim = "SIM_CONNECTED" THEN "OK" ELSE "NO_REASON"
    [] kind \notin {"SET_TRANSPORT_PROTOCOL", "TRANSFER_CARD_READER_STATUS"} ->
         CASE sim = "SIM_MISSING" -> "CARD_REMOVED"
           [] sim = "SIM_POWERED_OFF" ->
                IF kind = "POWER_SIM_ON" THEN "OK" ELSE "POWERED_OFF"
           [] sim = "SIM_CONNECTED" ->
                IF kind = "POWER_SIM_ON" THEN "NO_REASON" ELSE "OK"
           [] OTHER ->
                IF kind \in {"TRANSFER_APDU", "POWER_SIM_ON"}
                THEN "NOT_ACCESSIBLE" ELSE "NO_REASON"

\* sap_transfer_apdu_req ... sap_set_transport_protocol_req: answer, then
\* record the new power state.
driver_card_req(w, kind) ==
  LET sim == w.drv.sim
      w1  == sap_card_rsp(w, kind, CardResult(kind, sim))
  IN  CASE kind = "POWER_SIM_OFF" /\ sim = "SIM_CONNECTED" ->
             [w1 EXCEPT !.drv.sim = "SIM_POWERED_OFF"]
        [] kind = "POWER_SIM_ON" /\ sim = "SIM_POWERED_OFF" ->
             [w1 EXCEPT !.drv.sim = "SIM_CONNECTED"]
        [] OTHER -> w1

-----------------------------------------------------------------------------
(* Requests of the client and of D-Bus, as the server handles them.        *)

connect_req(w, size) ==
  IF w.conn.state # "DISCONNECTED" THEN sap_error_rsp(w)
  ELSE LET w1 == [stop_guard_timer(w) EXCEPT
                    !.conn.state = "CONNECT_IN_PROGRESS"]
       IN  IF size <= SAP_BUF_SIZE
           THEN sap_connect_req([w1 EXCEPT !.conn.req = "CONNECT"], size)
           ELSE sap_connect_rsp(w1, "MAX_MSG_SIZE_NOT_SUPPORTED")

disconnect_ind(w, type) ==
  IF w.conn.state \in {"GRACEFUL_DISCONNECT", "IMMEDIATE_DISCONNECT"}
  THEN send_message(w, "DISCONNECT_IND", type)
  ELSE w

Drop(w, state) == [w EXCEPT !.conn.state = state, !.conn.req = NO_REQ]

\* Mutant: a graceful disconnect does not start the timer.
disconnect_req_no_timer(w, type) ==
  LET st == w.conn.state IN
  CASE type = "GRACEFUL" /\ st = "CONNECTED" ->
         disconnect_ind(Drop(w, "GRACEFUL_DISCONNECT"), type)
    [] type # "GRACEFUL" /\ st \in {"CONNECTED", "GRACEFUL_DISCONNECT"} ->
         sap_disconnect_req(Drop(w, IF type = "CLIENT"
           THEN "CLIENT_DISCONNECT" ELSE "IMMEDIATE_DISCONNECT"), FALSE)
    [] OTHER -> w

disconnect_req(w, type) ==
  LET st == w.conn.state IN
  CASE type = "GRACEFUL" /\ st = "CONNECTED" ->
         start_guard_timer(
           disconnect_ind(Drop(w, "GRACEFUL_DISCONNECT"), type))
    [] type = "IMMEDIATE" /\ st \in {"CONNECTED", "GRACEFUL_DISCONNECT"} ->
         sap_disconnect_req(
           disconnect_ind(stop_guard_timer(Drop(w, "IMMEDIATE_DISCONNECT")),
                          type), FALSE)
    [] type = "CLIENT" /\ st \in {"CONNECTED", "GRACEFUL_DISCONNECT"} ->
         sap_disconnect_req(stop_guard_timer(Drop(w, "CLIENT_DISCONNECT")),
                            FALSE)
    [] type = "CLIENT" /\ st \notin {"CONNECTED", "GRACEFUL_DISCONNECT"} ->
         sap_error_rsp(w)
    [] OTHER -> w

\* Which requests in progress a new one may displace.
Displaces(kind) ==
  CASE kind = "POWER_SIM_OFF" -> {NO_REQ, "TRANSFER_APDU", "TRANSFER_ATR",
         "POWER_SIM_ON", "RESET_SIM", "TRANSFER_CARD_READER_STATUS"}
    [] kind = "RESET_SIM" -> {NO_REQ, "TRANSFER_APDU", "TRANSFER_ATR",
         "TRANSFER_CARD_READER_STATUS"}
    [] OTHER -> {NO_REQ}

\* Mutant: the early error answer falls through to the driver.
card_req_fallthrough(w, kind) ==
  IF w.conn.state \in {"CONNECTED", "GRACEFUL_DISCONNECT"}
  THEN driver_card_req([w EXCEPT !.conn.req = kind], kind)
  ELSE driver_card_req([sap_error_rsp(w) EXCEPT !.conn.req = kind], kind)

\* transfer_apdu_req ... set_transport_protocol_req.  Only an APDU is still
\* served while the session is being closed gracefully.
card_req(w, kind) ==
  IF /\ \/ w.conn.state = "CONNECTED"
        \/ kind = "TRANSFER_APDU" /\ w.conn.state = "GRACEFUL_DISCONNECT"
     /\ w.conn.req \in Displaces(kind)
  THEN driver_card_req([w EXCEPT !.conn.req = kind], kind)
  ELSE sap_error_rsp(w)

\* The structure is freed; a running timer is left to its callers.
sap_conn_remove(w) ==
  [w EXCEPT !.conn = [NoConn EXCEPT !.timer_id = w.conn.timer_id]]

\* Mutant: link loss while the session is being closed is not reported.
sap_io_destroy_connected_only(w) ==
  LET w1 == [stop_guard_timer(w) EXCEPT !.bus = FALSE]
  IN  sap_conn_remove(IF w.conn.state = "CONNECTED"
                      THEN sap_disconnect_req(w1, TRUE) ELSE w1)

\* Runs when the watch of the channel goes away.
sap_io_destroy(w) ==
  LET st == w.conn.state
      w1 == [stop_guard_timer(w) EXCEPT
               !.bus = IF st # "CONNECT_IN_PROGRESS" THEN FALSE ELSE @]
      w2 == IF st \in {"CONNECT_IN_PROGRESS", "CONNECTED",
                       "GRACEFUL_DISCONNECT"}
            THEN sap_disconnect_req(w1, TRUE) ELSE w1
  IN  sap_conn_remove(w2)

-----------------------------------------------------------------------------
(* The main loop.                                                          *)

Becomes(w) == /\ up' = w.up
              /\ conn' = w.conn
              /\ drv' = w.drv
              /\ bus' = w.bus
              /\ sent' = w.sent

Init == /\ up = TRUE
        /\ conn = NoConn
        /\ drv = [sim |-> "SIM_DISCONNECTED", sap_data |-> "NULL",
                  ongoing |-> FALSE, maxsize |-> SAP_BUF_SIZE]
        /\ bus = FALSE
        /\ sent = << >>

\* A client opens the RFCOMM channel (a second one is turned away and
\* leaves no trace).  The structure is zero filled, and zero is the code of
\* CONNECT_REQ.  The request for authorization may fail at once.
connect_confirm_cb ==
  /\ up /\ conn.phase = "none"
  /\ \/ Becomes([world EXCEPT !.conn = [phase |-> "auth",
                   state |-> "DISCONNECTED", req |-> "CONNECT",
                   timer_id |-> 0]])
     \/ Becomes(sap_conn_remove(world))

\* The agent refuses, the channel is already dead, or accepting begins.
connect_auth_cb ==
  /\ up /\ conn.phase = "auth"
  /\ \/ Becomes(sap_conn_remove(world))
     \/ Becomes([world EXCEPT !.conn.phase = "accept"])

\* An error of the accept is not looked at: the watch finds it.
sap_connect_cb ==
  /\ up /\ conn.phase = "accept"
  /\ Becomes(start_guard_timer([world EXCEPT !.conn.phase = "watch"]))

\* sap_io_cb and handle_cmd: one message of the client.
Readable == up /\ conn.phase = "watch"

HandleConnect == /\ Readable
                 /\ \E size \in MsgSizes : Becomes(connect_req(world, size))

HandleDisconnect == /\ Readable
                    /\ Becomes(disconnect_req(world, "CLIENT"))

HandleCard(kind) == Readable /\ Becomes(card_req(world, kind))

\* A message check_msg refuses, too short a message or an unknown id.
HandleBadMsg == Readable /\ Becomes(sap_error_rsp(world))

\* HUP, an error, or the socket the server itself shut down.
ChannelGone == /\ up /\ conn.phase \in {"watch", "shut"}
               /\ Becomes(sap_io_destroy(world))

guard_timeout ==
  /\ up /\ conn.timer_id # 0
  /\ LET w == [world EXCEPT !.conn.timer_id = 0] IN
     CASE conn.state = "DISCONNECTED" ->
            Becomes([w EXCEPT !.conn.phase = "shut"])
       [] conn.state = "GRACEFUL_DISCONNECT" ->
            Becomes(disconnect_req(w, "IMMEDIATE"))
       [] OTHER -> Becomes(w)

\* The D-Bus method Disconnect of org.bluez.SimAccess.
Disconnect == /\ up /\ conn.phase # "none"
              /\ Becomes(disconnect_req(world, "GRACEFUL"))

\* Adapter removal.  Neither the driver nor a running timer is told, and the
\* driver's test interface stays registered, so sap_init refuses a second
\* registration: the model ends here.
sap_server_unregister ==
  /\ up
  /\ Becomes([sap_conn_remove(world) EXCEPT !.up = FALSE])

\* The test interface of the driver.
OngoingCall(on) ==
  LET finished == sap_status_ind(sap_connect_rsp(world, "OK"), "CARD_RESET")
  IN  /\ up
      /\ drv.ongoing # on
      /\ IF on THEN Becomes([world EXCEPT !.drv.ongoing = TRUE])
         ELSE IF drv.sap_data # "NULL"
              THEN Becomes([finished EXCEPT !.drv.ongoing = FALSE])
              ELSE Becomes([world EXCEPT !.drv.ongoing = FALSE])

MaxMessageSize(size) ==
  /\ up /\ drv.sim # "SIM_CONNECTED"
  /\ Becomes([world EXCEPT !.drv.maxsize = size])

DisconnectImmediate ==
  /\ up /\ drv.sim # "SIM_DISCONNECTED"
  /\ Becomes(disconnect_req([world EXCEPT !.drv.sim = "SIM_DISCONNECTED"],
                            "IMMEDIATE"))

\* Reinsertion is guarded by a state the first check excludes.
CardStatus(status) ==
  /\ up /\ drv.sim = "SIM_CONNECTED"
  /\ CASE status = 0 ->
            Becomes(sap_status_ind([world EXCEPT !.drv.sim = "SIM_MISSING"],
                                   "CARD_REMOVED"))
       [] status = 2 ->
            Becomes(sap_status_ind(
              [world EXCEPT !.drv.sim = "SIM_POWERED_OFF"],
              "CARD_NOT_ACCESSIBLE"))
       [] OTHER -> Becomes(world)

Next ==
  \/ connect_confirm_cb \/ connect_auth_cb \/ sap_connect_cb
  \/ HandleConnect \/ HandleDisconnect \/ HandleBadMsg
  \/ \E kind \in CardRequests : HandleCard(kind)
  \/ ChannelGone \/ guard_timeout \/ Disconnect \/ sap_server_unregister
  \/ \E on \in BOOLEAN : OngoingCall(on)
  \/ \E size \in MsgSizes : MaxMessageSize(size)
  \/ DisconnectImmediate
  \/ \E status \in 0..2 : CardStatus(status)

\* The main loop dispatches an expired timer and a dead socket.
Fairness == WF_vars(guard_timeout) /\ WF_vars(conn.phase = "shut" /\ ChannelGone)

Spec == Init /\ [][Next]_vars
FairSpec == Spec /\ Fairness

-----------------------------------------------------------------------------
(* What get_properties answers.  It is registered with the struct          *)
(* sap_server as its data and reads it as a struct sap_connection: the     *)
(* field it takes for the state overlaps the server's address and path.    *)
get_properties == AddrReadsConnected

Connected == conn.state \in {"CONNECTED", "GRACEFUL_DISCONNECT"}

-----------------------------------------------------------------------------
(* Every variable stays in its set.                                        *)
TypeOK ==
  /\ up \in BOOLEAN
  /\ conn \in [phase : Phases, state : ConnStates, req : ProcessingReqs,
               timer_id : {0, 1}]
  /\ drv \in [sim : SimStates, sap_data : {"NULL", "conn"}, ongoing : BOOLEAN,
              maxsize : MsgSizes]
  /\ bus \in BOOLEAN
  /\ sent \in Seq(Message)

(* The guard timer (start_guard_timer, guard_timeout) runs exactly while   *)
(* somebody must be waited for with a limit: an open channel without a     *)
(* session, or a session being closed gracefully.  So neither an idle      *)
(* client nor one that ignores DISCONNECT_IND keeps the only connection    *)
(* slot, and guard_timeout never meets an "Unexpected state".              *)
GuardTimerRuns ==
  up => ((conn.timer_id # 0) <=>
           \/ conn.phase = "watch" /\ conn.state = "DISCONNECTED"
           \/ conn.state = "GRACEFUL_DISCONNECT")

(* While the server is registered the SIM is taken from the phone exactly  *)
(* while a client has a session: every way a session ends (DISCONNECT_REQ, *)
(* timer, DisconnectImmediate, link loss in sap_io_destroy) gives it back, *)
(* and the driver's sap_data never outlives the connection.                *)
SimHeldIffSession ==
  up => /\ drv.sap_data # "NULL" <=> Connected
        /\ drv.sim # "SIM_DISCONNECTED" <=> Connected

(* Between two events no request is in progress in an established session, *)
(* so none is refused as busy because an earlier answer was lost.          *)
NoStuckRequest == Connected => conn.req = NO_REQ

Responses == {"CONNECT_RESP", "DISCONNECT_RESP", "ERROR_RESP"} \cup CardRequests

(* Every message of the client is answered by exactly one response within  *)
(* the same event: handle_cmd, the driver and the rsp functions together   *)
(* neither lose an answer nor send two.                                    *)
AnsweredOnce ==
  [][(\/ HandleConnect \/ HandleDisconnect
      \/ \E kind \in CardRequests : HandleCard(kind))
       => \E i \in DOMAIN sent' :
            \A j \in DOMAIN sent' : (sent'[j].id \in Responses) <=> (i = j)]_vars

(* A graceful disconnect is not forever: the client answers or the guard   *)
(* timer closes the session and the SIM is given back, unless the adapter  *)
(* goes away first.                                                        *)
GracefulEnds ==
  (conn.state = "GRACEFUL_DISCONNECT")
    ~> (drv.sim = "SIM_DISCONNECTED" \/ ~up)

(* sap-api.txt: the property Connected "Indicates if SAP client is         *)
(* connected to the server."                                               *)
GetPropertiesTellsConnected == up => (get_properties <=> Connected)

=============================================================================
