---------------------------- MODULE AudioDevice ----------------------------
(***************************************************************************)
(* The audio device (audio/device.c): it combines the states of its headset *)
(* and its sink into one, connects the one after the other, and asks one    *)
(* authorization for all its services, those of the control channel         *)
(* (control.c) and of the gateway (manager.c) too, which have no part in     *)
(* the state.                                                              *)
(*                                                                         *)
(* The headset follows the documented transitions (Headset implements them  *)
(* except after an abandoned connect), the sink those and a disconnecting   *)
(* state.                                                                  *)
(* HEADSET_STATE_PLAY_IN_PROGRESS is treated like CONNECTED in this file.   *)
(***************************************************************************)
EXTENDS Naturals

CONSTANTS
  Has,         \* the services of the device: "headset", "sink", "control", "gateway"
  AutoConnect, \* AutoConnect of audio.conf
  Environment  \* what happens besides: "link" is asked to disconnect,
               \* "incoming" connections, "nosession": no AVDTP session,
               \* "own" Connect methods of the services, "unfinished": a control
               \* channel that was authorized fails before it is connected

ASSUME HasAssumption == Has \subseteq {"headset", "sink", "control", "gateway"}

\* Fields of d: state, auto_connect, conn_req, dc_req, the timers and
\* disconnecting, authorized of dev_priv; hs and sink, the states of the
\* services and of priv, and control, the state of AVCTP; dc_id, and whether a
\* watch was lost; auths, the services that wait for authorization (in which
\* order they came is left out: they are told in any), with the idle callback or
\* the agent (asked) that will answer; retry, AVDTP's authorization_timer;
\* closing: sink_shutdown has begun to close.
VARIABLE d

vars == <<d>>

Init ==
  d = [state |-> "disconnected", hs |-> "disconnected", sink |-> "disconnected",
       auto_connect |-> FALSE, conn_req |-> FALSE, dc_req |-> FALSE, control_timer |-> FALSE,
       avdtp_timer |-> FALSE, headset_timer |-> FALSE, disconnecting |-> FALSE,
       authorized |-> FALSE, dc_id |-> FALSE, lost |-> FALSE, auths |-> {}, idle |-> FALSE,
       asked |-> FALSE, retry |-> FALSE, closing |-> FALSE, control |-> "disconnected"]

Up == {"connected", "playing"}

-----------------------------------------------------------------------------
(* The state of the device.                                                *)

\* Requests are answered when the state changes.
AnswerRequests(v, state) ==
  [v EXCEPT !.dc_req = @ /\ state # "disconnected",
            !.disconnecting = @ /\ state # "disconnected",
            !.conn_req = @ /\ state = "connecting"]

\* The watch on the link is kept while the device is not disconnected.
SetWatch(v, state) ==
  CASE state = "disconnected" -> [v EXCEPT !.authorized = FALSE, !.dc_id = FALSE]
    [] state = "connecting" -> [v EXCEPT !.lost = @ \/ v.dc_id, !.dc_id = TRUE]
    [] state = "connected" -> v

device_set_state(v, state) ==
  LET u == SetWatch(v, state)
  IN IF v.state = state THEN u ELSE AnswerRequests([u EXCEPT !.state = state], state)

-----------------------------------------------------------------------------
audio_device_cancel_authorization_all(v, s) ==
  [v EXCEPT !.auths = @ \ {s}, !.idle = FALSE, !.asked = FALSE]

audio_device_cancel_authorization(v, s) ==
  LET rest == v.auths \ {s}
  IN [v EXCEPT !.auths = rest, !.idle = @ /\ rest # {}, !.asked = @ /\ rest # {}]

-----------------------------------------------------------------------------
(* Callbacks of the services.  A shutdown of the headset disconnects it at  *)
(* once; one of the sink now, later, or never (how): the sink has no session *)
(* or no stream that can be closed, which its callers do not look at.       *)

Hows == {"now", "later", "never"}

Leaving_link(v) == v.disconnecting

\* The other service is shut down too when one goes.
Leaving(v) == v.dc_req \/ v.disconnecting

\* A channel that waits for authorization cancels it when it goes (hs_preauth_cb,
\* connection_lost of AVDTP).
HeadsetDown(v) == [audio_device_cancel_authorization(v, "headset") EXCEPT
                     !.hs = "disconnected", !.avdtp_timer = FALSE]

\* avrcp_disconnect and avctp_set_state: the authorization ends with a control
\* channel that was the last connection (audio_device_is_active).
ControlDown(v) ==
  [audio_device_cancel_authorization(v, "control") EXCEPT
     !.control = "disconnected",
     !.authorized = @ /\ (v.control = "connected" => v.hs # "disconnected" \/ v.sink # "disconnected")]

SinkDown(v) == ControlDown([audio_device_cancel_authorization(v, "sink") EXCEPT
                              !.sink = "disconnected", !.closing = FALSE, !.retry = FALSE,
                              !.control_timer = @ /\ "control" \notin Has])

headset_shutdown(v) == device_set_state(HeadsetDown(v), "disconnected")

sink_shutdown(v, how) ==
  CASE how = "now" -> device_set_state(SinkDown(v), "disconnected")
    [] how = "later" -> [v EXCEPT !.closing = TRUE]
    [] how = "never" -> v

device_sink_cb(v, new) ==
  LET u == [v EXCEPT !.sink = new]
      down == SinkDown(v)
      fresh == [u EXCEPT !.avdtp_timer = FALSE]
  IN CASE new = "disconnected" ->
            IF v.hs # "disconnected" /\ Leaving(v) THEN headset_shutdown(down)
            ELSE IF v.hs = "disconnected" THEN device_set_state(down, "disconnected")
            ELSE IF v.sink = "connecting" /\ v.hs \in Up THEN device_set_state(down, "connected")
            ELSE down
       [] new = "connecting" ->
            IF v.hs = "disconnected" THEN device_set_state(fresh, "connecting") ELSE fresh
       [] new = "connected" /\ v.sink # "playing" ->
            IF v.auto_connect
            THEN IF "headset" \notin Has \/ v.hs \in Up THEN device_set_state(u, "connected")
                 ELSE IF v.hs = "disconnected" THEN [u EXCEPT !.headset_timer = TRUE] ELSE u
            ELSE IF v.hs \in Up THEN u ELSE device_set_state(u, "connected")
       [] OTHER -> u

device_headset_cb(v, new, how) ==
  LET u == [v EXCEPT !.hs = new]
      down == HeadsetDown(v)
      fresh == [u EXCEPT !.headset_timer = FALSE]
  IN CASE new = "disconnected" ->
            IF v.sink # "disconnected" /\ Leaving(v) THEN sink_shutdown(down, how)
            ELSE IF v.sink = "disconnected" THEN device_set_state(down, "disconnected")
            ELSE IF v.hs = "connecting" /\ v.sink \in Up THEN device_set_state(down, "connected")
            ELSE down
       [] new = "connecting" ->
            IF v.sink = "disconnected" THEN device_set_state(fresh, "connecting") ELSE fresh
       [] new = "connected" /\ v.hs \notin Up ->
            IF v.auto_connect
            THEN IF "sink" \notin Has \/ v.sink \in Up THEN device_set_state(u, "connected")
                 ELSE IF v.sink = "disconnected" THEN [u EXCEPT !.avdtp_timer = TRUE] ELSE u
            ELSE IF v.sink \in {"disconnected", "connecting"}
                 THEN device_set_state(u, "connected") ELSE u
       [] OTHER -> u

-----------------------------------------------------------------------------
(* What the services do by themselves.                                     *)

Moves(from, disconnecting) ==
  CASE from = "disconnected" -> {}
    [] from = "connecting" -> {"connected", "disconnected"}
    [] from = "connected" -> {"playing", disconnecting, "disconnected"}
    [] from = "playing" -> {"connected", disconnecting, "disconnected"}
    [] from = "disconnecting" -> {"connected", "disconnected"}

HeadsetMoves(new, how) ==
  /\ new \in Moves(d.hs, "disconnected") /\ d' = device_headset_cb(d, new, how)

\* A sink that closes does not go back.
SinkMoves(new) ==
  /\ new \in Moves(d.sink, "disconnecting")
  /\ d.closing => new \in {"disconnecting", "disconnected"}
  /\ d' = device_sink_cb(d, new)

\* AVCTP (avrcp_connect, device_avctp_cb).
ControlConnecting(v) ==
  IF v.control = "disconnected" THEN [v EXCEPT !.control = "connecting", !.control_timer = FALSE] ELSE v

\* The control channel is connected with the AVDTP session, or some time later.
device_avdtp_cb(later) ==
  /\ {"sink", "control"} \subseteq Has /\ d.sink = "connecting"
  /\ d' = IF later THEN [d EXCEPT !.control_timer = TRUE] ELSE ControlConnecting(d)

control_connect_timeout == d.control_timer /\ d' = ControlConnecting([d EXCEPT !.control_timer = FALSE])

\* The channel comes up once it is authorized, fails, or is closed.
ControlMoves(up) ==
  /\ d.control # "disconnected"
  /\ d.authorized /\ d.control = "connecting" /\ ~up => "unfinished" \in Environment
  /\ up => d.control = "connecting" /\ "control" \notin d.auths
  /\ d' = IF up THEN [d EXCEPT !.control = "connected"] ELSE ControlDown(d)

\* headset_config_stream and sink_setup_stream start a connection unless one
\* is there, or fail.
HeadsetConnects(v, ok) ==
  IF ok /\ v.hs = "disconnected" THEN device_headset_cb(v, "connecting", "never") ELSE v

SinkConnects(v, ok) ==
  IF ok /\ v.sink = "disconnected" THEN device_sink_cb(v, "connecting") ELSE v

avdtp_connect_timeout(ok) ==
  /\ d.avdtp_timer /\ (ok \/ "nosession" \in Environment)
  /\ d' = SinkConnects([d EXCEPT !.avdtp_timer = FALSE], ok)

headset_connect_timeout_any(ok) ==
  LET v == HeadsetConnects([d EXCEPT !.headset_timer = FALSE], ok)
  IN d.headset_timer /\ d' = IF v.state # "connected" THEN device_set_state(v, "connected") ELSE v

\* Without a callback headset_config_stream returns 0 whatever happens.
headset_connect_timeout(ok) ==
  LET v == HeadsetConnects([d EXCEPT !.headset_timer = FALSE], ok)
  IN /\ d.headset_timer
     /\ d' = IF v.state # "connected" /\ v.sink \in Up THEN device_set_state(v, "connected") ELSE v

-----------------------------------------------------------------------------
(* Methods.                                                                *)

\* Connect fails if it has not led to the connecting state.
dev_connect(hs, sink) ==
  LET v == [d EXCEPT !.auto_connect = TRUE]
      u == IF "headset" \in Has THEN HeadsetConnects(v, hs) ELSE v
      w == IF u.state # "connecting" /\ "sink" \in Has THEN SinkConnects(u, sink) ELSE u
  IN /\ d.state = "disconnected"
     /\ d' = [w EXCEPT !.conn_req = w.state = "connecting"]

ShutDown(v, how) ==
  IF v.sink # "disconnected"
  THEN IF how = "now" THEN device_sink_cb(v, "disconnected") ELSE sink_shutdown(v, how)
  ELSE IF v.hs # "disconnected" THEN headset_shutdown(v)
  ELSE [v EXCEPT !.dc_req = FALSE, !.disconnecting = FALSE]

dev_disconnect(how) ==
  /\ d.state # "disconnected" /\ ~d.dc_req
  /\ d' = ShutDown(ControlDown([d EXCEPT !.dc_req = TRUE, !.control_timer = FALSE]), how)

\* The watch: device_request_disconnect is about to close the link.
disconnect_cb(how) ==
  /\ "link" \in Environment /\ d.dc_id /\ d.state # "disconnected" /\ ~d.disconnecting
  /\ d' = ShutDown(ControlDown([d EXCEPT !.disconnecting = TRUE, !.control_timer = FALSE,
                                         !.avdtp_timer = FALSE, !.headset_timer = FALSE]), how)

-----------------------------------------------------------------------------
(* Authorization of incoming connections.                                  *)

Services == Has \cap {"headset", "sink"}
State(s) == IF s = "headset" THEN d.hs ELSE d.sink
ServiceCb(v, s, new) == IF s = "headset" THEN device_headset_cb(v, new, "never")
                        ELSE device_sink_cb(v, new)

\* What a service does with its connection when it is not authorized: the
\* gateway leaves it.
Refused(v, s) ==
  CASE s \in {"headset", "sink"} -> ServiceCb(v, s, "disconnected")
    [] s = "control" -> ControlDown(v)
    [] s = "gateway" -> v

\* Only the first service asks.  How btd_request_authorization answers: the agent
\* is asked, the adapter is "busy", or it fails.  AVDTP tries again when it is busy.
audio_device_request_authorization(v, s, answer) ==
  LET known == v.authorized \/ v.hs \in Up \/ v.sink \in Up
      joined == [v EXCEPT !.auths = @ \cup {s}, !.retry = @ /\ s # "sink"]
  IN IF v.auths # {} THEN joined
     ELSE IF known THEN [joined EXCEPT !.idle = TRUE]
     ELSE IF answer = "asked" THEN [joined EXCEPT !.asked = TRUE]
     ELSE IF answer = "busy" /\ s = "sink" THEN [v EXCEPT !.retry = TRUE]
     ELSE Refused(v, s)

Answers == {"asked", "busy", "fails"}

Asks(v, s, answer) ==
  LET u == audio_device_request_authorization(v, s, answer)
  IN [u EXCEPT !.auto_connect = IF s \in u.auths \cap {"headset", "sink"} THEN AutoConnect ELSE @]

\* ag_confirm, avdtp_confirm_cb, avctp_confirm_cb and hf_io_cb: an incoming connection.
Incoming(s, answer) ==
  /\ "incoming" \in Environment /\ s \in Has \ d.auths
  /\ \/ s \in {"headset", "sink"} /\ State(s) = "disconnected"
        /\ d' = Asks(ServiceCb(d, s, "connecting"), s, answer)
     \/ s = "control" /\ d.control = "disconnected" /\ d' = Asks(ControlConnecting(d), s, answer)
     \/ s = "gateway" /\ d' = Asks(d, s, answer)

\* AVDTP's timer, until somebody can be asked.
avdtp_authorization_handler(answer) == d.retry /\ d' = Asks(d, "sink", answer)

\* Connect of the headset and of the sink themselves.
ServiceConnect(s, ok) ==
  LET v == IF s = "headset" THEN HeadsetConnects(d, ok) ELSE SinkConnects(d, ok)
  IN /\ "own" \in Environment /\ s \in Services /\ State(s) = "disconnected"
     /\ d' = [v EXCEPT !.auto_connect = @ /\ ~ok /\ s # "headset"]

\* Every service that waits is told, also one that came in the meantime.  The
\* control channel connects the sink as well (sink: does it?).
auth_cb(ok, sink) ==
  LET v == [d EXCEPT !.authorized = @ \/ ok, !.auths = {}, !.idle = FALSE, !.asked = FALSE]
      Told(u, s) == IF s \in d.auths THEN Refused(u, s) ELSE u
  IN /\ IF d.idle THEN ok ELSE d.asked
     /\ \/ ok /\ d' = IF "control" \in d.auths /\ "sink" \in Has THEN SinkConnects(v, sink) ELSE v
        \/ ~ok /\ d' = Told(Told(Told(v, "control"), "headset"), "sink")
        \/ ~ok /\ d' = Told(Told(Told(v, "control"), "sink"), "headset")

\* A service is not connected before it is authorized.
Authorized(s) == s \notin d.auths /\ (s = "sink" => ~d.retry)

-----------------------------------------------------------------------------

HeadsetEvent == \E new \in {"connected", "playing", "disconnected"}, how \in Hows :
  /\ "headset" \in Has /\ (Authorized("headset") \/ new = "disconnected")
  /\ HeadsetMoves(new, how)
SinkEvent == \E new \in {"connected", "playing", "disconnecting", "disconnected"} :
  /\ "sink" \in Has /\ (Authorized("sink") \/ new = "disconnected")
  /\ SinkMoves(new)
ControlEvent ==
  \/ control_connect_timeout
  \/ \E b \in BOOLEAN : device_avdtp_cb(b) \/ ControlMoves(b)
Timers == \E ok \in BOOLEAN : avdtp_connect_timeout(ok) \/ headset_connect_timeout(ok)
Methods == \/ \E hs, sink \in BOOLEAN : dev_connect(hs, sink)
           \/ \E how \in Hows : dev_disconnect(how) \/ disconnect_cb(how)
           \/ \E s \in Services, ok \in BOOLEAN : ServiceConnect(s, ok)
IncomingConnection == \E s \in Has, answer \in Answers : Incoming(s, answer)
Retry == \E answer \in Answers : avdtp_authorization_handler(answer)
Answer == \E ok, sink \in BOOLEAN : auth_cb(ok, sink)

Next == HeadsetEvent \/ SinkEvent \/ ControlEvent \/ Timers \/ Methods
        \/ IncomingConnection \/ Retry \/ Answer

Spec == Init /\ [][Next]_vars

\* Timers fire, authorization is answered, a connection attempt ends, and so
\* does a sink that closes.
Fairness ==
  /\ WF_vars(Timers) /\ WF_vars(Answer)
  /\ WF_vars(d.hs = "connecting" /\ HeadsetEvent)
  /\ WF_vars((d.sink \in {"connecting", "disconnecting"} \/ d.closing) /\ SinkEvent)

FairSpec == Spec /\ Fairness

-----------------------------------------------------------------------------
(* Properties.                                                             *)

AS == INSTANCE AudioState WITH
  state <- d.state, States <- {"disconnected", "connecting", "connected"}

\* doc/audio-api.txt, Audio: State moves only along the listed transitions,
\* whatever the headset and the sink do at the same time, given that each of them
\* follows its own.
Documented == AS!Spec

\* The device is disconnected exactly when both services are: neither goes
\* up or down without device_headset_cb and device_sink_cb noticing.
StateFits == d.state = "disconnected" <=> d.hs = "disconnected" /\ d.sink = "disconnected"

\* There is one watch on the link, as long as something is connected: a second
\* one could never be removed.
WatchKept == ~d.lost /\ (d.dc_id <=> d.state # "disconnected")

\* Services that wait for authorization are waiting for an answer that will
\* come, and nobody is asked on behalf of a connection that has gone.
AuthUnderWay == d.auths # {} <=> d.asked \/ d.idle

\* An authorization does not survive the connections it was given for.  It does
\* where only a gateway or a control channel that was never connected asked for it:
\* nothing clears it then.
AuthorizedFits == d.authorized =>
  \/ d.state # "disconnected" \/ d.control # "disconnected"
  \/ "gateway" \in Has \/ "unfinished" \in Environment

\* The device is disconnected exactly when headset and sink are, it has one
\* watch on the link while something is connected, services that wait for
\* authorization wait for an answer that will come, and an authorization does
\* not survive the connections it was given for (the exceptions are named there).
DeviceSafe == StateFits /\ WatchKept /\ AuthUnderWay /\ AuthorizedFits

\* Audio.Connect is answered.  Not so if the sink is lost before the headset
\* has connected, or has no session, or if a client connects one service
\* itself in the meantime, or if the sink is to be shut down and does not begin to
\* close: the device stays connecting.  And the remote end can put the answer off by
\* connecting, or by closing what was connected, again and again.
SinkStays == Leaving(d) /\ ~d.closing /\ d.sink # "disconnected"
HeadsetOnly == d.hs \in Up /\ d.sink = "disconnected" /\ ~d.avdtp_timer
RemoteDisturbs ==
  \/ IncomingConnection
  \/ d.hs \in Up /\ d'.hs \notin Up
  \/ d.sink \in Up /\ d'.sink \notin Up
ConnectAnswered ==
  []<><<RemoteDisturbs>>_vars \/ (d.conn_req ~> ~d.conn_req \/ HeadsetOnly \/ SinkStays \/ ~d.auto_connect)

\* Audio.Disconnect is answered once the sink closes or is gone: the headset
\* follows it.  A sink that does not begin to close, because it has no session or no
\* stream (sink_shutdown), leaves the call open for as long as it stays.
DisconnectAnswered == d.dc_req /\ ~SinkStays ~> ~d.dc_req

=============================================================================
