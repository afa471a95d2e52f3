------------------------------- MODULE Control -------------------------------
(***************************************************************************)
(* audio/control.c: the AVCTP channel of one device and the AVRCP target    *)
(* behind it.  Some commands are answered at once; others wait until the    *)
(* media player answers a signal with one of the Update... methods, and     *)
(* notifications are answered twice: with an interim response, and when the *)
(* player tells of a change.  peer is what the remote controller waits for  *)
(* in the present session; keys and the values of the responses are left    *)
(* out.                                                                    *)
(***************************************************************************)
EXTENDS Naturals, FiniteSets

CONSTANTS Transactions, \* transaction labels
          Watched,      \* the events that the controller registers for
          Asked,        \* the commands it sends that the player answers
          MaxStray,     \* timers that no variable refers to
          ControlEnvironment \* what else happens: the device is removed ("unregister"), the player
                             \* tells "invalid" settings

VARIABLE c

None == "none"
Events == {"track", "status", "pos", "settings"}

\* The notifications that control.c knows.
ASSUME WatchedAssumption == Watched \subseteq Events

\* Commands that the player answers: pending_get.
Gets == {"list_attributes", "list_values", "current_values", "text"}

\* What is known of the track; of a long one not all fits into one packet.
Tracks == {"short", "long1", "long2"}

QuietPeer == [reg |-> [e \in Events |-> None], get |-> None, pdu |-> None, status |-> None, cont |-> None]

ControlInit ==
  c = [state |-> "disconnected", io |-> FALSE, io_id |-> FALSE,
       auth |-> FALSE,  \* the audio device waits for an authorization
       cb |-> FALSE,    \* bt_io_connect or bt_io_accept has a callback to make
       reg |-> [e \in Events |-> None], \* reg_... and trans_id_event_...
       pending_get |-> None, pending_id |-> None, req_status |-> None,
       req_pos |-> FALSE, timer |-> FALSE, stray |-> 0,
       track |-> "short", remaining |-> None,
       peer |-> QuietPeer]

-----------------------------------------------------------------------------
(* The channel.                                                            *)

\* Mutant: the authorization is not cancelled.
avctp_disconnected_authorizing(v) ==
  [v EXCEPT !.io = FALSE, !.io_id = FALSE, !.cb = IF v.io THEN FALSE ELSE @]

\* The callback is not made once the channel is closed.
avctp_disconnected(v) ==
  [v EXCEPT !.io = FALSE, !.io_id = FALSE, !.cb = IF v.io THEN FALSE ELSE @,
            !.auth = IF v.io_id /\ v.state = "connecting" THEN FALSE ELSE @]

\* What the controller was waiting for ends with the session; the daemon's notes
\* about it do not.
SetDisconnected(v) ==
  [avctp_disconnected(v) EXCEPT !.state = "disconnected", !.peer = QuietPeer]

avrcp_connect(ok) ==
  /\ c.state = "disconnected"
  /\ c' = IF ok THEN [c EXCEPT !.state = "connecting", !.io = TRUE, !.cb = TRUE] ELSE c

avctp_connect_cb(ok) ==
  /\ c.cb
  /\ c' = IF ok THEN [c EXCEPT !.cb = FALSE, !.io = TRUE, !.state = "connected", !.io_id = TRUE]
          ELSE SetDisconnected([c EXCEPT !.cb = FALSE])

\* The remote end connects: asked is FALSE when no authorization can be requested.
avctp_confirm_cb(asked) ==
  /\ ~c.io
  /\ LET u == [c EXCEPT !.state = "connecting", !.io = TRUE]
     IN c' = IF asked THEN [u EXCEPT !.auth = TRUE, !.io_id = TRUE] ELSE SetDisconnected(u)

auth_cb(granted) ==
  /\ c.auth
  /\ LET u == [c EXCEPT !.auth = FALSE, !.io_id = FALSE]
     IN c' = IF granted THEN [u EXCEPT !.cb = TRUE] ELSE SetDisconnected(u)

avrcp_disconnect == c.io /\ c' = SetDisconnected(c)

\* control_cb: an error, or a response that cannot be written.
Hangup == c.io_id /\ c' = SetDisconnected(c)

\* path_unregister, and control_init when the device is seen again.
path_unregister ==
  /\ "unregister" \in ControlEnvironment
  /\ c' = [(IF c.state # "disconnected" THEN avctp_disconnected(c) ELSE c) EXCEPT
             !.state = "disconnected", !.reg = [e \in Events |-> None], !.pending_get = None,
             !.pending_id = None, !.req_status = None, !.req_pos = FALSE, !.timer = FALSE,
             !.track = "short", !.remaining = None, !.peer = QuietPeer]

-----------------------------------------------------------------------------
(* control_cb: the commands of the controller.                             *)

Connected == c.state = "connected"

\* RegisterNotification; the period of "pos" may be 0, which is rejected, but
\* only after it has been noted.
Register(e, t, period) ==
  /\ Connected /\ c.peer.reg[e] = None /\ (e # "pos" => period = 1)
  /\ LET timed == e = "pos" /\ period > 0
     IN /\ timed /\ c.timer => c.stray < MaxStray
        /\ c' = [c EXCEPT !.reg[e] = t, !.timer = @ \/ timed,
                    !.stray = IF timed /\ c.timer THEN @ + 1 ELSE @,
                    !.peer.reg[e] = IF period > 0 THEN t ELSE None]

GetPlayStatus(t) ==
  /\ Connected /\ c.peer.status = None
  /\ c' = [c EXCEPT !.req_status = t, !.peer.status = t]

\* The four commands about the player's settings, one at a time.
Get(pdu, t) ==
  /\ Connected /\ c.peer.get = None
  /\ c' = [c EXCEPT !.pending_get = pdu, !.pending_id = t, !.peer.get = t, !.peer.pdu = pdu]

\* SetPlayerApplicationSettingValue is answered at once.
SetValues ==
  /\ Connected /\ c.peer.get = None
  /\ c' = [c EXCEPT !.pending_get = None, !.pending_id = None]

\* send_meta_data: a new answer replaces the rest of the last one only if it has
\* a rest itself.
send_meta_data ==
  /\ Connected
  /\ c' = IF c.track = "short" THEN [c EXCEPT !.peer.cont = None]
          ELSE [c EXCEPT !.remaining = c.track, !.peer.cont = c.track]

\* RequestContinuingResponse and AbortContinuingResponse.  UpdateMetaData cuts the
\* texts, so that the rest of a track always fits into one more packet.
Continue ==
  /\ Connected
  /\ c' = [c EXCEPT !.remaining = None, !.peer.cont = None]

-----------------------------------------------------------------------------
(* The media player's methods.                                             *)

update_metadata(track) == track # c.track /\ c' = [c EXCEPT !.track = track]

\* A CHANGED response.  One of an earlier session reaches a controller that does
\* not wait for it.
Changed(v, e) ==
  [v EXCEPT !.reg[e] = None, !.peer.reg[e] = IF @ = v.reg[e] THEN None ELSE @]

\* send_playback_pos_request: ask the player for the position.
send_playback_pos_request(v) == [v EXCEPT !.timer = FALSE, !.req_pos = TRUE]

\* send_notification, for the track and the status.
update_notification(e) ==
  /\ Connected /\ e \in {"track", "status"}
  /\ LET u == IF c.reg["pos"] # None THEN send_playback_pos_request(c) ELSE c
     IN c' = IF c.reg[e] = None THEN u ELSE Changed(u, e)

\* send_play_status, then send_playback_pos_notification.
update_play_status(playing) ==
  /\ Connected
  /\ LET u == IF c.req_status = None THEN c
              ELSE [c EXCEPT !.req_status = None,
                             !.peer.status = IF @ = c.req_status THEN None ELSE @]
     IN c' = IF ~c.req_pos \/ ~playing THEN u
             ELSE Changed([u EXCEPT !.req_pos = FALSE, !.timer = FALSE], "pos")

\* fill_header or fill_error_header, and the response.
Answer(v) ==
  [v EXCEPT !.pending_get = None, !.peer.get = IF @ = v.pending_id THEN None ELSE @,
            !.peer.pdu = IF v.peer.get = v.pending_id THEN None ELSE @]

\* send_supported_attributes, send_supported_values, send_attr_value_text.
Update(pdu) ==
  /\ Connected /\ pdu \in Gets \ {"current_values"} /\ c.pending_get = pdu
  /\ c' = Answer(c)

\* send_attribute_values: an answer or a notification.
update_current_values(valid) ==
  /\ Connected
  /\ c' = IF c.pending_get = "current_values" THEN Answer(c)
          ELSE IF c.reg["settings"] = None THEN c
          ELSE IF valid THEN Changed(c, "settings")
          ELSE [c EXCEPT !.reg["settings"] = None]

\* A timer of the position: playstatus_timer, or one that was overwritten.
TimerFires == c.timer /\ c' = send_playback_pos_request(c)
StrayFires == c.stray > 0 /\ c' = send_playback_pos_request([c EXCEPT !.stray = @ - 1])

-----------------------------------------------------------------------------

ControlNext ==
  \/ \E ok \in BOOLEAN : \/ avrcp_connect(ok) \/ avctp_connect_cb(ok)
                         \/ avctp_confirm_cb(ok) \/ auth_cb(ok)
                         \/ update_play_status(ok)
                         \/ (ok \/ "invalid" \in ControlEnvironment) /\ update_current_values(ok)
  \/ avrcp_disconnect \/ Hangup \/ path_unregister
  \/ \E t \in Transactions : \/ \E e \in Watched, period \in 0..1 : Register(e, t, period)
                             \/ GetPlayStatus(t)
                             \/ \E pdu \in Asked : Get(pdu, t)
  \/ SetValues \/ send_meta_data \/ Continue
  \/ \E track \in Tracks : update_metadata(track)
  \/ \E e \in Events : update_notification(e)
  \/ \E pdu \in Asked : Update(pdu)
  \/ TimerFires \/ StrayFires

ControlSpec == ControlInit /\ [][ControlNext]_c

-----------------------------------------------------------------------------
(* Properties.                                                             *)

\* The state, the channel, its watch and what is under way agree: a connection
\* being set up has an authorization or a callback to come, and an authorization
\* never outlives the connection it is for, not even the control itself.
ChannelConsistent ==
  /\ c.state = "disconnected" => ~c.io /\ ~c.io_id /\ ~c.auth /\ ~c.cb
  /\ c.state = "connecting" => c.io /\ (c.auth \/ c.cb) /\ ~(c.auth /\ c.cb) /\ c.io_id = c.auth
  /\ c.state = "connected" => c.io /\ c.io_id /\ ~c.auth /\ ~c.cb

\* What the controller waits for is never forgotten: each interim response is
\* still registered under its label, the position is asked for or will be, and a
\* command left to the player is the pending one.
NothingForgotten ==
  /\ \A e \in Events : c.peer.reg[e] # None => c.reg[e] = c.peer.reg[e]
  /\ c.peer.reg["pos"] # None => c.timer \/ c.req_pos
  /\ c.peer.get # None => c.pending_get = c.peer.pdu /\ c.pending_id = c.peer.get
  /\ c.peer.status # None => c.req_status = c.peer.status

\* The rest of a long answer is the rest of the answer that the controller has
\* begun to receive, whatever the player changed in between.
RestBelongs == c.peer.cont # None => c.remaining = c.peer.cont

\* The AVCTP channel, its state and what is under way agree (control.c); what a
\* controller waits for, an answer of the player or a changed event, is not
\* forgotten, and the rest of a long answer is the one that it expects.  The player tells
\* valid settings only ("invalid": what is left of them then may be nothing).
ControlSafe == ChannelConsistent /\ NothingForgotten /\ RestBelongs
=============================================================================
