------------------------------ MODULE Headset ------------------------------
(***************************************************************************)
(* The headset gateway (audio/headset.c) of one device: RFCOMM and SCO      *)
(* channels, the service search before them, incoming connections          *)
(* (audio/manager.c, audio/main.c), the requests of D-Bus clients and of    *)
(* stream users (audio/unix.c), and the ringing of incoming calls.         *)
(*                                                                         *)
(* AT commands appear by what they change: the service level connection    *)
(* and the ringing.  SCO is routed over PCM, so that Play is accepted.      *)
(***************************************************************************)
EXTENDS Naturals, FiniteSets

CONSTANTS
  Clients,     \* D-Bus clients of the Headset interface
  Users,       \* stream users; each locks a direction of its own
  InbandRing,  \* does the telephony back end ring in band?
  Environment  \* what happens besides, a subset of Allowed

\* "streams" of users; "device": audio/device.c connects; "indicate": clients
\* show a call while one waits for audio; "telephony" back ends stop while
\* it rings; "fail": connects fail at once though nobody waits for an answer;
\* "abandon": see Abandoned; "busyloop": other events come before an idle
\* callback; "burst": and before the watch of a channel that was just closed.
Allowed == {"streams", "device", "indicate", "telephony", "fail", "abandon", "busyloop", "burst"}

ASSUME ConstantsAssumption ==
  InbandRing \in BOOLEAN /\ Environment \subseteq Allowed /\ "none" \notin Clients \cup Users

\* Fields of h:
\*   state, hfp (hfp_active), handle (hfp_handle), ch (rfcomm_ch), auto_dc
\*   tmp, rfcomm  the channel each names: "out", "in" or "none"
\*   live         channels whose callback headset_connect_cb is registered
\*   auths        requests to authorize the incoming channel; preauth: its watch
\*   slc          "none", "plain" or "threeway"; pending_ring is a field of it
\*   sco          "none", "connecting", "up", or "closed": shut down, not told yet
\*   pending      the pending_connect, or NoPending; svc is its svclass
\*   sdp          the class the search under way looks for
\*   idles        queued calls of dummy_connect_complete
\*   dc           dc_timer: "none", "live", or "stale" when the timer has fired
\*   lost_dc, lost_ring  is there a running timer that its variable does not name?
\*   ring, ready  ag.ring_timer and ag.telephony_ready
\*   call         what each client waits for; locks, waiting: the users that
\*                have locked and that wait for their callback
\*   told         the last State that was signalled
\*   fault        has a null pointer been used, or an assertion failed?
VARIABLE h

vars == <<h>>

NoPending == [on |-> FALSE, msg |-> "none", target |-> "CONNECTED", cbs |-> {}, svc |-> "none"]

Init == \E ready, handle \in BOOLEAN :
  h = [state |-> "DISCONNECTED", hfp |-> FALSE, handle |-> handle, ch |-> FALSE,
       auto_dc |-> FALSE, tmp |-> "none", rfcomm |-> "none", live |-> {}, auths |-> 0,
       preauth |-> FALSE, slc |-> "none", pending_ring |-> FALSE, sco |-> "none",
       pending |-> NoPending, sdp |-> "none", idles |-> 0, dc |-> "none", lost_dc |-> FALSE, lost_ring |-> FALSE,
       ring |-> FALSE, ready |-> ready, call |-> [c \in Clients |-> "none"], locks |-> {},
       waiting |-> {}, told |-> "disconnected", fault |-> FALSE]

Rank(s) == CASE s = "DISCONNECTED" -> 0 [] s = "CONNECTING" -> 1 [] s = "CONNECTED" -> 2
             [] s = "PLAY_IN_PROGRESS" -> 3 [] s = "PLAYING" -> 4

state2str(s) == CASE s = "DISCONNECTED" -> "disconnected" [] s = "CONNECTING" -> "connecting"
                  [] s \in {"CONNECTED", "PLAY_IN_PROGRESS"} -> "connected"
                  [] s = "PLAYING" -> "playing"

-----------------------------------------------------------------------------
(* Pending connects.                                                       *)

\* The method call of the pending connect is answered.
Reply(v) == IF v.pending.msg = "none" THEN v
            ELSE [v EXCEPT !.call[v.pending.msg] = "none", !.pending.msg = "none"]

\* A call that was not answered before is not answered here either.
pending_connect_finalize(v) ==
  [v EXCEPT !.sdp = IF v.pending.svc = "none" THEN @ ELSE "none",
            !.waiting = @ \ v.pending.cbs, !.pending = NoPending]

pending_connect_init(v, target) ==
  IF v.pending.on
  THEN [v EXCEPT !.pending.target = IF Rank(@) < Rank(target) THEN target ELSE @]
  ELSE [v EXCEPT !.pending = [NoPending EXCEPT !.on = TRUE, !.target = target]]

\* users is empty if there is no callback.
connect_cb_new(v, target, users) ==
  [pending_connect_init(v, target) EXCEPT !.pending.cbs = @ \cup users,
                                          !.waiting = @ \cup users]

-----------------------------------------------------------------------------
(* Channels and the state.                                                 *)

close_sco(v) == [v EXCEPT !.sco = "none"]

headset_close_rfcomm(v) ==
  LET channel == IF v.tmp # "none" THEN v.tmp ELSE v.rfcomm
  IN [v EXCEPT !.live = @ \ {channel}, !.tmp = "none", !.rfcomm = "none", !.slc = "none",
               !.pending_ring = FALSE]

\* The State that clients have been told after a change.
Signalled(v, state) ==
  IF state = "PLAY_IN_PROGRESS" \/ (state = "CONNECTED" /\ v.state = "PLAY_IN_PROGRESS")
  THEN v.told ELSE state2str(state)

\* The watch on the SCO channel is set when the state becomes PLAYING.
headset_set_state(v, state) ==
  LET closed == IF state = "DISCONNECTED" THEN headset_close_rfcomm(close_sco(v))
                ELSE IF state = "CONNECTED" THEN close_sco(v) ELSE v
  IN IF v.state = state THEN v
     ELSE [closed EXCEPT
            !.state = state, !.told = Signalled(v, state),
            !.fault = \/ @
                      \/ state = "CONNECTED" /\ Rank(v.state) < 2 /\ v.slc = "none"
                      \/ state = "PLAYING" /\ (v.slc = "none" \/ v.sco = "none")]

headset_shutdown(v) ==
  headset_set_state(pending_connect_finalize(Reply(v)), "DISCONNECTED")

ConnectFailed_kept(v) == pending_connect_finalize(Reply(v))

\* The end of a channel that could not be connected.
ConnectFailed(v) ==
  LET u == pending_connect_finalize(Reply(v))
  IN headset_set_state(u, IF u.rfcomm # "none" THEN "CONNECTED" ELSE "DISCONNECTED")

-----------------------------------------------------------------------------
(* Connecting.  Each operator returns what it leaves and whether it failed; *)
(* io: do bt_io_connect and bt_search_service succeed at once?             *)

Failed(v) == [v |-> v, ok |-> FALSE]
Done(v) == [v |-> v, ok |-> TRUE]

sco_connect(v, users, io) ==
  IF v.state # "CONNECTED" \/ ~io THEN Failed(v)
  ELSE Done(connect_cb_new(headset_set_state([v EXCEPT !.sco = "connecting"],
                                             "PLAY_IN_PROGRESS"), "PLAYING", users))

\* With a pending connect the callback is dropped.
get_records(v, users, io) ==
  LET svc == IF v.pending.svc = "HFP" THEN "HSP" ELSE "HFP"
      u == [v EXCEPT !.sdp = svc]
      new == connect_cb_new(headset_set_state(u, "CONNECTING"), "CONNECTED", users)
  IN IF ~io THEN Failed(v)
     ELSE IF v.pending.on
     THEN Done([u EXCEPT !.pending.svc = svc, !.waiting = @ \cup users])
     ELSE Done([new EXCEPT !.pending.svc = svc])

\* allow: manager_allow_headset_connection.
rfcomm_connect(v, users, io, allow) ==
  LET u == [v EXCEPT !.ch = FALSE, !.tmp = "out", !.live = @ \cup {"out"}, !.hfp = v.handle]
  IN IF ~allow THEN Failed(v)
     ELSE IF ~v.ch THEN get_records(v, users, io)
     ELSE IF ~io THEN Failed([v EXCEPT !.ch = FALSE, !.tmp = "none"])
     ELSE Done(connect_cb_new(headset_set_state(u, "CONNECTING"), "CONNECTED", users))

hfp_slc_complete(v, io) ==
  LET u == headset_set_state(v, "CONNECTED")
      sco == sco_connect(u, {}, io)
  IN IF ~u.pending.on THEN u
     ELSE IF u.pending.target = "CONNECTED" THEN pending_connect_finalize(Reply(u))
     ELSE IF sco.ok THEN sco.v ELSE pending_connect_finalize(Reply(sco.v))

\* A pending ring becomes a ring timer; a running one is forgotten.
RingPending(v) ==
  IF ~v.pending_ring THEN v
  ELSE [v EXCEPT !.ring = TRUE, !.pending_ring = FALSE,
                 !.lost_ring = @ \/ v.ring]

-----------------------------------------------------------------------------
(* Methods of the Headset interface.                                       *)

hs_connect(c, io, allow) ==
  LET r == rfcomm_connect(h, {}, io, allow)
  IN /\ h.call[c] = "none" /\ h.state = "DISCONNECTED"
     /\ h.handle => h.ready
     /\ h' = IF r.ok THEN [r.v EXCEPT !.auto_dc = FALSE, !.pending.msg = c, !.call[c] = "connect"]
             ELSE r.v

hs_disconnect == h.state # "DISCONNECTED" /\ h' = headset_shutdown(h)

hs_stop == Rank(h.state) >= 3 /\ h' = headset_set_state(h, "CONNECTED")

hs_play(c, io) ==
  LET r == sco_connect(h, {}, io)
      joined == h.pending.on /\ h.pending.msg = "none"
  IN /\ h.call[c] = "none"
     /\ \/ /\ h.state = "PLAY_IN_PROGRESS" /\ joined
           /\ h' = [h EXCEPT !.pending.msg = c, !.call[c] = "play"]
        \/ /\ h.state = "CONNECTED" /\ r.ok
           /\ h' = [r.v EXCEPT !.pending.msg = c, !.call[c] = "play"]

hs_ring ==
  /\ Rank(h.state) >= 2 /\ (h.pending_ring => "indicate" \in Environment)
  /\ h' = [h EXCEPT !.ring = TRUE]

hs_cancel_call == Rank(h.state) >= 2 /\ h' = [h EXCEPT !.ring = FALSE]

-----------------------------------------------------------------------------
(* Streams.                                                                *)

RemoveDcTimer(v) == [v EXCEPT !.dc = "none"]

SetDcTimer(v) == [v EXCEPT !.dc = "live", !.lost_dc = @ \/ v.dc = "live"]

QueueIdle(v) == [v EXCEPT !.idles = @ + 1]

headset_config_stream(v, auto_dc, users, io, allow) ==
  LET u == RemoveDcTimer(v)
      r == rfcomm_connect(u, users, io, allow)
  IN IF v.state = "CONNECTING" THEN connect_cb_new(u, "CONNECTED", users)
     ELSE IF v.rfcomm # "none" THEN QueueIdle(connect_cb_new(u, "CONNECTED", users))
     ELSE IF r.ok THEN [r.v EXCEPT !.auto_dc = auto_dc, !.pending.target = "CONNECTED"] ELSE r.v

headset_request_stream(v, users, io, allow) ==
  LET u == RemoveDcTimer(v)
      joined == connect_cb_new(u, "PLAYING", users)
      r == IF v.rfcomm = "none" THEN rfcomm_connect(u, users, io, allow) ELSE sco_connect(u, users, io)
  IN IF v.state = "PLAYING" THEN QueueIdle(connect_cb_new(v, "PLAYING", users))
     ELSE IF v.state \in {"CONNECTING", "PLAY_IN_PROGRESS"} THEN joined
     ELSE IF ~r.ok THEN r.v
     ELSE [r.v EXCEPT !.auto_dc = @ \/ v.rfcomm = "none", !.pending.target = "PLAYING"]

headset_suspend_stream(v, users) ==
  LET u == RemoveDcTimer(v)
      down == IF v.sco # "none" THEN [u EXCEPT !.sco = "closed"]
              ELSE QueueIdle(headset_set_state(u, "CONNECTED"))
  IN connect_cb_new(down, "CONNECTED", users)

headset_cancel_stream(v, u) ==
  LET p == [v EXCEPT !.pending.cbs = @ \ {u}, !.waiting = @ \ {u}]
  IN IF u \notin v.pending.cbs THEN [v EXCEPT !.waiting = @ \ {u}]
     ELSE IF p.pending.cbs # {} \/ p.pending.msg # "none" \/ ~v.auto_dc THEN p
     ELSE IF v.rfcomm # "none" THEN SetDcTimer(p) ELSE headset_set_state(p, "DISCONNECTED")

headset_unlock(v, u) ==
  LET free == [v EXCEPT !.locks = @ \ {u}]
      quiet == IF v.state = "PLAYING" THEN headset_set_state(free, "CONNECTED") ELSE free
  IN IF free.locks # {} THEN free
     ELSE IF ~v.auto_dc THEN quiet
     ELSE IF quiet.state = "CONNECTED" THEN SetDcTimer(quiet)
     ELSE headset_set_state(quiet, "DISCONNECTED")

MaxIdles == 1
Idles == h.idles < MaxIdles /\ "streams" \in Environment

UserLocks(u) == "streams" \in Environment /\ u \notin h.locks /\ h' = [h EXCEPT !.locks = @ \cup {u}]

UserConfigures(u, io, allow) ==
  /\ Idles /\ u \in h.locks \ h.waiting
  /\ h' = headset_config_stream(h, TRUE, {u}, io, allow)

UserResumes(u, io, allow) ==
  /\ Idles /\ u \in h.locks \ h.waiting
  /\ h' = headset_request_stream(h, {u}, io, allow)

UserSuspends(u) ==
  /\ Idles /\ u \in h.locks \ h.waiting /\ Rank(h.state) >= 2
  /\ h' = headset_suspend_stream(h, {u})

\* A client of audio/unix.c that closes its stream or leaves.
UserCloses(u) ==
  /\ u \in h.locks
  /\ h' = headset_unlock(headset_cancel_stream(h, u), u)

\* audio/device.c connects the headset of a device, without a callback.
DeviceConnects(io, allow) ==
  /\ "device" \in Environment /\ h.idles < MaxIdles
  /\ h' = headset_config_stream(h, FALSE, {}, io, allow)

dummy_connect_complete ==
  h.idles > 0 /\ h' = pending_connect_finalize([h EXCEPT !.idles = @ - 1])

\* dc_timer is not cleared when the timer has fired.
hs_dc_timeout ==
  \/ h.dc = "live" /\ h' = headset_set_state([h EXCEPT !.dc = "stale"], "DISCONNECTED")
  \/ h.lost_dc /\ h' = headset_set_state([h EXCEPT !.lost_dc = FALSE], "DISCONNECTED")

-----------------------------------------------------------------------------
(* Events of the channels.                                                 *)

get_record_cb(result, io, allow) ==
  LET found == rfcomm_connect([h EXCEPT !.sdp = "none", !.ch = TRUE, !.pending.svc = "none",
                                        !.handle = @ \/ h.sdp = "HFP"], {}, io, allow)
      again == get_records([h EXCEPT !.sdp = "none"], {}, io)
      Fails(v) == headset_set_state(pending_connect_finalize(Reply([v EXCEPT
                    !.pending.svc = "none", !.sdp = "none"])), "DISCONNECTED")
  IN /\ h.sdp # "none"
     /\ ~(io /\ allow) => h.pending.msg # "none" \/ "fail" \in Environment
     /\ h' = IF ~h.pending.on THEN [h EXCEPT !.fault = TRUE]
             ELSE IF result = "found" /\ found.ok THEN found.v
             ELSE IF result = "found"
             THEN [Fails(found.v) EXCEPT !.fault = @ \/ h.pending.msg = "none"]
             ELSE IF result = "none" /\ h.pending.svc = "HFP" /\ again.ok THEN again.v
             ELSE Fails(h)

headset_connect_cb(channel, ok, io) ==
  LET v == [h EXCEPT !.live = @ \ {channel}]
      up == [v EXCEPT !.rfcomm = v.tmp, !.tmp = "none", !.slc = "plain",
                      !.auto_dc = @ /\ v.pending.on]
      connected == headset_set_state(up, "CONNECTED")
      sco == sco_connect(connected, {}, io)
  IN /\ channel \in h.live
     /\ h' = IF ~ok \/ (h.hfp /\ ~h.ready) THEN ConnectFailed(v)
             ELSE IF h.hfp THEN up
             ELSE IF ~(h.pending.on /\ h.pending.target = "PLAYING")
             THEN pending_connect_finalize(Reply(connected))
             ELSE IF sco.ok THEN sco.v ELSE ConnectFailed(sco.v)

\* rfcomm_io_cb: error, hang up, or too much data.
rfcomm_io_cb ==
  h.rfcomm # "none" /\ h' = headset_set_state(h, "DISCONNECTED")

supported_features ==
  h.rfcomm # "none" /\ h.slc = "plain" /\ h' = [h EXCEPT !.slc = "threeway"]

event_reporting(io) ==
  /\ h.rfcomm # "none" /\ h.state = "CONNECTING" /\ h.slc = "plain"
  /\ h' = hfp_slc_complete(h, io)

call_hold(io) ==
  /\ h.rfcomm # "none" /\ h.state = "CONNECTING" /\ h' = hfp_slc_complete(h, io)

\* answer_call, terminate_call and key_press.
AnswerOrReject == h.rfcomm # "none" /\ h.ring /\ h' = [h EXCEPT !.ring = FALSE]

sco_connect_cb(ok) ==
  LET v == pending_connect_finalize(Reply(h))
  IN /\ h.state = "PLAY_IN_PROGRESS" /\ h.sco \in {"connecting", "closed"}
     /\ ok => h.sco = "connecting"
     /\ h' = IF ok THEN RingPending(headset_set_state([v EXCEPT !.sco = "up"], "PLAYING"))
             ELSE ConnectFailed(h)

sco_cb ==
  /\ h.state = "PLAYING" /\ h.sco \in {"up", "closed"}
  /\ h' = headset_set_state(pending_connect_finalize(h), "CONNECTED")

sco_server_cb_early ==
  /\ h.hfp /\ h.sco = "none"
  /\ h' = headset_set_state(RingPending([h EXCEPT !.sco = "up"]), "PLAYING")

sco_server_cb ==
  /\ Rank(h.state) >= 2 /\ h.hfp /\ h.sco = "none"
  /\ h' = headset_set_state(RingPending([h EXCEPT !.sco = "up"]), "PLAYING")

-----------------------------------------------------------------------------
(* Incoming connections.                                                   *)

\* A closed channel makes its watch fire in the next turn of the main loop.
Closed == h.preauth /\ h.tmp # "in"

MaxAuths == 2
ag_confirm(hfp, asked) ==
  LET v == headset_set_state([h EXCEPT !.hfp = hfp, !.tmp = "in"], "CONNECTING")
  IN /\ h.state = "DISCONNECTED" /\ h.tmp = "none" /\ h.auths < MaxAuths
     /\ h' = IF asked THEN [v EXCEPT !.auths = @ + 1, !.preauth = TRUE]
             ELSE headset_set_state(v, "DISCONNECTED")

headset_auth_cb(ok, accepted) ==
  LET v == [h EXCEPT !.auths = 0, !.preauth = FALSE]
  IN /\ h.auths > 0
     /\ h' = IF ~ok THEN headset_set_state(v, "DISCONNECTED")
             ELSE IF h.tmp = "none" \/ h.auths > 1 THEN [v EXCEPT !.fault = TRUE]
             ELSE IF accepted THEN [v EXCEPT !.live = @ \cup {h.tmp}]
             ELSE headset_set_state(v, "DISCONNECTED")

hs_preauth_cb ==
  h.preauth /\ h' = headset_set_state([h EXCEPT !.auths = 0, !.preauth = FALSE], "DISCONNECTED")

-----------------------------------------------------------------------------
(* Telephony.                                                              *)

telephony_incoming_call_ind ==
  /\ Rank(h.state) >= 2 /\ ~h.ring /\ (InbandRing => h.hfp)
  /\ h' = IF InbandRing /\ h.state # "PLAYING" THEN [h EXCEPT !.pending_ring = TRUE]
          ELSE [h EXCEPT !.ring = TRUE]

telephony_calling_stopped_ind ==
  /\ h.ring \/ h.pending_ring
  /\ h' = [h EXCEPT !.ring = FALSE, !.pending_ring = FALSE]

telephony_ready_ind == ~h.ready /\ h' = [h EXCEPT !.ready = TRUE]

\* The timer of a ring in progress is forgotten.
telephony_deinit ==
  /\ h.ready /\ (h.ring => "telephony" \in Environment)
  /\ h' = [h EXCEPT !.ready = FALSE, !.ring = FALSE, !.lost_ring = @ \/ h.ring]

-----------------------------------------------------------------------------

ChannelEvents ==
  \/ \E channel \in {"out", "in"}, ok, io \in BOOLEAN : headset_connect_cb(channel, ok, io)
  \/ \E result \in {"err", "none", "found"}, io, allow \in BOOLEAN : get_record_cb(result, io, allow)
  \/ \E ok \in BOOLEAN : sco_connect_cb(ok)
  \/ \E io \in BOOLEAN : event_reporting(io) \/ call_hold(io)
  \/ rfcomm_io_cb \/ supported_features \/ AnswerOrReject \/ sco_cb \/ sco_server_cb

Requests ==
  \/ \E c \in Clients, io \in BOOLEAN : hs_play(c, io) \/ \E allow \in BOOLEAN : hs_connect(c, io, allow)
  \/ hs_disconnect \/ hs_stop \/ hs_ring \/ hs_cancel_call
  \/ \E u \in Users :
       \/ UserLocks(u) \/ UserSuspends(u) \/ UserCloses(u)
       \/ \E io, allow \in BOOLEAN : UserConfigures(u, io, allow) \/ UserResumes(u, io, allow)
  \/ \E io, allow \in BOOLEAN : DeviceConnects(io, allow)
  \/ hs_dc_timeout

Telephony == \/ telephony_incoming_call_ind \/ telephony_calling_stopped_ind
             \/ telephony_ready_ind \/ telephony_deinit

\* A connect is abandoned when its channel goes and it is not finalized.
Abandoned(v) == v.pending.on /\ v.idles = 0 /\ v.sco # "closed"
                /\ v.state \notin {"CONNECTING", "PLAY_IN_PROGRESS"}

Next ==
  /\ \/ hs_preauth_cb \/ dummy_connect_complete
     \/ /\ Closed => "burst" \in Environment
        /\ h.idles > 0 => "busyloop" \in Environment
        /\ \/ ChannelEvents \/ Requests \/ Telephony
           \/ \E hfp, asked \in BOOLEAN : ag_confirm(hfp, asked)
           \/ \E ok, accepted \in BOOLEAN : headset_auth_cb(ok, accepted)
  /\ Abandoned(h') => "abandon" \in Environment

Spec == Init /\ [][Next]_vars

-----------------------------------------------------------------------------
(* Properties.                                                             *)

TypeOK ==
  /\ h.state \in {"DISCONNECTED", "CONNECTING", "CONNECTED", "PLAY_IN_PROGRESS", "PLAYING"}
  /\ h.tmp \in {"none", "out", "in"} /\ h.rfcomm \in {"none", "out", "in"}
  /\ h.live \subseteq {"out", "in"} /\ h.sdp \in {"none", "HFP", "HSP"}
  /\ h.slc \in {"none", "plain", "threeway"} /\ h.dc \in {"none", "live", "stale"}
  /\ h.waiting \cup h.locks \cup h.pending.cbs \subseteq Users
  /\ ~h.pending.on => h.pending = NoPending

\* No null pointer is used: slc and sco by headset_set_state, the pending
\* connect by get_record_cb (which asserts it), its message, and the incoming
\* channel that headset_auth_cb accepts.
NoFault == ~h.fault

\* Whoever sees the state may rely on the channels: GetProperties and the gains
\* read slc from CONNECTED on, the PLAYING state has an SCO channel, and no
\* other has one.
ChannelsMatchState ==
  /\ Rank(h.state) >= 2 => h.rfcomm # "none" /\ h.slc # "none"
  /\ (h.sco # "none") <=> Rank(h.state) >= 3

\* One channel is connected at a time: the callback that fires is that of
\* tmp_rfcomm, and a headset that is disconnected has none open.
OneAttempt ==
  /\ h.live \subseteq {h.tmp}
  /\ h.state = "DISCONNECTED" => h.tmp = "none" /\ h.rfcomm = "none"

\* A stream user that waits is on the list that pending_connect_finalize
\* calls, whatever else is requested in the meantime.
UserHeld == h.waiting \subseteq h.pending.cbs

\* A headset does not stay connecting: a search, a channel, the agent or the
\* remote end will decide.
ConnectingUnderWay == h.state = "CONNECTING" =>
  h.sdp # "none" \/ h.live # {} \/ h.auths > 0 \/ h.rfcomm # "none"

\* ag.ring_timer names every timer that rings: stopping the call stops it.
RingStops == ~h.lost_ring

\* Clients have been told the state the headset is in.
Told == h.told = state2str(h.state)

AS == INSTANCE AudioState WITH
  state <- h.told, States <- {"disconnected", "connecting", "connected", "playing"}

\* doc/audio-api.txt, Headset: the State that is signalled moves only along
\* the listed transitions, unless a connect is abandoned ("abandon"; see the failing run).
Documented == AS!Spec

\* No event finds a pointer gone that it uses without a check.
Safe == TypeOK /\ NoFault

\* The channels, the state and the connect that is pending fit each other, and
\* nobody who waits for a connection or a state change is forgotten.
Channels == ChannelsMatchState /\ OneAttempt /\ UserHeld /\ ConnectingUnderWay /\ Told

\* No null pointer is used and no assertion of headset.c fails.  The channels,
\* the state and the connect that is pending fit each other, and nobody who waits
\* for a connection or a state change is forgotten.  No ring timer is lost that could
\* then not be stopped.  No connect is abandoned when its channel is lost ("abandon").
HeadsetSafe == Safe /\ Channels /\ RingStops

=============================================================================
