-------------------------------- MODULE A2dp --------------------------------
(***************************************************************************)
(* The A2DP layer (audio/a2dp.c) and the AudioSink interface on top of it   *)
(* (audio/sink.c; audio/source.c is its copy for the other direction): one  *)
(* device, one AVDTP session, one stream end point.  Two clients share the  *)
(* setup of the session: the sink, which discovers, selects and configures, *)
(* and a user of the stream (unix.c, transport.c), which configures,        *)
(* resumes, suspends and cancels.                                          *)
(*                                                                         *)
(* The AVDTP session below (module Avdtp) is external here: it answers,     *)
(* rejects or loses the requests and calls the cfm and ind functions.       *)
(***************************************************************************)
EXTENDS Naturals, FiniteSets, Sequences, SequencesExt

CONSTANTS
  MaxRequests, \* bound on the requests queued for the stream
  Environment  \* what else happens: "reject": requests are rejected; and what
               \* the code does not handle, each at the moments its guard
               \* excludes otherwise: "remote" (StartSafe, CloseIndSafe,
               \* AbortIndSafe), "overlap" (Apart, ConnectSafe and the user of
               \* a stream that is being configured), "cancel" (CancelSafe),
               \* "lost" (LostSafe), "abort" (AbortSafe, NoAbort), "restart"
               \* (CloseSafe, RestartSafe), "leak" (start_ind)

\* Fields of w.  AVDTP: avdtp, the session's state; disc, the sink's discovery
\* callback; reqs, the requests on the stream, the first one sent; lsep, the
\* state of the end point; reg: the stream has the callbacks of a2dp and sink.
\* The setup: setup, ref, stream, err, start, reconfigure; cbs, its callbacks
\* <<client, kind>>, and idle, those to be called from an idle source; the
\* sources that hold the setup itself: auto_select, auto_config and timer, the
\* reconfigure timer ("stale" when it was freed); aborting: a2dp_cancel keeps
\* its reference for abort_cfm.  The a2dp_sep: sep_stream, suspending,
\* suspend_timer, sep_session, locked, and whether a session leaked.
\* The sink: session, connect, disconnect, retry_id, stream_state, state.
VARIABLE w

vars == <<w>>

Init ==
  w = [avdtp |-> "none", disc |-> FALSE, reqs |-> <<>>, lsep |-> "idle", reg |-> FALSE,
       close_int |-> FALSE,
       setup |-> FALSE, ref |-> 0, stream |-> FALSE, err |-> "none", start |-> FALSE,
       reconfigure |-> FALSE, cbs |-> {}, idle |-> {}, auto_select |-> "no", auto_config |-> "no",
       timer |-> "no", aborting |-> FALSE,
       sep_stream |-> FALSE, suspending |-> FALSE, suspend_timer |-> FALSE, sep_session |-> FALSE,
       locked |-> FALSE, leaked |-> FALSE,
       session |-> FALSE, connect |-> FALSE, disconnect |-> FALSE, retry_id |-> FALSE,
       stream_state |-> "idle", state |-> "disconnected", fault |-> FALSE]

\* avdtp_stream is in session->streams.
Exists(v) == v.lsep # "idle" \/ (v.reqs # <<>> /\ Head(v.reqs) = "set_conf")

Send(v, r) == [v EXCEPT !.reqs = Append(@, r)]

-----------------------------------------------------------------------------
(* Setups.                                                                 *)

a2dp_setup_get(v) ==
  IF v.setup THEN [v EXCEPT !.ref = @ + 1]
  ELSE [v EXCEPT !.setup = TRUE, !.ref = 1, !.stream = FALSE, !.err = "none", !.start = FALSE,
                 !.reconfigure = FALSE]

Stale(source) == IF source = "no" THEN "no" ELSE "stale"

\* setup_free: callbacks that are left are freed, not called.
setup_free(v) ==
  [v EXCEPT !.setup = FALSE, !.ref = 0, !.cbs = {}, !.aborting = FALSE,
            !.auto_select = Stale(@), !.auto_config = Stale(@), !.timer = Stale(@),
            !.fault = @ \/ v.idle # {}]

setup_unref(v) ==
  IF ~v.setup THEN [v EXCEPT !.fault = TRUE]
  ELSE IF v.ref > 1 THEN [v EXCEPT !.ref = @ - 1] ELSE setup_free(v)

setup_cb_new(v, cb) == [a2dp_setup_get(v) EXCEPT !.cbs = @ \union {cb}]

setup_cb_free(v, cb) == setup_unref([v EXCEPT !.cbs = @ \ {cb}, !.idle = @ \ {cb}])

-----------------------------------------------------------------------------
(* Operations of the clients; a result of 0 leaves no callback.            *)

Failed(v, cb) == setup_cb_free(v, cb)
Idle(v, cb) == [v EXCEPT !.idle = @ \union {cb}]

a2dp_select_capabilities(v, ok) ==
  IF ok THEN [setup_cb_new(v, <<"sink", "select">>) EXCEPT !.auto_select = "yes"] ELSE v

\* match: avdtp_stream_has_capabilities.  With one end point no other one of the
\* session has a stream to be closed first.
a2dp_config(v, c, match) ==
  LET cb == <<c, "config">>
      u == [setup_cb_new(v, cb) EXCEPT !.stream = v.sep_stream]
  IN CASE u.lsep = "idle" ->
            IF u.avdtp # "connected" \/ Exists(u) THEN Failed(u, cb)
            ELSE Send([u EXCEPT !.stream = TRUE], "set_conf")
       [] u.lsep \in {"open", "streaming"} ->
            IF match THEN Idle(u, cb)
            ELSE IF u.reconfigure THEN u
            ELSE IF u.close_int THEN Failed([u EXCEPT !.reconfigure = TRUE], cb)
            ELSE Send([u EXCEPT !.reconfigure = TRUE, !.close_int = TRUE], "close")
       [] OTHER -> Failed(u, cb)

a2dp_resume(v, c) ==
  LET cb == <<c, "resume">>
      u == [setup_cb_new(v, cb) EXCEPT !.stream = v.sep_stream]
  IN CASE u.lsep = "open" ->
            IF u.close_int THEN Failed(u, cb)
            ELSE IF Contains(u.reqs, "start") THEN u ELSE Send(u, "start")
       [] u.lsep = "streaming" ->
            IF u.suspending THEN [u EXCEPT !.start = TRUE]
            ELSE Idle(IF u.suspend_timer THEN [u EXCEPT !.suspend_timer = FALSE, !.sep_session = FALSE]
                      ELSE u, cb)
       [] OTHER -> Failed(u, cb)

a2dp_suspend(v, c) ==
  LET cb == <<c, "suspend">>
      u == [setup_cb_new(v, cb) EXCEPT !.stream = v.sep_stream]
  IN CASE u.lsep = "open" -> Idle(u, cb)
       [] u.lsep = "streaming" ->
            IF u.close_int THEN Failed(u, cb) ELSE Send([u EXCEPT !.suspending = TRUE], "suspend")
       [] OTHER -> Failed(u, cb)

-----------------------------------------------------------------------------
(* The sink's callbacks.                                                   *)

SetupFailed(v) == [v EXCEPT !.connect = FALSE, !.session = FALSE]

Retry(v) == [v EXCEPT !.retry_id = TRUE, !.session = FALSE]

discovery_complete_silent(v, err, ok) ==
  LET u == [v EXCEPT !.disc = FALSE]
      selected == a2dp_select_capabilities(u, ok)
  IN IF ~u.connect \/ err # "none" THEN [u EXCEPT !.session = FALSE]
     ELSE IF ~ok THEN SetupFailed(u) ELSE selected

\* err: "none", "errno" (retried: both ends may have connected) or another.
discovery_complete(v, err, ok) ==
  LET u == [v EXCEPT !.disc = FALSE]
      selected == a2dp_select_capabilities(u, ok)
  IN IF ~u.connect THEN [u EXCEPT !.session = FALSE]
     ELSE IF err = "errno" THEN Retry(u)
     ELSE IF err # "none" \/ ~ok THEN SetupFailed(u) ELSE selected

select_complete(v, match) ==
  LET u == a2dp_config(v, "sink", match)
  IN IF <<"sink", "config">> \in u.cbs THEN u ELSE SetupFailed(u)

stream_setup_complete(v) ==
  IF v.stream /\ v.err = "none" THEN [v EXCEPT !.connect = FALSE]
  ELSE IF v.err # "avdtp" THEN Retry(v) ELSE SetupFailed(v)

\* stream_setup_complete uses sink->connect unchecked.
SinkCb(v) == IF v.connect THEN stream_setup_complete(v) ELSE [v EXCEPT !.fault = TRUE]

\* finalize_config, finalize_resume and finalize_suspend; the user's callback
\* changes nothing here.
Finalize(v, kind) ==
  LET user == <<"user", kind>>
      sink == <<"sink", kind>>
      u == IF user \in v.cbs THEN setup_cb_free(v, user) ELSE v
  IN IF sink \in u.cbs THEN setup_cb_free(SinkCb(u), sink) ELSE u

finalize_select(v, match) ==
  IF <<"sink", "select">> \notin v.cbs THEN v
  ELSE setup_cb_free(IF v.connect THEN select_complete(v, match) ELSE [v EXCEPT !.fault = TRUE],
                     <<"sink", "select">>)

-----------------------------------------------------------------------------
(* Confirmations: cfm of a request that ended with e, "none" or an error.  *)

WithError(v, e) == IF e = "none" THEN v ELSE [v EXCEPT !.stream = FALSE, !.err = e]

\* avdtp_sep_cfm; sink_new_stream takes the session.  The end point is one of the
\* daemon's own: no media endpoint is asked before Open.
setconf_cfm(v, e) ==
  IF e # "none" THEN IF v.setup THEN Finalize([v EXCEPT !.err = e], "config") ELSE v
  ELSE LET u == [v EXCEPT !.reg = TRUE, !.sep_stream = TRUE]
       IN IF u.setup THEN Send([u EXCEPT !.session = TRUE], "open") ELSE u

open_cfm(v, e) ==
  IF v.setup THEN Finalize(WithError([v EXCEPT !.reconfigure = FALSE], e), "config") ELSE v

start_cfm(v, e) == IF v.setup THEN Finalize(WithError(v, e), "resume") ELSE v

\* The timer is removed, but the session that it held is not given up.
suspend_cfm(v, e) ==
  LET u == [v EXCEPT !.suspending = FALSE, !.suspend_timer = FALSE]
      f == Finalize(WithError([u EXCEPT !.start = FALSE], e), "suspend")
  IN IF ~u.setup THEN u
     ELSE IF ~u.start THEN f
     ELSE IF e # "none" THEN Finalize(f, "resume")
     ELSE IF f.close_int THEN Finalize([f EXCEPT !.err = "errno"], "suspend")
     ELSE Send(f, "start")

close_cfm_idle(v, e) ==
  IF ~v.setup \/ e # "none" THEN IF v.setup THEN Finalize(WithError(v, e), "config") ELSE v
  ELSE v

close_cfm(v, e) ==
  IF ~v.setup THEN v
  ELSE IF e # "none" THEN Finalize(WithError(v, e), "config")
  ELSE IF v.reconfigure THEN [v EXCEPT !.timer = "yes"] ELSE v

abort_cfm(v) == IF v.setup THEN setup_unref([v EXCEPT !.aborting = FALSE]) ELSE v

cfm(v, r, e) ==
  CASE r = "set_conf" -> setconf_cfm(v, e)
    [] r = "open" -> open_cfm(v, e)
    [] r = "start" -> start_cfm(v, e)
    [] r = "suspend" -> suspend_cfm(v, e)
    [] r = "close" -> [close_cfm(v, e) EXCEPT !.close_int = FALSE]
    [] OTHER -> v

-----------------------------------------------------------------------------
(* Stream states: stream_state_changed of a2dp.c and of sink.c.            *)

SinkStream(v, new) ==
  LET u == [v EXCEPT !.stream_state = new]
  IN CASE new = "idle" -> [u EXCEPT !.disconnect = FALSE, !.session = FALSE]
       [] new = "open" -> [u EXCEPT !.state = "connected"]
       [] new = "streaming" -> [u EXCEPT !.state = "playing"]
       [] new = "closing" ->
            IF v.setup /\ v.reconfigure /\ v.session THEN u ELSE [u EXCEPT !.state = "disconnecting"]
       [] OTHER -> u

\* A request that was sent is confirmed with an error when the stream goes,
\* the queued ones are dropped.
SetState(v, new) ==
  LET u == [v EXCEPT !.lsep = new]
      answered == IF u.reqs # <<>> THEN cfm([u EXCEPT !.reqs = Tail(@)], Head(u.reqs), "errno") ELSE u
      gone == [answered EXCEPT !.reqs = <<>>, !.close_int = FALSE, !.suspend_timer = FALSE,
                               !.sep_session = FALSE, !.sep_stream = FALSE, !.reg = FALSE]
  IN IF new # "idle" THEN IF u.reg THEN SinkStream(u, new) ELSE u
     ELSE IF u.reg THEN SinkStream(gone, "idle") ELSE [gone EXCEPT !.sep_stream = answered.sep_stream]

\* connection_lost; err is what the discovery is told.
Lost(v, err) ==
  LET u == IF v.disc THEN discovery_complete(v, err, FALSE) ELSE v
      told == u.lsep # "aborting" \/ Contains(u.reqs, "abort")
      x == IF Exists(u) THEN SetState(IF told THEN abort_cfm(u) ELSE u, "idle") ELSE u
  IN [x EXCEPT !.avdtp = "none", !.state = "disconnected"]

\* cancel_request: the stream is aborted, or the session is lost.
CancelRequest(v, rest) ==
  LET u == cfm([v EXCEPT !.reqs = rest], Head(v.reqs), "errno")
  IN IF Head(v.reqs) \in {"set_conf", "abort"} THEN Lost(u, "errno")
     ELSE [u EXCEPT !.reqs = <<"abort">> \o @]

a2dp_cancel(v, c) ==
  LET mine == {cb \in v.cbs : cb[1] = c}
      u == setup_cb_free([v EXCEPT !.ref = @ + 1], CHOOSE cb \in mine : TRUE)
      busy == u.reqs # <<>>
      lost == busy /\ Head(u.reqs) \in {"set_conf", "abort"}
  IN IF mine = {} THEN v
     ELSE IF u.cbs # {} \/ ~u.stream \/ ~Exists(u) \/ u.lsep = "aborting" THEN setup_unref(u)
     ELSE IF lost THEN setup_unref(CancelRequest(u, Tail(u.reqs)))
     ELSE IF busy THEN CancelRequest([u EXCEPT !.aborting = TRUE], Tail(u.reqs))
     ELSE Send([u EXCEPT !.aborting = TRUE], "abort")

-----------------------------------------------------------------------------
(* What AVDTP does with the requests.                                      *)

Sent == IF w.reqs = <<>> THEN "none" ELSE Head(w.reqs)
Rest == [w EXCEPT !.reqs = Tail(@)]

\* The response; the transport of an opened stream is connected with it.
Accepted ==
  /\ Sent # "none"
  /\ w' = CASE Sent = "set_conf" -> SetState(setconf_cfm(Rest, "none"), "configured")
            [] Sent = "open" -> SetState(open_cfm(Rest, "none"), "open")
            [] Sent = "start" -> SetState(start_cfm(Rest, "none"), "streaming")
            [] Sent = "suspend" -> suspend_cfm(SetState(Rest, "open"), "none")
            [] Sent = "close" -> SetState(Rest, "closing")
            [] Sent = "abort" -> SetState(abort_cfm(SetState(Rest, "aborting")), "idle")

Rejected ==
  /\ "reject" \in Environment /\ Sent \notin {"none", "abort"} /\ w' = cfm(Rest, Sent, "avdtp")

\* The transport of a stream is closed after Close and Abort.  A stream that
\* is being aborted goes with the answer to that.
transport_cb ==
  LET v == IF w.close_int THEN [close_cfm(w, "none") EXCEPT !.close_int = FALSE] ELSE w
  IN /\ w.lsep \in {"closing", "aborting"} /\ (Contains(w.reqs, "abort") => w.close_int)
     /\ w' = IF Contains(w.reqs, "abort") THEN v ELSE SetState(v, "idle")

\* Nobody is in a stage where the loss of the link is not handled.
LostSafe == "lost" \in Environment \/ (w.cbs = {} /\ w.auto_config = "no" /\ ~w.aborting)

\* abort_cfm gives up a reference that only a2dp_cancel has taken.
AbortSafe(v) == "abort" \in Environment \/ v.cbs = {}
NoAbort == "abort" \in Environment \/ ~Contains(w.reqs, "abort")

request_timeout ==
  LET v == CancelRequest(w, Tail(w.reqs))
  IN /\ Sent # "none"
     /\ IF Sent \in {"set_conf", "abort"} THEN LostSafe ELSE AbortSafe(v)
     /\ w' = v

\* The session of the sink is connected, fails, or goes later.
avdtp_connect_cb(ok, err) ==
  /\ w.avdtp = "connecting"
  /\ w' = IF ok THEN [w EXCEPT !.avdtp = "connected"] ELSE Lost(w, err)

connection_lost(err) == w.avdtp = "connected" /\ LostSafe /\ w' = Lost(w, err)

\* finalize_discovery: EINPROGRESS when all end points are in use.
avdtp_discover_resp(err, ok) ==
  /\ w.avdtp = "connected" /\ w.disc /\ w' = discovery_complete(w, err, ok)

-----------------------------------------------------------------------------
(* What the peer does: ind.                                                *)

Remote == w.avdtp = "connected"

\* The peer does not start a stream that we start or suspend, close one that
\* we close, abort one that somebody waits for, or configure one while we do.
StartSafe == "remote" \in Environment \/ w.reqs = <<>>
CloseIndSafe == "remote" \in Environment \/ ~w.close_int
AbortIndSafe == "remote" \in Environment \/ ~w.setup
Apart == "overlap" \in Environment \/ (~w.setup /\ ~w.connect /\ ~w.disc)

RemoteConnects ==
  /\ w.avdtp = "none"
  /\ w' = [w EXCEPT !.avdtp = "connected", !.state = "connecting"]

\* sbc_setconf_ind, mpeg_setconf_ind; the stream exists after auto_config.
setconf_ind(e) ==
  /\ Remote /\ Apart /\ w.lsep = "idle" /\ ~Exists(w) /\ w.auto_config = "no" /\ ~w.sep_stream
  /\ w' = [a2dp_setup_get(w) EXCEPT !.sep_stream = TRUE, !.stream = TRUE, !.err = IF e THEN "avdtp" ELSE @,
                                    !.timer = "no", !.auto_config = "yes"]

open_ind == Remote /\ w.lsep = "configured" /\ w.reqs = <<>> /\ w' = SetState(w, "open")

start_ind ==
  LET u == IF w.setup THEN Finalize(w, "resume") ELSE w
      v == IF u.locked THEN u
           ELSE [u EXCEPT !.leaked = @ \/ u.sep_session, !.sep_session = TRUE, !.suspend_timer = TRUE]
  IN /\ Remote /\ StartSafe /\ ("leak" \in Environment \/ w.locked \/ ~w.sep_session)
     /\ w.lsep = "open" /\ w' = SetState(v, "streaming")

suspend_ind ==
  /\ Remote /\ w.lsep = "streaming"
  /\ w' = SetState(IF w.suspend_timer THEN [w EXCEPT !.suspend_timer = FALSE, !.sep_session = FALSE]
                   ELSE w, "open")

close_ind ==
  LET u == [w EXCEPT !.timer = "no", !.ref = @ + 1, !.err = "errno"]
  IN /\ Remote /\ CloseIndSafe /\ w.lsep \in {"open", "streaming"}
     /\ w' = SetState(IF w.setup THEN setup_unref(Finalize(Finalize(u, "suspend"), "resume")) ELSE w,
                      "closing")

abort_ind ==
  /\ Remote /\ AbortIndSafe /\ Exists(w) /\ w.lsep \notin {"aborting"}
  /\ w' = SetState([w EXCEPT !.timer = "no", !.sep_stream = FALSE], "aborting")

-----------------------------------------------------------------------------
(* Idle callbacks and timers.                                              *)

auto_select(match) ==
  /\ w.auto_select # "no"
  /\ w' = IF w.auto_select = "stale" THEN [w EXCEPT !.fault = TRUE]
          ELSE finalize_select([w EXCEPT !.auto_select = "no"], match)

\* An aborted configuration keeps its reference.
auto_config ==
  LET v == [w EXCEPT !.auto_config = "no"]
      ok == v.err = "none"
      u == IF ok THEN SetState([v EXCEPT !.reg = TRUE, !.session = TRUE], "configured")
           ELSE [v EXCEPT !.sep_stream = FALSE]
  IN /\ w.auto_config # "no"
     /\ w' = IF w.auto_config = "stale" THEN [w EXCEPT !.fault = TRUE]
             ELSE IF ~w.sep_stream THEN v
             ELSE setup_unref(Finalize(u, "config"))

IdleFinalize(cb) == cb \in w.idle /\ w' = Finalize(w, cb[2])

a2dp_reconfigure ==
  LET v == [w EXCEPT !.timer = "no"]
  IN /\ w.timer # "no"
     /\ w' = IF w.timer = "stale" THEN [w EXCEPT !.fault = TRUE]
             ELSE IF v.avdtp = "connected" /\ ~Exists(v) THEN Send([v EXCEPT !.stream = TRUE], "set_conf")
             ELSE setup_unref(Finalize([v EXCEPT !.err = "errno", !.ref = @ + 1], "config"))

\* No suspend is queued behind an abort or a close: it would be dropped, and
\* suspending stay set.
RestartSafe == "restart" \in Environment \/ (~Contains(w.reqs, "abort") /\ ~w.close_int)

suspend_timeout ==
  LET v == [w EXCEPT !.suspend_timer = FALSE, !.sep_session = FALSE]
  IN /\ w.suspend_timer /\ RestartSafe
     /\ w' = IF w.lsep = "streaming" /\ ~w.close_int
             THEN Send([v EXCEPT !.suspending = TRUE], "suspend") ELSE v

\* The connect may have been taken away, or be another one.
stream_setup_retry ==
  /\ w.retry_id
  /\ w' = IF w.connect THEN [w EXCEPT !.retry_id = FALSE, !.connect = FALSE]
          ELSE [w EXCEPT !.fault = TRUE]

-----------------------------------------------------------------------------
(* Methods of the sink and operations of the user.                         *)

\* No stream is being set up by somebody else: when that one goes the sink loses
\* its session, whatever it was connecting.
ConnectSafe == "overlap" \in Environment \/ (~Exists(w) /\ w.cbs = {} /\ ~w.sep_stream)

\* sink_setup_stream, for Connect, the audio device and an incoming session.  It
\* fails while a discovery is going on, and has the session then.
sink_setup_stream ==
  LET v == [w EXCEPT !.session = TRUE, !.disc = TRUE, !.connect = ~w.disc]
  IN /\ ~w.connect /\ ~w.disconnect /\ NoAbort /\ ConnectSafe
     /\ w.stream_state \in {"idle", "configured"}
     /\ w' = IF v.avdtp = "none" THEN [v EXCEPT !.avdtp = "connecting", !.state = "connecting"] ELSE v

\* No idle callback holds a setup that would be freed, and no configuration
\* has been sent.
CancelSafe(c) == "cancel" \in Environment
  \/ (w.auto_select = "no" /\ w.timer = "no" /\ ~w.close_int /\ Sent \notin {"set_conf", "abort"})
\* A stream that is suspended and will be resumed is not closed in between.
CloseSafe == "restart" \in Environment \/ ~w.start

sink_disconnect ==
  /\ w.session /\ ~w.connect /\ ~w.disconnect
  /\ IF w.stream_state \in {"idle", "configured"} THEN w' = [w EXCEPT !.session = FALSE]
     ELSE /\ ~w.close_int /\ Exists(w) /\ CloseSafe
          /\ w' = Send([w EXCEPT !.disconnect = TRUE, !.close_int = TRUE], "close")

sink_shutdown ==
  LET cancelled == a2dp_cancel(w, "sink")
      dropped == [cancelled EXCEPT !.connect = FALSE, !.session = FALSE]
  IN /\ w.session /\ CancelSafe("sink")
     /\ IF w.connect
        THEN w' = IF w.avdtp = "connecting"
                  THEN [dropped EXCEPT !.avdtp = "none", !.disc = FALSE, !.state = "disconnected"]
                  ELSE dropped
        ELSE /\ ~w.disconnect /\ w.reg /\ CloseSafe /\ w.lsep \in {"open", "streaming"} /\ ~w.close_int
             /\ w' = Send([w EXCEPT !.close_int = TRUE], "close")

UserBusy == \E cb \in w.cbs : cb[1] = "user"

UserOperation(match) ==
  /\ ~UserBusy /\ w.sep_stream /\ w.avdtp = "connected"
  /\ NoAbort /\ (w.suspending /\ w.close_int => "restart" \in Environment)
  /\ ("overlap" \in Environment \/ w.auto_config = "no")
  /\ w' \in {a2dp_config(w, "user", match), a2dp_resume(w, "user"), a2dp_suspend(w, "user")}

UserCancels == UserBusy /\ CancelSafe("user") /\ w' = a2dp_cancel(w, "user")

a2dp_sep_lock == ~w.locked /\ w' = [w EXCEPT !.locked = TRUE]

a2dp_sep_unlock ==
  LET v == [w EXCEPT !.locked = FALSE]
  IN /\ w.locked /\ RestartSafe
     /\ w' = IF w.sep_stream /\ w.lsep = "streaming" /\ ~w.close_int
             THEN Send([v EXCEPT !.suspending = TRUE], "suspend") ELSE v

-----------------------------------------------------------------------------

\* The queue of requests on the stream is bounded.
Room == Len(w.reqs) < MaxRequests

Errors == {"errno", "other"}
Session ==
  \/ \E ok \in BOOLEAN, err \in Errors : avdtp_connect_cb(ok, err)
  \/ \E err \in Errors : connection_lost(err)
  \/ \E err \in {"none", "errno"}, ok \in BOOLEAN : avdtp_discover_resp(err, ok)
Answers == Accepted \/ Rejected \/ request_timeout \/ transport_cb
Peer == \/ RemoteConnects \/ \E e \in BOOLEAN : setconf_ind(e)
        \/ open_ind \/ start_ind \/ suspend_ind \/ close_ind \/ abort_ind
Sources == \/ \E match \in BOOLEAN : auto_select(match)
           \/ auto_config \/ a2dp_reconfigure \/ suspend_timeout \/ stream_setup_retry
           \/ \E cb \in w.idle : IdleFinalize(cb)
SinkMethods == Room /\ (sink_setup_stream \/ sink_disconnect \/ sink_shutdown)
User == \/ Room /\ \E match \in BOOLEAN : UserOperation(match)
        \/ UserCancels \/ a2dp_sep_lock \/ (Room /\ a2dp_sep_unlock)

Next == ~w.fault /\ (Session \/ Answers \/ Peer \/ Sources \/ SinkMethods \/ User)

Spec == Init /\ [][Next]_vars

\* The link answers a request to connect, requests have timers, and the main
\* loop runs timers and idle callbacks.
Fairness ==
  /\ WF_vars(~w.fault /\ \E ok \in BOOLEAN, err \in Errors : avdtp_connect_cb(ok, err))
  /\ WF_vars(~w.fault /\ \E err \in {"none", "errno"}, ok \in BOOLEAN : avdtp_discover_resp(err, ok))
  /\ WF_vars(~w.fault /\ Answers) /\ WF_vars(~w.fault /\ Sources)

FairSpec == Spec /\ Fairness

-----------------------------------------------------------------------------
(* Properties.                                                             *)

One(b) == IF b THEN 1 ELSE 0

\* A setup has one reference for every callback, for a configuration the peer
\* asked for, and for an abort that a2dp_cancel waits for: it is neither freed
\* under somebody nor kept for ever, and with it the session.
SetupRefs ==
  w.setup => w.ref = Cardinality(w.cbs) + One(w.auto_config = "yes") + One(w.aborting)

\* No idle callback or timer runs with a setup that has been freed, and the
\* retry timer finds the connect it was started for.
NoStale == ~w.fault /\ "stale" \notin {w.auto_select, w.auto_config, w.timer}

\* A connect that is pending is waiting for something.
ConnectUnderWay ==
  /\ w.connect => w.disc \/ w.retry_id \/ \E cb \in w.cbs : cb[1] = "sink"
  /\ w.retry_id \/ (\E cb \in w.cbs : cb[1] = "sink") => w.connect
  /\ w.connect /\ ~w.retry_id => w.session

\* Every callback will be called: a request, an idle source or a timer leads
\* to it.
Served ==
  \A cb \in w.cbs :
    \/ cb \in w.idle
    \/ cb[2] = "select" /\ w.auto_select = "yes"
    \/ cb[2] = "config" /\ (w.timer = "yes" \/ w.auto_config = "yes" \/ w.close_int
                           \/ \E r \in {"set_conf", "open", "close", "abort"} : Contains(w.reqs, r))
    \/ cb[2] = "resume" /\ (Contains(w.reqs, "start") \/ (w.start /\ Contains(w.reqs, "suspend")))
    \/ cb[2] = "suspend" /\ Contains(w.reqs, "suspend")

\* Connect of the sink is answered.
ConnectAnswered == w.connect ~> ~w.connect

\* The suspend timer has its session, which is given up with the stream at
\* the latest, and never forgotten for another (but see "leak").
TimerHoldsSession ==
  (w.suspend_timer => w.sep_session) /\ (w.sep_session => w.reg) /\ ~w.leaked

\* The State that the sink shows is that of its stream.
SinkShows ==
  /\ w.stream_state = "streaming" => w.state = "playing"
  /\ w.stream_state = "open" => w.state = "connected"
  /\ w.state = "disconnected" => w.stream_state = "idle" /\ ~w.session

=============================================================================
