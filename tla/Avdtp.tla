------------------------------- MODULE Avdtp -------------------------------
(***************************************************************************)
(* The AVDTP session of audio/avdtp.c with one remote device: the          *)
(* signalling channel and its reference count, the queues of outgoing      *)
(* commands, and the stream of each local stream end point (SEP).          *)
(*                                                                         *)
(* The C functions call each other on the session and its SEPs, so each is *)
(* an operator from one world record to the next; each entry from the main *)
(* loop (a watch, a timer, an idle source, a connect callback) and each    *)
(* API function is an action that installs the world it computes.          *)
(*                                                                         *)
(* Local SEP e is always paired with the remote SEP of the same number, so *)
(* a stream is named by its SEP.  The SEP users (audio/a2dp.c and          *)
(* sink.c) are notified by callbacks; the API calls they make in answer    *)
(* are the API actions that follow.                                        *)
(***************************************************************************)
EXTENDS Integers, Sequences, FiniteSets

CONSTANTS
  Seps,          \* SEIDs of the local stream end points
  SinkSeps,      \* the ones of type SINK that negotiate delay reporting
  EndpointSeps,  \* the ones whose codec is a D-Bus media endpoint
  PeerInUse,     \* remote SEPs the peer may report in use by another device
  Repeats,       \* SEPs whose peer may repeat a command whose timer still runs
  GetCap,        \* GET_CAPABILITIES or, from version 1.3, GET_ALL_CAPABILITIES
  UsersRelease,  \* do users drop all references in connection_lost's callbacks?
  AuthResults,   \* what audio_device_request_authorization may return
  MaxUsers,      \* bound: references held by users
  MaxQueue       \* bound: length of a queue at which nobody adds to it

ASSUME ConstantsAssumption ==
  /\ Seps \subseteq 1..61  \* MAX_SEID is 0x3E
  /\ SinkSeps \subseteq Seps /\ EndpointSeps \subseteq Seps
  /\ PeerInUse \subseteq Seps /\ Repeats \subseteq Seps
  /\ GetCap \in {"GET_CAPABILITIES", "GET_ALL_CAPABILITIES"}
  /\ UsersRelease \in BOOLEAN
  /\ AuthResults \subseteq {"ok", "busy", "failed"}
  /\ MaxUsers \in Nat /\ MaxQueue \in Nat

VARIABLES
  s,      \* struct avdtp, the session
  sep,    \* struct avdtp_local_sep, and the struct avdtp_stream it owns
  cfg,    \* SEP whose Set Configuration by the peer a2dp has not answered yet
  users,  \* references to the session held by sink, source and a2dp setups
  old     \* timers of a SEP's stream that stream->timer no longer names

vars == <<s, sep, cfg, users, old>>

NoSep == 0
SepOrNone == Seps \cup {NoSep}

StreamCommands == {"SET_CONFIGURATION", "OPEN", "START", "CLOSE", "SUSPEND",
                   "ABORT", "DELAY_REPORT"}
Signals == StreamCommands \cup {"DISCOVER", GetCap}
Request == [sig : Signals, seid : SepOrNone, stream : SepOrNone]
NoReq == [sig |-> "none", seid |-> NoSep, stream |-> NoSep]

\* FREE: no session with this device is in server->sessions.
SessionStates == {"FREE", "DISCONNECTED", "CONNECTING", "CONNECTED"}

\* What the signalling channel waits for: an outgoing bt_io_connect, the
\* agent's authorization, the retry timer of the authorization, or the
\* completion of bt_io_accept.
Pending == {"none", "out", "auth", "retry", "accept"}

\* io: session->io is set.  accepting: a transport channel of the peer is
\* being accepted.  discov_cb: a discovery waits for its callback.
\* idle: process_discover is scheduled.
SessionFlags == {"io", "auto_dc", "stream_setup", "dc_timer", "discov_cb",
                 "idle", "accepting"}
Watches == {"none", "hup", "full"}

SepStates == {"IDLE", "CONFIGURED", "OPEN", "STREAMING", "CLOSING",
              "ABORTING"}

\* stream: lsep->stream is set and the stream is in session->streams.
\* io, io_id: the transport channel and its watch.  connecting: its
\* bt_io_connect is under way.
StreamFlags == {"stream", "io", "io_id", "connecting", "open_acp",
                "close_int", "abort_int", "idle_timer", "starting"}
Timers == {"none", "open", "close"}

NoSession == [state |-> "FREE", ref |-> 0, pending |-> "none",
              watch |-> "none", f |-> {}, req |-> NoReq, prio_queue |-> << >>,
              req_queue |-> << >>, pending_open |-> NoSep, seps |-> {}]

\* A session as avdtp_get_internal allocates it.
NewSession == [NoSession EXCEPT !.state = "DISCONNECTED", !.ref = 1,
                                !.f = {"auto_dc"}]

NoStream == [state |-> "IDLE", timer |-> "none", f |-> {}]

Init == /\ s = NoSession
        /\ sep = [e \in Seps |-> NoStream]
        /\ cfg = NoSep
        /\ users = 0
        /\ old = [e \in Seps |-> {}]

-----------------------------------------------------------------------------
(* Worlds.  drop is the number of references the users release in the      *)
(* callbacks of connection_lost, should the step reach it.                 *)

DropChoices == IF UsersRelease THEN {users} ELSE 0..users

World(d) == [s |-> s, sep |-> sep, cfg |-> cfg, users |-> users, drop |-> d]

InstallWorld(w) == /\ s' = w.s
                   /\ sep' = w.sep
                   /\ cfg' = w.cfg
                   /\ users' = w.users

Install(w) == InstallWorld(w) /\ UNCHANGED old

Is(w, x) == x \in w.s.f
On(w, x) == [w EXCEPT !.s.f = @ \cup {x}]
Off(w, x) == [w EXCEPT !.s.f = @ \ {x}]

Has(w, e, x) == x \in w.sep[e].f
Set(w, e, x) == [w EXCEPT !.sep[e].f = @ \cup {x}]
Clear(w, e, x) == [w EXCEPT !.sep[e].f = @ \ {x}]

Req(sig, seid, stream) == [sig |-> sig, seid |-> seid, stream |-> stream]
Streams(w) == {e \in Seps : Has(w, e, "stream")}

-----------------------------------------------------------------------------
(* Outgoing commands.  At most one is unanswered: session->req.            *)

queue_request(w, prio, r) == IF prio THEN [w EXCEPT !.s.prio_queue = Append(@, r)]
                                     ELSE [w EXCEPT !.s.req_queue = Append(@, r)]

\* avdtp_send fails once the channel has been taken from the session.
SendFails(w) == w.s.state = "CONNECTED" /\ w.s.req = NoReq /\ ~Is(w, "io")

\* A request that cannot be sent is freed.
send_req(w, prio, r) ==
  CASE SendFails(w) -> w
    [] w.s.state = "DISCONNECTED" ->
         queue_request([On(w, "io") EXCEPT !.s.state = "CONNECTING",
                                           !.s.pending = "out"], prio, r)
    [] \/ w.s.state = "CONNECTING"
       \/ w.s.state = "CONNECTED" /\ w.s.req # NoReq -> queue_request(w, prio, r)
    [] OTHER -> [w EXCEPT !.s.req = r]

\* While a stream is being aborted nothing else may be asked for it.
Refused(w, stream, sig) ==
  \/ stream # NoSep /\ Has(w, stream, "abort_int") /\ sig # "ABORT"
  \/ SendFails(w)

send_request(w, prio, stream, sig, seid) ==
  IF Refused(w, stream, sig) THEN w
                             ELSE send_req(w, prio, Req(sig, seid, stream))

process_queue(w) ==
  CASE w.s.req # NoReq -> w
    [] w.s.req = NoReq /\ w.s.prio_queue # << >> ->
         send_req([w EXCEPT !.s.prio_queue = Tail(@)], FALSE,
                  Head(w.s.prio_queue))
    [] w.s.req = NoReq /\ w.s.prio_queue = << >> /\ w.s.req_queue # << >> ->
         send_req([w EXCEPT !.s.req_queue = Tail(@)], FALSE,
                  Head(w.s.req_queue))
    [] OTHER -> w

\* The elements of q at the positions in at, in their order.
Picked(q, at) ==
  LET Rank(i) == Cardinality({j \in at : j <= i})
  IN IF at = {} THEN << >>
     ELSE [k \in 1..Cardinality(at) |-> q[CHOOSE i \in at : Rank(i) = k]]

NotOf(q, e) == Picked(q, {i \in DOMAIN q : q[i].stream # e})
WithoutStream(q) == Picked(q, {i \in DOMAIN q : q[i].stream = NoSep})

cleanup_queue(w, e) == [w EXCEPT !.s.prio_queue = NotOf(@, e),
                                 !.s.req_queue = NotOf(@, e)]

-----------------------------------------------------------------------------
(* References and the disconnect timer.                                    *)

remove_disconnect_timer(w) ==
  IF Is(w, "dc_timer") THEN Off(Off(w, "dc_timer"), "stream_setup") ELSE w

set_disconnect_timer(w) == On(remove_disconnect_timer(w), "dc_timer")

avdtp_ref(w) == remove_disconnect_timer([w EXCEPT !.s.ref = @ + 1])

\* Nothing removes the idle source of process_discover and the callback of an accept:
\* they are left with the address of the freed session.
Freed(f) == [NoSession EXCEPT !.f = f \cap {"idle", "accepting"}]
FreeSession(w) == [w EXCEPT !.s = Freed(w.s.f)]

\* With only the local reference left, a channel that is still being set up
\* is dropped, an established one starts the disconnect timer, and without
\* any the local reference goes too.
avdtp_unref(w) ==
  LET w1 == [w EXCEPT !.s.ref = @ - 1]
  IN CASE w1.s.ref = 1 /\ w1.s.state = "CONNECTED" /\ Is(w1, "io") ->
            set_disconnect_timer(w1)
       [] w1.s.ref = 1 /\ ~(w1.s.state = "CONNECTED" /\ Is(w1, "io")) ->
            FreeSession(w1)
       [] w1.s.ref = 0 -> FreeSession(w1)
       [] OTHER -> w1

UserRef(w) == [avdtp_ref(w) EXCEPT !.users = @ + 1]
UserUnref(w) == avdtp_unref([w EXCEPT !.users = @ - 1])

-----------------------------------------------------------------------------
(* SEP states.                                                             *)

avdtp_delay_report(w, e) ==
  IF /\ Has(w, e, "stream") /\ e \in SinkSeps
     /\ w.sep[e].state \in {"CONFIGURED", "STREAMING"}
  THEN send_request(w, TRUE, e, "DELAY_REPORT", e)
  ELSE w

\* All that handle_transport_connect does when it is given no channel.
TakePendingOpen(w) ==
  [w EXCEPT !.sep[w.s.pending_open].timer = "none", !.s.pending_open = NoSep]

\* An unanswered Abort stays pending without its stream.
handle_unanswered_req(w) ==
  IF w.s.req.sig = "ABORT" THEN [w EXCEPT !.s.req.stream = NoSep]
                           ELSE [w EXCEPT !.s.req = NoReq]

\* Mutants: the stream goes but stays in pending_open, or in the request.
Idle_keep_pending_open(w, e) ==
  LET w1 == IF w.s.req.stream = e THEN handle_unanswered_req(w) ELSE w
  IN [cleanup_queue(w1, e) EXCEPT !.sep[e] = NoStream]

\* The stream leaves the session and everything that still points to it is
\* settled before stream_free.
Idle(w, e) ==
  LET w1 == IF w.s.pending_open = e THEN TakePendingOpen(w) ELSE w
      w2 == IF w1.s.req.stream = e THEN handle_unanswered_req(w1) ELSE w1
      w3 == cleanup_queue(w2, e)
  IN [w3 EXCEPT !.sep[e] = NoStream]

avdtp_sep_set_state(w, e, state) ==
  LET was == w.sep[e].state
      w1 == [w EXCEPT !.sep[e].state = state]
  IN CASE ~Has(w, e, "stream") -> w
       [] Has(w, e, "stream") /\ state = "CONFIGURED" -> avdtp_delay_report(w1, e)
       [] Has(w, e, "stream") /\ state = "OPEN" ->
            LET w2 == Clear(w1, e, "starting")
            IN IF was \in {"STREAMING", "CLOSING", "ABORTING"} /\ Is(w, "auto_dc")
               THEN Set(w2, e, "idle_timer") ELSE w2
       [] Has(w, e, "stream") /\ state \in {"STREAMING", "CLOSING", "ABORTING"} ->
            Clear(w1, e, "idle_timer")
       [] Has(w, e, "stream") /\ state = "IDLE" -> Idle(w1, e)

\* The transport channel is up: the stream opens and the channel is watched.
handle_transport_connect(w) ==
  LET e == w.s.pending_open
      w1 == Set(TakePendingOpen(w), e, "io")
  IN Set(avdtp_sep_set_state(w1, e, "OPEN"), e, "io_id")

close_stream(w, e) == Clear(Clear(w, e, "io"), e, "connecting")

finalize_discovery(w) == Off(w, "discov_cb")

release_stream(w, e) == avdtp_sep_set_state(w, e, "IDLE")

\* release_stream for every stream of the session.
ReleaseAll(w) ==
  LET w1 == IF w.s.req.stream # NoSep THEN handle_unanswered_req(w) ELSE w
  IN [w1 EXCEPT !.sep = [e \in Seps |-> NoStream], !.s.pending_open = NoSep,
                !.s.prio_queue = WithoutStream(@), !.s.req_queue = WithoutStream(@)]

\* Mutant: the local reference goes although users keep theirs.
connection_lost_always_unref(w) ==
  LET w2 == ReleaseAll(finalize_discovery(w))
      w3 == [w2 EXCEPT !.s.ref = @ - w.drop, !.users = @ - w.drop,
                       !.s.state = "DISCONNECTED", !.s.watch = "none",
                       !.s.pending = IF @ = "retry" THEN @ ELSE "none"]
  IN avdtp_unref(On(remove_disconnect_timer(Off(w3, "io")), "auto_dc"))

connection_lost(w) ==
  LET w2 == ReleaseAll(finalize_discovery(w))
      w3 == [w2 EXCEPT !.s.ref = @ - w.drop, !.users = @ - w.drop,
                       !.s.state = "DISCONNECTED", !.s.watch = "none",
                       !.s.pending = IF @ = "retry" THEN @ ELSE "none"]
      w4 == On(remove_disconnect_timer(Off(w3, "io")), "auto_dc")
  IN IF w4.s.ref = 1 THEN avdtp_unref(w4) ELSE w4

\* Requests without a stream to abort, and those whose failure leaves the
\* two sides in doubt, end the session.  GET_ALL_CAPABILITIES is not among
\* the cases of the C switch.
cancel_request(w) ==
  LET r == w.s.req
      stream == IF r.seid \in Streams(w) THEN r.seid ELSE NoSep
      w1 == [w EXCEPT !.s.req = NoReq]
      w2 == IF stream = NoSep THEN w1 ELSE Set(w1, stream, "abort_int")
      w3 == CASE stream # NoSep /\ r.sig = "START" -> Clear(w2, stream, "starting")
              [] stream # NoSep /\ r.sig = "CLOSE" -> Clear(w2, stream, "close_int")
              [] OTHER -> w2
  IN IF \/ r.sig \in {"SET_CONFIGURATION", "DISCOVER", "GET_CAPABILITIES",
                      "ABORT"}
        \/ stream = NoSep
        \/ Refused(w3, stream, "ABORT")
     THEN connection_lost(w3)
     ELSE send_request(w3, TRUE, stream, "ABORT", r.seid)

\* Mutant: the Abort waits behind the requests it should overtake.
avdtp_abort_no_priority(w, e) ==
  CASE ~Has(w, e, "stream") \/ w.sep[e].state = "ABORTING" -> w
    [] Has(w, e, "stream") /\ w.sep[e].state # "ABORTING" /\ w.s.req.stream = e ->
         cancel_request(w)
    [] OTHER -> IF Refused(w, e, "ABORT") THEN w
                ELSE Set(send_request(w, FALSE, e, "ABORT", e), e, "abort_int")

avdtp_abort(w, e) ==
  CASE ~Has(w, e, "stream") \/ w.sep[e].state = "ABORTING" -> w
    [] Has(w, e, "stream") /\ w.sep[e].state # "ABORTING" /\ w.s.req.stream = e ->
         cancel_request(w)
    [] OTHER -> IF Refused(w, e, "ABORT") THEN w
                ELSE Set(send_request(w, TRUE, e, "ABORT", e), e, "abort_int")

\* No caller asks for an immediate close.
avdtp_close(w, e) ==
  IF \/ ~Has(w, e, "stream")
     \/ w.sep[e].state \in {"IDLE", "CONFIGURED"}
     \/ Has(w, e, "close_int")
     \/ Refused(w, e, "CLOSE")
  THEN w
  ELSE Set(send_request(w, FALSE, e, "CLOSE", e), e, "close_int")

\* A discovery that finds the remote SEPs known answers from the idle loop.
avdtp_discover(w) ==
  CASE Is(w, "discov_cb") -> w
    [] ~Is(w, "discov_cb") /\ w.s.seps # {} -> On(On(w, "discov_cb"), "idle")
    [] OTHER -> IF SendFails(w) THEN w
                ELSE On(send_request(w, FALSE, NoSep, "DISCOVER", NoSep), "discov_cb")

-----------------------------------------------------------------------------
(* The signalling channel.                                                 *)

\* avdtp_connect_cb when a channel other than the session's first one
\* succeeded or failed: it can only be a transport channel.
TransportConnectCb(w, ok) ==
  LET e == w.s.pending_open
      w1 == TakePendingOpen(w)
  IN CASE e # NoSep /\ ok -> process_queue(handle_transport_connect(w))
       [] e # NoSep /\ ~ok -> IF w1.sep[e].state = "ABORTING" \/ SendFails(w1)
                              THEN avdtp_sep_set_state(w1, e, "IDLE")
                              ELSE avdtp_abort(w1, e)
       [] OTHER -> connection_lost(w)

\* The signalling channel is up.
SignallingUp(w) ==
  LET w1 == [w EXCEPT !.s.state = "CONNECTED", !.s.watch = "full",
                      !.s.pending = "none"]
  IN process_queue(IF Is(w1, "stream_setup")
                   THEN Off(set_disconnect_timer(w1), "auto_dc") ELSE w1)

\* The idle source that answers a Set Configuration for an internal codec
\* has run: it runs in the same round of the main loop, long before a new
\* channel is set up or a timer of seconds that starts after it expires.
IdleDone == cfg \in EndpointSeps \cup {NoSep}

avdtp_connect_cb(ok) ==
  /\ s.pending \in {"out", "accept"}
  /\ IdleDone
  /\ \E d \in DropChoices :
       Install(IF ok THEN SignallingUp(World(d)) ELSE connection_lost(World(d)))

\* Completion of the connection to the peer's transport channel.
TransportConnected(e, ok) ==
  /\ "connecting" \in sep[e].f
  /\ \E d \in DropChoices :
       Install(TransportConnectCb(Clear(World(d), e, "connecting"), ok))

\* Completion of the acceptance of the peer's transport channel.  What it does with a
\* session that has been freed is undefined and not followed.
TransportAccepted(ok) ==
  /\ "accepting" \in s.f /\ s.state # "FREE"
  /\ \E d \in DropChoices :
       Install(TransportConnectCb(Off(World(d), "accepting"), ok))

auth_cb(ok) ==
  /\ s.pending = "auth"
  /\ \E d \in DropChoices :
       LET w == World(d)
       IN Install(IF ok THEN [On(w, "stream_setup") EXCEPT !.s.pending = "accept"]
                        ELSE connection_lost([w EXCEPT !.s.pending = "none"]))

\* Busy: another security request is going on, try again later.
Authorize(w, result) ==
  CASE result = "ok" -> [w EXCEPT !.s.pending = "auth"]
    [] result = "busy" -> [w EXCEPT !.s.pending = "retry"]
    [] result = "failed" -> avdtp_unref([w EXCEPT !.s.pending = "none"])

avdtp_authorization_handler(result) ==
  /\ s.pending = "retry"
  /\ IdleDone
  /\ Install(IF s.state = "CONNECTING" /\ "io" \in s.f
             THEN Authorize(World(0), result)
             ELSE avdtp_unref([World(0) EXCEPT !.s.pending = "none"]))

\* The session of this device, allocated if there is none.
avdtp_get_internal(w) == IF w.s.state = "FREE" THEN [w EXCEPT !.s = NewSession]
                                               ELSE w

\* The peer opens a channel.  If we are connecting, or connected and not
\* waiting for a transport, it is refused.
AwaitsTransport == /\ s.pending_open # NoSep
                   /\ "open_acp" \in sep[s.pending_open].f

ConfirmTransport == /\ AwaitsTransport
                    /\ "accepting" \notin s.f
                    /\ Install(On(World(0), "accepting"))

\* nodev: there is no audio device for the peer and the session just waits.
ConfirmSignalling(result) ==
  /\ s.state = "FREE" => users = 0
  /\ s.state # "CONNECTING" /\ ~AwaitsTransport /\ "io" \notin s.f
  /\ s.pending # "retry" /\ IdleDone
  /\ LET w == avdtp_get_internal(World(0))
         w1 == [On(w, "io") EXCEPT !.s.state = "CONNECTING", !.s.watch = "hup"]
     IN Install(IF result = "nodev" THEN w ELSE Authorize(w1, result))

-----------------------------------------------------------------------------
(* Commands of the peer.                                                   *)

\* A stream the peer has just configured, or that was just asked for.
Attach(w, e) == [w EXCEPT !.sep[e] = [NoStream EXCEPT !.f = {"stream"}]]

\* a2dp takes a setup, and with it a reference, and answers later.
avdtp_setconf_cmd(w, e) ==
  IF Has(w, e, "stream") THEN w
  ELSE [avdtp_ref(w) EXCEPT !.cfg = e]

\* A timer that runs already is overwritten: see Overwritten.
avdtp_open_cmd(w, e) ==
  IF w.sep[e].state # "CONFIGURED" THEN w
  ELSE [Set(w, e, "open_acp") EXCEPT !.s.pending_open = e,
                                     !.sep[e].timer = "open"]

avdtp_start_cmd(w, e) ==
  IF w.sep[e].state # "OPEN" \/ Has(w, e, "starting") THEN w
  ELSE avdtp_sep_set_state(Set(w, e, "starting"), e, "STREAMING")

avdtp_close_cmd(w, e) ==
  IF w.sep[e].state \notin {"OPEN", "STREAMING"} THEN w
  ELSE [avdtp_sep_set_state(w, e, "CLOSING") EXCEPT !.sep[e].timer = "close"]

avdtp_suspend_cmd(w, e) ==
  IF w.sep[e].state # "STREAMING" THEN w ELSE avdtp_sep_set_state(w, e, "OPEN")

avdtp_abort_cmd(w, e) == avdtp_sep_set_state(w, e, "ABORTING")

\* DISCOVER, GET_CAPABILITIES, GET_CONFIGURATION, DELAY_REPORT and unknown
\* commands are answered and change nothing here: they are QUERY.
avdtp_parse_cmd(w, sig, e) ==
  CASE sig = "SET_CONFIGURATION" -> avdtp_setconf_cmd(w, e)
    [] sig = "OPEN" -> avdtp_open_cmd(w, e)
    [] sig = "START" -> avdtp_start_cmd(w, e)
    [] sig = "CLOSE" -> avdtp_close_cmd(w, e)
    [] sig = "SUSPEND" -> avdtp_suspend_cmd(w, e)
    [] sig = "ABORT" -> avdtp_abort_cmd(w, e)
    [] sig = "QUERY" -> w

PeerSignals == {"SET_CONFIGURATION", "OPEN", "START", "CLOSE", "SUSPEND",
                "ABORT", "QUERY"}

\* What session_cb does after any command.
AfterCommand(w) ==
  LET w1 == IF w.s.ref = 1 /\ Streams(w) = {} /\ w.s.req = NoReq
            THEN set_disconnect_timer(w) ELSE w
  IN IF Streams(w1) # {} THEN remove_disconnect_timer(w1) ELSE w1

\* The watch of session_cb has a lower priority than idle sources.
Readable == s.watch = "full" /\ IdleDone

\* The timer whose number an Open or a Close puts another in the place of: its source
\* runs on.
Overwritten(sig, e) ==
  IF \/ sig = "OPEN" /\ sep[e].state = "CONFIGURED"
     \/ sig = "CLOSE" /\ sep[e].state \in {"OPEN", "STREAMING"}
  THEN {sep[e].timer} \ {"none"} ELSE {}

\* The peer has one command outstanding at a time.  An Open that times out
\* queues an Abort: the peer repeats it only while the queue is short.  One timer of
\* a stream is overwritten at a time.
Command(sig, e) ==
  /\ Readable
  /\ cfg = NoSep
  /\ sig = "OPEN" => Len(s.prio_queue) <= MaxQueue
  /\ Overwritten(sig, e) # {} => e \in Repeats /\ old[e] = {}
  /\ InstallWorld(AfterCommand(avdtp_parse_cmd(World(0), sig, e)))
  /\ old' = [old EXCEPT ![e] = @ \cup Overwritten(sig, e)]

-----------------------------------------------------------------------------
(* Answers to our commands.  An answer to a request that was cancelled has *)
(* another transaction label and is ignored.                               *)

IsGetCap(r) == r.sig = GetCap

\* listed are the SEPs the peer names, in increasing order, busy the ones it
\* says are in use.  A SEP in use that is neither known nor streaming with
\* us is skipped; if it is the last and we have no stream among them, the
\* discovery fails.
avdtp_discover_resp(w, listed, busy) ==
  LET skip == (busy \ w.s.seps) \ Streams(w)
      add == listed \ skip
      w1 == [w EXCEPT !.s.seps = @ \cup add,
                      !.s.prio_queue = @ \o Picked([e \in 1..61 |-> Req(GetCap, e, NoSep)],
                                                    add)]
  IN IF /\ \E e \in skip : \A x \in listed : x <= e
        /\ listed \cap Streams(w) = {}
     THEN finalize_discovery(w1) ELSE w1

\* The discovery is over when no further GET_CAPABILITIES is next in line.
GetCapResp(w) ==
  LET q == IF w.s.prio_queue # << >> THEN w.s.prio_queue ELSE w.s.req_queue
  IN IF q # << >> /\ IsGetCap(Head(q)) THEN w ELSE finalize_discovery(w)

\* Accept of a command about stream e.
avdtp_parse_resp(w, sig, e) ==
  CASE sig = "SET_CONFIGURATION" -> avdtp_sep_set_state(w, e, "CONFIGURED")
    [] sig = "OPEN" -> [Set(Set(w, e, "io"), e, "connecting")
                          EXCEPT !.s.pending_open = e]
    [] sig = "START" -> IF w.sep[e].state = "STREAMING" THEN w
                        ELSE avdtp_sep_set_state(w, e, "STREAMING")
    [] sig = "SUSPEND" -> avdtp_sep_set_state(w, e, "OPEN")
    [] sig = "CLOSE" -> close_stream(avdtp_sep_set_state(w, e, "CLOSING"), e)
    [] sig = "ABORT" -> avdtp_sep_set_state(avdtp_sep_set_state(w, e, "ABORTING"),
                                            e, "IDLE")
    [] sig = "DELAY_REPORT" -> w

\* Only these two rejections change the stream.
avdtp_parse_rej(w, sig, e) ==
  CASE sig = "START" -> Clear(w, e, "starting")
    [] sig = "CLOSE" -> Clear(w, e, "close_int")
    [] OTHER -> w

Answered(w) == process_queue([w EXCEPT !.s.req = NoReq])

AcceptDiscover(listed, busy) ==
  /\ Readable
  /\ s.req.sig = "DISCOVER"
  /\ Install(Answered(avdtp_discover_resp(World(0), listed, busy)))

AcceptGetCap ==
  /\ Readable
  /\ IsGetCap(s.req)
  /\ Install(Answered(GetCapResp(World(0))))

\* A peer that has aborted the stream accepts nothing more for it, and one
\* that has opened the stream itself does not accept our Open.
PeerRefuses == /\ s.req.stream # NoSep
               /\ \/ sep[s.req.stream].state = "ABORTING"
                  \/ s.req.sig = "OPEN" /\ sep[s.req.stream].state # "CONFIGURED"

\* An Abort whose stream has gone is accepted without effect.
AcceptStream ==
  /\ Readable
  /\ s.req.sig \in StreamCommands
  /\ ~PeerRefuses
  /\ LET w == World(0)
     IN Install(Answered(IF s.req.stream = NoSep THEN w
                         ELSE avdtp_parse_resp(w, s.req.sig, s.req.stream)))

\* The transport channel of an accepted Open cannot even be created.
AcceptOpenFails ==
  /\ Readable
  /\ s.req.sig = "OPEN"
  /\ ~PeerRefuses
  /\ \E d \in DropChoices :
       Install(connection_lost(avdtp_sep_set_state(World(d),
                                                   s.req.stream, "IDLE")))

\* Mutant: a rejected Abort is treated like any other rejection.
Reject_abort_ignored ==
  /\ Readable
  /\ s.req # NoReq
  /\ Install(Answered(avdtp_parse_rej(World(0), s.req.sig, s.req.stream)))

Reject ==
  /\ Readable
  /\ s.req # NoReq
  /\ \E d \in DropChoices :
       LET w == World(d)
       IN Install(IF s.req.sig = "ABORT" THEN connection_lost(w)
                  ELSE Answered(avdtp_parse_rej(w, s.req.sig, s.req.stream)))

\* A general reject says that the peer does not know the command, which it
\* may say of the optional ones.
GeneralReject ==
  /\ Readable
  /\ s.req.sig \in {"GET_ALL_CAPABILITIES", "DELAY_REPORT"}
  /\ Install(Answered(World(0)))

\* The peer hangs up, or sends something that cannot be parsed.
Hangup ==
  /\ s.watch = "hup" \/ Readable
  /\ \E d \in DropChoices : Install(connection_lost(World(d)))

-----------------------------------------------------------------------------
(* Transport channels, timers and idle sources.                            *)

\* sink.c closes the signalling channel when the stream that it was asked to
\* disconnect is gone, and drops its reference.
avdtp_disconnect_session(w) == UserUnref([Off(w, "io") EXCEPT !.s.watch = "none"])

\* The peer hung up, or our own close_stream made the descriptor invalid.
\* last: the sink's Disconnect waited for it, and nobody else uses the
\* session (any other user would be left with a session whose state is
\* CONNECTED but which has no channel).
transport_cb(e, last) ==
  /\ "io_id" \in sep[e].f
  /\ last => /\ users = 1 /\ cfg = NoSep /\ Streams(World(0)) = {e}
             /\ "close_int" \in sep[e].f /\ "abort_int" \notin sep[e].f
  /\ LET w == Clear(close_stream(World(0), e), e, "io_id")
         w1 == IF "abort_int" \in sep[e].f THEN w
               ELSE avdtp_sep_set_state(w, e, "IDLE")
     IN Install(IF last THEN avdtp_disconnect_session(w1) ELSE w1)

request_timeout ==
  /\ s.req # NoReq
  /\ \E d \in DropChoices : Install(cancel_request(World(d)))

\* The two timers set stream->timer to 0, whether it names them or not.
OpenTimesOut(w, e) ==
  avdtp_abort([w EXCEPT !.sep[e].timer = "none", !.s.pending_open = NoSep], e)
CloseTimesOut(w, e) == close_stream([w EXCEPT !.sep[e].timer = "none"], e)

stream_open_timeout(e) ==
  /\ sep[e].timer = "open"
  /\ \E d \in DropChoices : Install(OpenTimesOut(World(d), e))

stream_close_timeout(e) ==
  /\ sep[e].timer = "close"
  /\ Install(CloseTimesOut(World(0), e))

\* A timer that was overwritten expires, and its number replaces none: the one that
\* stream->timer names runs on unnamed.  A new stream may have the address of the one
\* it was made for; without a stream it uses freed memory, which is not followed.
OldTimeout(e, timer) ==
  /\ timer \in old[e]
  /\ "stream" \in sep[e].f
  /\ \E d \in DropChoices :
       InstallWorld(IF timer = "open" THEN OpenTimesOut(World(d), e)
                                      ELSE CloseTimesOut(World(d), e))
  /\ old' = [old EXCEPT ![e] = (@ \ {timer}) \cup ({sep[e].timer} \ {"none"})]

stream_timeout(e) ==
  /\ "idle_timer" \in sep[e].f
  /\ Install(Clear(avdtp_close(World(0), e), e, "idle_timer"))

\* With stream_setup, sink_setup_stream or source_setup_stream sets a stream
\* up instead: it takes a reference unless it has one (takes), or does
\* nothing if it is busy.  Without a sink or source the session is lost.
disconnect_timeout(what) ==
  /\ "dc_timer" \in s.f
  /\ "stream_setup" \notin s.f => what = "lost"
  /\ what \in {"takes", "discovers"} => Len(s.req_queue) <= MaxQueue
  /\ what = "takes" => users < MaxUsers
  /\ what = "discovers" => users > 0
  /\ \E d \in DropChoices :
       LET w == Off(Off(World(d), "dc_timer"), "stream_setup")
       IN Install(CASE what = "takes" -> avdtp_discover(Off(UserRef(w), "auto_dc"))
                    [] what = "discovers" -> avdtp_discover(Off(w, "auto_dc"))
                    [] what = "busy" -> w
                    [] what = "lost" -> connection_lost(w))

\* As for TransportAccepted, a freed session is not followed.
process_discover ==
  /\ "idle" \in s.f /\ s.state # "FREE"
  /\ Install(finalize_discovery(Off(World(0), "idle")))

\* a2dp answers the peer's Set Configuration through setconf_cb.  On success
\* the sink or source has taken a reference (takes) unless it had one; then
\* the setup's reference goes.  If the connection was lost in the meantime
\* the accept cannot be sent and the stream is freed.
auto_config(ok, takes) ==
  /\ cfg # NoSep
  /\ takes => ok /\ users < MaxUsers
  /\ ok /\ ~takes => users > 0
  /\ LET w == [World(0) EXCEPT !.cfg = NoSep, !.users = @ + 1]
         w1 == IF takes THEN UserRef(w) ELSE w
         w2 == IF ok /\ w.s.state = "CONNECTED" /\ Is(w, "io")
               THEN avdtp_sep_set_state(Attach(w1, cfg), cfg, "CONFIGURED")
               ELSE w1
     IN Install(UserUnref(w2))

-----------------------------------------------------------------------------
(* The users: sink, source, a2dp.                                          *)

\* Room for one more request of the users.
MayAsk == /\ users > 0
          /\ s.state # "FREE"
          /\ Len(s.req_queue) < MaxQueue
          /\ Len(s.prio_queue) < MaxQueue
          /\ ~(s.state = "DISCONNECTED" /\ s.pending = "retry")

\* avdtp_get followed by avdtp_discover: sink_connect, sink_setup_stream.
avdtp_get ==
  /\ s.state = "FREE" => users = 0
  /\ users < MaxUsers
  /\ ~(s.state = "DISCONNECTED" /\ s.pending = "retry")
  /\ Len(s.req_queue) < MaxQueue
  /\ Install(avdtp_discover(UserRef(avdtp_get_internal(World(0)))))

Discover == MayAsk /\ Install(avdtp_discover(World(0)))

Unref == users > 0 /\ s.state # "FREE" /\ Install(UserUnref(World(0)))

\* a2dp_config only configures a SEP when no SEP of its type has a stream
\* in the session.
SameType(e) == IF e \in SinkSeps THEN SinkSeps ELSE Seps \ SinkSeps

avdtp_set_configuration(e) ==
  /\ MayAsk
  /\ s.state = "CONNECTED"
  /\ e \in s.seps
  /\ cfg # e
  /\ SameType(e) \cap Streams(World(0)) = {}
  /\ ~SendFails(World(0))
  /\ Install(Attach(send_request(World(0), FALSE, e, "SET_CONFIGURATION", e), e))

\* Requests about stream e that have not been answered.
Outstanding(e) ==
  {r.sig : r \in {x \in {s.req} \cup {s.prio_queue[i] : i \in DOMAIN s.prio_queue}
                        \cup {s.req_queue[i] : i \in DOMAIN s.req_queue} :
                  x.stream = e}}

\* a2dp opens a stream once, when its configuration is confirmed.
avdtp_open(e) ==
  /\ MayAsk
  /\ sep[e].state = "CONFIGURED"
  /\ "OPEN" \notin Outstanding(e) /\ "connecting" \notin sep[e].f
  /\ ~Refused(World(0), e, "OPEN")
  /\ Install(send_request(World(0), FALSE, e, "OPEN", e))

avdtp_start(e) ==
  /\ MayAsk
  /\ sep[e].state = "OPEN"
  /\ sep[e].f \cap {"close_int", "starting"} = {}
  /\ ~Refused(World(0), e, "START")
  /\ Install(Set(send_request(World(0), FALSE, e, "START", e), e, "starting"))

\* a2dp suspends streams that were started: on request, or from the timer it
\* runs since the peer's Start.
avdtp_suspend(e) ==
  /\ MayAsk
  /\ sep[e].state \in {"STREAMING", "CLOSING", "ABORTING"}
  /\ "starting" \in sep[e].f
  /\ "close_int" \notin sep[e].f
  /\ ~Refused(World(0), e, "SUSPEND")
  /\ Install(send_request(World(0), FALSE, e, "SUSPEND", e))

Close(e) == /\ MayAsk
            /\ "stream" \in sep[e].f
            /\ Install(avdtp_close(World(0), e))

Abort(e) == /\ MayAsk
            /\ "stream" \in sep[e].f
            /\ \E d \in DropChoices : Install(avdtp_abort(World(d), e))

DelayReport(e) == /\ MayAsk
                  /\ "DELAY_REPORT" \notin Outstanding(e)
                  /\ Install(avdtp_delay_report(World(0), e))

\* The SEP goes away and a new one is registered under the same SEID.
avdtp_unregister_sep(e) ==
  /\ "stream" \in sep[e].f
  /\ cfg # e
  /\ Install(release_stream(World(0), e))

-----------------------------------------------------------------------------
SignallingNext ==
  \/ \E ok \in BOOLEAN : avdtp_connect_cb(ok) \/ auth_cb(ok) \/ TransportAccepted(ok)
  \/ \E result \in AuthResults : avdtp_authorization_handler(result)
  \/ \E result \in AuthResults \cup {"nodev"} : ConfirmSignalling(result)
  \/ ConfirmTransport
  \/ Hangup
  \/ \E what \in {"takes", "discovers", "busy", "lost"} : disconnect_timeout(what)

PeerNext ==
  \/ \E sig \in PeerSignals, e \in Seps : Command(sig, e)
  \/ \E listed \in SUBSET Seps : \E busy \in SUBSET (listed \cap PeerInUse) :
       AcceptDiscover(listed, busy)
  \/ AcceptGetCap \/ AcceptStream \/ AcceptOpenFails
  \/ Reject \/ GeneralReject
  \/ \E e \in Seps, last \in BOOLEAN : transport_cb(e, last)
  \/ \E e \in Seps, ok \in BOOLEAN : TransportConnected(e, ok)

TimerNext ==
  \/ request_timeout
  \/ \E e \in Seps : \/ stream_open_timeout(e)
                     \/ stream_close_timeout(e)
                     \/ stream_timeout(e)
                     \/ \E timer \in {"open", "close"} : OldTimeout(e, timer)
  \/ process_discover
  \/ \E ok, takes \in BOOLEAN : auto_config(ok, takes)

UserNext ==
  \/ avdtp_get \/ Discover \/ Unref
  \/ \E e \in Seps : \/ avdtp_set_configuration(e) \/ avdtp_open(e)
                     \/ avdtp_start(e) \/ avdtp_suspend(e)
                     \/ Close(e) \/ Abort(e) \/ DelayReport(e)
                     \/ avdtp_unregister_sep(e)

Next == SignallingNext \/ PeerNext \/ TimerNext \/ UserNext

\* Timers expire, and the watch of a transport channel that we closed
\* ourselves is called.  Weak fairness of request_timeout for the request in
\* flight, of stream_close_timeout and of transport_cb for a closed channel,
\* said of what they undo: each stays enabled until its condition ends, and
\* taking it ends the condition.
Fairness ==
  /\ \A r \in Request : []<>(s.req # r)
  /\ \A e \in Seps : /\ []<>(sep[e].timer # "close")
                      /\ []<>("close" \in old[e] => "stream" \notin sep[e].f)
                      /\ []<>("io_id" \in sep[e].f => "io" \in sep[e].f)

Spec == Init /\ [][Next]_vars
FairSpec == Spec /\ Fairness

-----------------------------------------------------------------------------
(* Properties.                                                             *)

TypeOK ==
  /\ s \in [state : SessionStates, ref : Nat, pending : Pending,
            watch : Watches, f : SUBSET SessionFlags,
            req : Request \cup {NoReq}, prio_queue : Seq(Request),
            req_queue : Seq(Request), pending_open : SepOrNone,
            seps : SUBSET Seps]
  /\ sep \in [Seps -> [state : SepStates, timer : Timers,
                       f : SUBSET StreamFlags]]
  /\ cfg \in SepOrNone
  /\ users \in Nat
  /\ old \in [Seps -> SUBSET {"open", "close"}]

\* Whatever is left behind when a stream is freed (a timer, a watch, the
\* request in flight, a queued request, pending_open) would later be used
\* through a dangling pointer: avdtp_sep_set_state(IDLE) settles them all, but for the
\* timers in old, which the peer made it forget.  A freed session leaves nothing but
\* the two sources that avdtp_unref does not remove.
NoDangling ==
  /\ s.state = "FREE" => s = Freed(s.f)
  /\ \A e \in Seps : "stream" \notin sep[e].f => sep[e] = NoStream
  /\ \A e \in Seps : "stream" \notin sep[e].f =>
       Outstanding(e) = {} /\ s.pending_open # e
  /\ s.state \in {"FREE", "DISCONNECTED"} =>
       \A e \in Seps : "stream" \notin sep[e].f

\* The comment at struct avdtp_stream says that starting is "only valid while
\* sep state == OPEN".  There it means that our own Start is under way: if it
\* stayed set after that, no side could ever start the stream.
StartUnderWay ==
  \A e \in Seps : sep[e].state = "OPEN" /\ "starting" \in sep[e].f =>
                   "START" \in Outstanding(e)

\* A stream that carries media has a watched transport channel, so its loss
\* is noticed, except while our Abort is about to end the stream.
TransportWatched ==
  \A e \in Seps : sep[e].state \in {"OPEN", "STREAMING"} =>
                   "io_id" \in sep[e].f \/ "abort_int" \in sep[e].f

\* The disconnect timer only runs against a session that nobody uses, or to
\* start the setup of a stream.
TimerUnreferenced ==
  "dc_timer" \in s.f => s.ref = 1 \/ "stream_setup" \in s.f

\* The count is the local reference plus one for each holder, and a session
\* is not freed while anyone holds a reference to it.
RefCount ==
  LET held == users + (IF cfg = NoSep THEN 0 ELSE 1)
  IN s.ref = IF s.state = "FREE" THEN held ELSE 1 + held

\* The comment in avdtp_unref says "Drop the local ref if we aren't
\* connected": what frees the session is the local reference, when no holder
\* is left.  Authorize("failed") drops a reference of its own that it never
\* took.
LocalRefOnly == s.state = "FREE" => users = 0 /\ cfg = NoSep

\* Once we abort a stream no other request about it is sent, apart from
\* delay reports that were ahead of the Abort in the priority queue.
AbortFirst ==
  [][\A e \in Seps :
       "abort_int" \in sep[e].f /\ s.req.stream # e /\ s'.req.stream = e =>
         s'.req.sig \in {"ABORT", "DELAY_REPORT"}]_vars

\* A stream that is being closed is freed in the end, whichever side closes
\* the transport channel.
ClosingEnds == \A e \in Seps : sep[e].state = "CLOSING" ~> "stream" \notin sep[e].f

\* A stream that we abort is freed in the end, with the peer's help or not.
AbortEnds == \A e \in Seps : "abort_int" \in sep[e].f ~> "stream" \notin sep[e].f

\* What the session, its streams and its requests hold of each other fits, at
\* every moment: no pointer to a freed stream is left, a stream that starts has
\* its request, a stream that is open has a watched channel.
Consistent == TypeOK /\ NoDangling /\ StartUnderWay /\ TransportWatched

\* avdtp_ref and avdtp_unref: the count is that of the holders, and the timer
\* that gives the session up only runs when there is none.
References == RefCount /\ TimerUnreferenced

\* Whatever the users, the peer, timers and channels do in whatever order, what the
\* session, its streams, its requests and its holders know of each other fits: no
\* pointer to a freed stream is left but in timers that a repeated Open or Close made
\* stream->timer forget, a stream that starts has its request, one that is open has a
\* watched channel, and the count of references is that of the holders.
SessionSafe == Consistent /\ References

\* A stream that is closed or aborted by either side is freed in the end.
StreamsEnd == ClosingEnds /\ AbortEnds

=============================================================================
