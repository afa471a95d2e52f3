------------------------- MODULE AudioDeviceProofs -------------------------
(***************************************************************************)
(* For every device, whatever services it has and whatever happens: the     *)
(* state of the device fits its headset and its sink, and what is signalled *)
(* follows the transitions of doc/audio-api.txt (AudioState).               *)
(***************************************************************************)
EXTENDS AudioDevice, TLAPS

Fields == {"state", "hs", "sink", "auto_connect", "conn_req", "dc_req", "control_timer",
           "avdtp_timer", "headset_timer", "disconnecting", "authorized", "dc_id", "lost",
           "auths", "idle", "asked", "retry", "closing", "control"}

\* v is a record of the fields that Init gives d.
IsWorld(v) == v = [f \in Fields |-> v[f]]

States == {"disconnected", "connecting", "connected"}

\* Where nothing clears an authorization (AuthorizedFits).
Kept == "gateway" \in Has \/ "unfinished" \in Environment

\* The flags that the invariant mentions.
Typed(v) == /\ IsWorld(v)
            /\ v.state \in States
            /\ v.hs \in {"disconnected", "connecting"} \cup Up
            /\ v.sink \in {"disconnected", "connecting", "disconnecting"} \cup Up
            /\ v.authorized \in BOOLEAN /\ v.dc_id \in BOOLEAN /\ v.lost \in BOOLEAN
            /\ v.idle \in BOOLEAN /\ v.asked \in BOOLEAN /\ v.avdtp_timer \in BOOLEAN
            /\ v.retry \in BOOLEAN /\ v.control \in {"disconnected", "connecting", "connected"}

\* StateFits of v, and without a sink nothing sets one up.
Fits(v) == /\ v.state = "disconnected" <=> v.hs = "disconnected" /\ v.sink = "disconnected"
           /\ v.sink # "disconnected" \/ v.avdtp_timer => "sink" \in Has

\* WatchKept and AuthorizedFits of v.
Link(v) == /\ ~v.lost
           /\ v.dc_id <=> v.state # "disconnected"
           /\ v.authorized => v.state # "disconnected" \/ v.control # "disconnected" \/ Kept

\* AuthUnderWay of v; a service that waits, or will ask again, is connecting; the agent
\* is asked only where nothing is authorized yet.
Auth(v) == /\ v.auths \subseteq Has
           /\ v.auths # {} <=> v.asked \/ v.idle
           /\ v.asked => ~v.authorized
           /\ "headset" \in v.auths => v.hs = "connecting"
           /\ "sink" \in v.auths => v.sink = "connecting"
           /\ "control" \in v.auths => v.control = "connecting"
           /\ v.retry => v.sink = "connecting"

Good(v) == Typed(v) /\ Fits(v) /\ Link(v) /\ Auth(v)

\* The inductive invariant.
IInv == Good(d)

\* The state does not rise beyond connecting.
Rises(v, u) == u.state = v.state \/ (v.state = "disconnected" /\ u.state = "connecting")

\* It falls, or a connection is complete.
Falls(v, u) == \/ u.state \in {v.state, "disconnected"}
               \/ v.state # "disconnected" /\ u.state = "connected"

-----------------------------------------------------------------------------

LEMMA SetStateFields ==
  ASSUME NEW v, NEW state \in States, Typed(v)
  PROVE  LET u == device_set_state(v, state)
         IN  /\ Typed(u) /\ u.state = state
             /\ u.hs = v.hs /\ u.sink = v.sink /\ (u.avdtp_timer <=> v.avdtp_timer)
             /\ u.auths = v.auths /\ (u.idle <=> v.idle) /\ (u.asked <=> v.asked)
             /\ (u.retry <=> v.retry) /\ u.control = v.control
             /\ u.authorized <=> state # "disconnected" /\ v.authorized
             /\ u.dc_id <=> state = "connecting" \/ (state = "connected" /\ v.dc_id)
             /\ u.lost <=> v.lost \/ (state = "connecting" /\ v.dc_id)
<1> DEFINE w == SetWatch(v, state)
           u == AnswerRequests([w EXCEPT !.state = state], state)
<1>1. /\ IsWorld(w) /\ \A f \in Fields \ {"authorized", "dc_id", "lost"} : w[f] = v[f]
      /\ w.authorized \in BOOLEAN /\ w.dc_id \in BOOLEAN /\ w.lost \in BOOLEAN
      /\ w.authorized <=> state # "disconnected" /\ v.authorized
      /\ w.dc_id <=> state = "connecting" \/ (state = "connected" /\ v.dc_id)
      /\ w.lost <=> v.lost \/ (state = "connecting" /\ v.dc_id)
  <2>1. CASE state = "disconnected"
    BY <2>1 DEF SetWatch, Typed, IsWorld, Fields
  <2>2. CASE state = "connecting"
    BY <2>2 DEF SetWatch, Typed, IsWorld, Fields
  <2>3. CASE state = "connected"
    BY <2>3 DEF SetWatch, Typed, IsWorld, Fields
  <2> QED
    BY <2>1, <2>2, <2>3 DEF States
<1> HIDE DEF w
<1>2. /\ IsWorld(u) /\ u.state = state
      /\ \A f \in Fields \ {"state", "dc_req", "disconnecting", "conn_req"} : u[f] = w[f]
  BY <1>1 DEF AnswerRequests, IsWorld, Fields
<1>3. device_set_state(v, state) = IF v.state = state THEN w ELSE u
  BY DEF device_set_state, w
<1> HIDE DEF u
<1>4. CASE v.state = state
  BY <1>1, <1>3, <1>4 DEF Typed, Fields
<1>5. CASE v.state # state
  <2>1. device_set_state(v, state) = u
    BY <1>3, <1>5
  <2> QED
    BY <1>1, <1>2, <2>1 DEF Typed, Fields
<1> QED
  BY <1>4, <1>5

\* What is left in both services when one goes.
LEMMA HeadsetDownFields ==
  ASSUME NEW v, Typed(v)
  PROVE  LET u == HeadsetDown(v)
             rest == v.auths \ {"headset"}
         IN  /\ Typed(u) /\ u.state = v.state /\ u.hs = "disconnected" /\ u.sink = v.sink
             /\ ~u.avdtp_timer /\ u.control = v.control /\ (u.retry <=> v.retry)
             /\ u.auths = rest /\ (u.idle <=> v.idle /\ rest # {})
             /\ (u.asked <=> v.asked /\ rest # {})
             /\ (u.authorized <=> v.authorized) /\ (u.dc_id <=> v.dc_id) /\ (u.lost <=> v.lost)
<1> USE DEF HeadsetDown, audio_device_cancel_authorization, Typed
<1> QED
  BY DEF IsWorld, Fields, Up

\* audio_device_is_active is false.
Idle(v) == v.hs = "disconnected" /\ v.sink = "disconnected"

\* A service that waits no longer.
LEMMA CancelFields ==
  ASSUME NEW v, NEW s, Typed(v)
  PROVE  LET u == audio_device_cancel_authorization(v, s)
             rest == v.auths \ {s}
         IN  /\ IsWorld(u) /\ u.auths = rest
             /\ u.idle \in BOOLEAN /\ (u.idle <=> v.idle /\ rest # {})
             /\ u.asked \in BOOLEAN /\ (u.asked <=> v.asked /\ rest # {})
             /\ \A f \in Fields \ {"auths", "idle", "asked"} : u[f] = v[f]
  BY DEF audio_device_cancel_authorization, Typed, IsWorld, Fields

LEMMA ControlDownFields ==
  ASSUME NEW v, Typed(v)
  PROVE  LET u == ControlDown(v)
             rest == v.auths \ {"control"}
         IN  /\ Typed(u) /\ u.state = v.state /\ u.hs = v.hs /\ u.sink = v.sink
             /\ (u.avdtp_timer <=> v.avdtp_timer) /\ u.control = "disconnected"
             /\ (u.retry <=> v.retry) /\ u.auths = rest /\ (u.idle <=> v.idle /\ rest # {})
             /\ (u.asked <=> v.asked /\ rest # {})
             /\ u.authorized <=> (v.authorized /\ ~(v.control = "connected" /\ Idle(v)))
             /\ (u.dc_id <=> v.dc_id) /\ (u.lost <=> v.lost)
<1> DEFINE w == audio_device_cancel_authorization(v, "control")
           u == [w EXCEPT !.control = "disconnected",
                          !.authorized = w.authorized /\ (v.control = "connected" =>
                                            v.hs # "disconnected" \/ v.sink # "disconnected")]
<1>1. /\ IsWorld(w) /\ w.auths = v.auths \ {"control"}
      /\ w.idle \in BOOLEAN /\ (w.idle <=> v.idle /\ w.auths # {})
      /\ w.asked \in BOOLEAN /\ (w.asked <=> v.asked /\ w.auths # {})
      /\ \A f \in Fields \ {"auths", "idle", "asked"} : w[f] = v[f]
  BY CancelFields
<1>2. ControlDown(v) = u
  BY DEF ControlDown
<1> HIDE DEF w
<1>3. /\ IsWorld(u) /\ u.control = "disconnected"
      /\ u.authorized \in BOOLEAN
      /\ u.authorized <=> (w.authorized /\ ~(v.control = "connected" /\ Idle(v)))
      /\ \A f \in Fields \ {"control", "authorized"} : u[f] = w[f]
  BY <1>1 DEF IsWorld, Fields, Idle
<1> HIDE DEF u
<1>4. Typed(u)
  BY <1>1, <1>3 DEF Typed, Fields
<1> QED
  BY <1>1, <1>2, <1>3, <1>4 DEF Fields

\* SinkDown before the control channel goes.
SinkGone(v) == [audio_device_cancel_authorization(v, "sink") EXCEPT
                  !.sink = "disconnected", !.closing = FALSE, !.retry = FALSE,
                  !.control_timer = v.control_timer /\ "control" \notin Has]

LEMMA SinkGoneFields ==
  ASSUME NEW v, Typed(v)
  PROVE  LET u == SinkGone(v)
             rest == v.auths \ {"sink"}
         IN  /\ Typed(u) /\ u.state = v.state /\ u.sink = "disconnected" /\ u.hs = v.hs
             /\ (u.avdtp_timer <=> v.avdtp_timer) /\ u.control = v.control /\ ~u.retry
             /\ u.auths = rest /\ (u.idle <=> v.idle /\ rest # {})
             /\ (u.asked <=> v.asked /\ rest # {})
             /\ (u.authorized <=> v.authorized) /\ (u.dc_id <=> v.dc_id) /\ (u.lost <=> v.lost)
<1> DEFINE w == audio_device_cancel_authorization(v, "sink")
           u == SinkGone(v)
<1>1. /\ IsWorld(w) /\ w.auths = v.auths \ {"sink"}
      /\ w.idle \in BOOLEAN /\ (w.idle <=> v.idle /\ w.auths # {})
      /\ w.asked \in BOOLEAN /\ (w.asked <=> v.asked /\ w.auths # {})
      /\ \A f \in Fields \ {"auths", "idle", "asked"} : w[f] = v[f]
  BY CancelFields
<1>2. u = [w EXCEPT !.sink = "disconnected", !.closing = FALSE, !.retry = FALSE,
                    !.control_timer = v.control_timer /\ "control" \notin Has]
  BY DEF SinkGone
<1> HIDE DEF w, u
<1>3. /\ IsWorld(u) /\ u.sink = "disconnected" /\ u.retry = FALSE
      /\ \A f \in Fields \ {"sink", "closing", "retry", "control_timer"} : u[f] = w[f]
  BY <1>1, <1>2 DEF IsWorld, Fields
<1>4. Typed(u)
  BY <1>1, <1>3 DEF Typed, Fields
<1> QED
  BY <1>1, <1>3, <1>4 DEF u, Fields

LEMMA SinkDownGone ==
  ASSUME NEW v, Typed(v)
  PROVE  SinkDown(v) = ControlDown(SinkGone(v))
<1>1. audio_device_cancel_authorization(v, "sink").control_timer = v.control_timer
  BY DEF audio_device_cancel_authorization, Typed, IsWorld, Fields
<1> QED
  BY <1>1 DEF SinkDown, SinkGone

\* What holds of v but for the relation between the state, the services and the watch.
Weak(v) == /\ Typed(v) /\ Auth(v) /\ ~v.lost
           /\ v.sink # "disconnected" \/ v.avdtp_timer => "sink" \in Has

LEMMA GoodWeak ==
  ASSUME NEW v, Good(v)
  PROVE  Weak(v)
  BY DEF Good, Weak, Fits, Link

LEMMA SetStateGood ==
  ASSUME NEW v, NEW state \in States, Weak(v),
         state = "disconnected" <=> v.hs = "disconnected" /\ v.sink = "disconnected",
         state = "connecting" => ~v.dc_id,
         state = "connected" => v.dc_id
  PROVE  Good(device_set_state(v, state))
<1>1. Typed(v)
  BY DEF Weak
<1> QED
  BY <1>1, SetStateFields DEF Good, Weak, Fits, Link, Auth, States

\* A callback changes the state of its service first.
LEMMA HeadsetNew ==
  ASSUME NEW v, Weak(v), NEW new \in {"connecting"} \cup Up,
         new # "connecting" => "headset" \notin v.auths
  PROVE  LET u == [v EXCEPT !.hs = new]
             w == [u EXCEPT !.headset_timer = FALSE]
         IN  /\ Weak(u) /\ Weak(w)
             /\ u.hs = new /\ u.sink = v.sink /\ u.state = v.state /\ (u.dc_id <=> v.dc_id)
             /\ (u.authorized <=> v.authorized) /\ (u.avdtp_timer <=> v.avdtp_timer)
             /\ w.hs = new /\ w.sink = v.sink /\ w.state = v.state /\ (w.dc_id <=> v.dc_id)
             /\ (w.authorized <=> v.authorized) /\ (w.avdtp_timer <=> v.avdtp_timer)
<1>1. IsWorld(v)
  BY DEF Weak, Typed
<1> DEFINE u == [v EXCEPT !.hs = new]
           w == [u EXCEPT !.headset_timer = FALSE]
<1>2. /\ IsWorld(u) /\ u.hs = new
      /\ \A f \in Fields \ {"hs"} : u[f] = v[f]
  BY <1>1 DEF IsWorld, Fields
<1>3. /\ IsWorld(w) /\ w.hs = new
      /\ \A f \in Fields \ {"hs", "headset_timer"} : w[f] = v[f]
  BY <1>1 DEF IsWorld, Fields
<1> HIDE DEF u, w
<1>4. Weak(u)
  BY <1>2 DEF Weak, Typed, Auth, Fields
<1>5. Weak(w)
  BY <1>3 DEF Weak, Typed, Auth, Fields
<1> QED
  BY <1>2, <1>3, <1>4, <1>5 DEF u, w, Fields

LEMMA SinkNew ==
  ASSUME NEW v, Weak(v), "sink" \in Has, NEW new \in {"connecting", "disconnecting"} \cup Up,
         new # "connecting" => "sink" \notin v.auths, new # "connecting" => ~v.retry
  PROVE  LET u == [v EXCEPT !.sink = new]
             w == [u EXCEPT !.avdtp_timer = FALSE]
         IN  /\ Weak(u) /\ Weak(w)
             /\ u.sink = new /\ u.hs = v.hs /\ u.state = v.state /\ (u.dc_id <=> v.dc_id)
             /\ (u.authorized <=> v.authorized)
             /\ w.sink = new /\ w.hs = v.hs /\ w.state = v.state /\ (w.dc_id <=> v.dc_id)
             /\ (w.authorized <=> v.authorized)
<1>1. IsWorld(v)
  BY DEF Weak, Typed
<1> DEFINE u == [v EXCEPT !.sink = new]
           w == [u EXCEPT !.avdtp_timer = FALSE]
<1>2. /\ IsWorld(u) /\ u.sink = new
      /\ \A f \in Fields \ {"sink"} : u[f] = v[f]
  BY <1>1 DEF IsWorld, Fields
<1>3. /\ IsWorld(w) /\ w.sink = new /\ w.avdtp_timer = FALSE
      /\ \A f \in Fields \ {"sink", "avdtp_timer"} : w[f] = v[f]
  BY <1>1 DEF IsWorld, Fields
<1> HIDE DEF u, w
<1>4. Weak(u)
  BY <1>2 DEF Weak, Typed, Auth, Fields
<1>5. Weak(w)
  BY <1>3 DEF Weak, Typed, Auth, Fields
<1> QED
  BY <1>2, <1>3, <1>4, <1>5 DEF u, w, Fields

-----------------------------------------------------------------------------
(* The callbacks of the two services.                                      *)

\* After the fall of a service there is no authorization of it, and the device is
\* disconnected if the other is.
LEMMA HeadsetDownWeak ==
  ASSUME NEW v, Good(v)
  PROVE  LET u == HeadsetDown(v)
         IN  /\ Weak(u) /\ u.hs = "disconnected" /\ u.sink = v.sink /\ u.state = v.state
             /\ (u.dc_id <=> v.dc_id) /\ (v.sink # "disconnected" => Good(u))
<1>1. Typed(v) /\ Weak(v)
  BY GoodWeak DEF Good
<1>2. Weak(HeadsetDown(v))
  BY <1>1, HeadsetDownFields DEF Weak, Auth
<1> QED
  BY <1>1, <1>2, HeadsetDownFields DEF Good, Weak, Fits, Link

\* A control channel that goes: only one that was authorized and did not come up
\* can leave an authorization behind.
LEMMA ControlDownWeak ==
  ASSUME NEW v, Weak(v)
  PROVE  LET u == ControlDown(v)
         IN  /\ Weak(u) /\ u.hs = v.hs /\ u.sink = v.sink /\ u.state = v.state
             /\ (u.dc_id <=> v.dc_id) /\ (u.authorized => v.authorized)
             /\ Good(v) /\ (v.state # "disconnected" \/ v.control # "connecting" \/ ~v.authorized \/ Kept)
                => Good(u)
<1>1. Typed(v)
  BY DEF Weak
<1>2. Weak(ControlDown(v))
  BY <1>1, ControlDownFields DEF Weak, Auth
<1>3. Good(v) /\ (v.state # "disconnected" \/ v.control # "connecting" \/ ~v.authorized \/ Kept)
        => Good(ControlDown(v))
  BY <1>1, <1>2, ControlDownFields DEF Good, Weak, Fits, Link, Typed, Idle
<1> QED
  BY <1>1, <1>2, <1>3, ControlDownFields

LEMMA SinkDownWeak ==
  ASSUME NEW v, Good(v)
  PROVE  LET u == SinkDown(v)
         IN  /\ Weak(u) /\ u.sink = "disconnected" /\ u.hs = v.hs /\ u.state = v.state
             /\ (u.dc_id <=> v.dc_id) /\ (v.hs # "disconnected" => Good(u))
<1> DEFINE w == SinkGone(v)
<1>1. Typed(v) /\ Weak(v)
  BY GoodWeak DEF Good
<1>2. /\ w.sink = "disconnected" /\ w.hs = v.hs /\ w.state = v.state /\ (w.dc_id <=> v.dc_id)
      /\ (w.authorized <=> v.authorized) /\ w.control = v.control
  BY <1>1, SinkGoneFields
<1>3. Weak(w)
  BY <1>1, SinkGoneFields DEF Weak, Auth
<1>4. v.hs # "disconnected" => Good(w) /\ w.state # "disconnected"
  BY <1>2, <1>3 DEF Good, Weak, Fits, Link
<1>5. SinkDown(v) = ControlDown(w)
  BY <1>1, SinkDownGone
<1> HIDE DEF w
<1> QED
  BY <1>2, <1>3, <1>4, <1>5, ControlDownWeak

\* What a shutdown of the other service does.
LEMMA HeadsetShutdownGood ==
  ASSUME NEW v, Good(v), v.sink = "disconnected"
  PROVE  Good(headset_shutdown(v)) /\ headset_shutdown(v).state = "disconnected"
<1> DEFINE u == HeadsetDown(v)
<1>1. Weak(u) /\ u.hs = "disconnected" /\ u.sink = "disconnected"
  BY HeadsetDownWeak
<1> HIDE DEF u
<1>2. Good(device_set_state(u, "disconnected"))
  BY <1>1, SetStateGood DEF States
<1>3. device_set_state(u, "disconnected").state = "disconnected"
  BY <1>1, SetStateFields DEF States, Weak
<1> QED
  BY <1>2, <1>3 DEF u, headset_shutdown

LEMMA ClosingGood ==
  ASSUME NEW v, Good(v)
  PROVE  Good([v EXCEPT !.closing = TRUE]) /\ [v EXCEPT !.closing = TRUE].state = v.state
<1> DEFINE u == [v EXCEPT !.closing = TRUE]
<1>1. IsWorld(u) /\ \A f \in Fields \ {"closing"} : u[f] = v[f]
  BY DEF Good, Typed, IsWorld, Fields
<1> HIDE DEF u
<1>2. Good(u) /\ u.state = v.state
  BY <1>1 DEF Good, Typed, Fits, Link, Auth, Fields
<1> QED
  BY <1>2 DEF u

LEMMA SinkShutdownGood ==
  ASSUME NEW v, NEW how \in Hows, Good(v), v.hs = "disconnected"
  PROVE  /\ Good(sink_shutdown(v, how))
         /\ sink_shutdown(v, how).state \in {v.state, "disconnected"}
<1>1. CASE how = "now"
  <2> DEFINE u == SinkDown(v)
  <2>1. Weak(u) /\ u.hs = "disconnected" /\ u.sink = "disconnected"
    BY SinkDownWeak
  <2> HIDE DEF u
  <2>2. Good(device_set_state(u, "disconnected"))
    BY <2>1, SetStateGood DEF States
  <2>3. device_set_state(u, "disconnected").state = "disconnected"
    BY <2>1, SetStateFields DEF States, Weak
  <2> QED
    BY <1>1, <2>2, <2>3 DEF u, sink_shutdown
<1>2. CASE how = "later"
  BY <1>2, ClosingGood DEF sink_shutdown
<1>3. CASE how = "never"
  BY <1>3 DEF sink_shutdown
<1> QED
  BY <1>1, <1>2, <1>3 DEF Hows

\* The headset is lost, or was already.
LEMMA HeadsetLost ==
  ASSUME NEW v, NEW how \in Hows, Good(v)
  PROVE  LET u == device_headset_cb(v, "disconnected", how)
         IN  /\ Good(u) /\ Falls(v, u)
             /\ v.sink \notin Up => u.state \in {v.state, "disconnected"}
<1> DEFINE down == HeadsetDown(v)
           u == device_headset_cb(v, "disconnected", how)
<1> SUFFICES /\ Good(u) /\ Falls(v, u)
             /\ v.sink \notin Up => u.state \in {v.state, "disconnected"}
  OBVIOUS
<1>1. /\ Weak(down) /\ down.hs = "disconnected" /\ down.sink = v.sink /\ down.state = v.state
      /\ (down.dc_id <=> v.dc_id) /\ (v.sink # "disconnected" => Good(down))
  BY HeadsetDownWeak
<1>2. u = IF v.sink # "disconnected" /\ Leaving(v) THEN sink_shutdown(down, how)
          ELSE IF v.sink = "disconnected" THEN device_set_state(down, "disconnected")
          ELSE IF v.hs = "connecting" /\ v.sink \in Up THEN device_set_state(down, "connected")
          ELSE down
  BY DEF device_headset_cb
<1> HIDE DEF u, down
<1>3. CASE v.sink # "disconnected" /\ Leaving(v)
  BY <1>1, <1>2, <1>3, SinkShutdownGood DEF Falls
<1>4. CASE v.sink = "disconnected"
  <2>1. Good(device_set_state(down, "disconnected"))
    BY <1>1, <1>4, SetStateGood DEF States
  <2>2. device_set_state(down, "disconnected").state = "disconnected"
    BY <1>1, SetStateFields DEF States, Weak
  <2> QED
    BY <1>2, <1>4, <2>1, <2>2 DEF Falls
<1>5. CASE v.sink # "disconnected" /\ ~Leaving(v) /\ v.hs = "connecting" /\ v.sink \in Up
  <2>1. v.dc_id /\ v.state # "disconnected"
    BY <1>5 DEF Good, Link, Fits
  <2>2. Good(device_set_state(down, "connected"))
    BY <1>1, <1>5, <2>1, SetStateGood DEF States
  <2>3. device_set_state(down, "connected").state = "connected"
    BY <1>1, SetStateFields DEF States, Weak
  <2> QED
    BY <1>2, <1>5, <2>1, <2>2, <2>3 DEF Falls
<1>6. CASE v.sink # "disconnected" /\ ~Leaving(v) /\ ~(v.hs = "connecting" /\ v.sink \in Up)
  BY <1>1, <1>2, <1>6 DEF Falls
<1> QED
  BY <1>3, <1>4, <1>5, <1>6

LEMMA SinkLost ==
  ASSUME NEW v, Good(v)
  PROVE  LET u == device_sink_cb(v, "disconnected")
         IN  /\ Good(u) /\ Falls(v, u)
             /\ v.hs \notin Up => u.state \in {v.state, "disconnected"}
<1> DEFINE down == SinkDown(v)
           u == device_sink_cb(v, "disconnected")
<1> SUFFICES /\ Good(u) /\ Falls(v, u)
             /\ v.hs \notin Up => u.state \in {v.state, "disconnected"}
  OBVIOUS
<1>1. /\ Weak(down) /\ down.sink = "disconnected" /\ down.hs = v.hs /\ down.state = v.state
      /\ (down.dc_id <=> v.dc_id) /\ (v.hs # "disconnected" => Good(down))
  BY SinkDownWeak
<1>2. u = IF v.hs # "disconnected" /\ Leaving(v) THEN headset_shutdown(down)
          ELSE IF v.hs = "disconnected" THEN device_set_state(down, "disconnected")
          ELSE IF v.sink = "connecting" /\ v.hs \in Up THEN device_set_state(down, "connected")
          ELSE down
  BY DEF device_sink_cb
<1> HIDE DEF u, down
<1>3. CASE v.hs # "disconnected" /\ Leaving(v)
  BY <1>1, <1>2, <1>3, HeadsetShutdownGood DEF Falls
<1>4. CASE v.hs = "disconnected"
  <2>1. Good(device_set_state(down, "disconnected"))
    BY <1>1, <1>4, SetStateGood DEF States
  <2>2. device_set_state(down, "disconnected").state = "disconnected"
    BY <1>1, SetStateFields DEF States, Weak
  <2> QED
    BY <1>2, <1>4, <2>1, <2>2 DEF Falls
<1>5. CASE v.hs # "disconnected" /\ ~Leaving(v) /\ v.sink = "connecting" /\ v.hs \in Up
  <2>1. v.dc_id /\ v.state # "disconnected"
    BY <1>5 DEF Good, Link, Fits
  <2>2. Good(device_set_state(down, "connected"))
    BY <1>1, <1>5, <2>1, SetStateGood DEF States
  <2>3. device_set_state(down, "connected").state = "connected"
    BY <1>1, SetStateFields DEF States, Weak
  <2> QED
    BY <1>2, <1>5, <2>1, <2>2, <2>3 DEF Falls
<1>6. CASE v.hs # "disconnected" /\ ~Leaving(v) /\ ~(v.sink = "connecting" /\ v.hs \in Up)
  BY <1>1, <1>2, <1>6 DEF Falls
<1> QED
  BY <1>3, <1>4, <1>5, <1>6

\* A service that connects makes a disconnected device connecting, and no other.
LEMMA HeadsetConnecting ==
  ASSUME NEW v, NEW how \in Hows, Good(v), v.hs = "disconnected"
  PROVE  LET u == device_headset_cb(v, "connecting", how)
         IN  Good(u) /\ Rises(v, u) /\ u.hs = "connecting" /\ u.sink = v.sink /\ u.auths = v.auths
<1> DEFINE w == [[v EXCEPT !.hs = "connecting"] EXCEPT !.headset_timer = FALSE]
           u == device_headset_cb(v, "connecting", how)
<1> SUFFICES Good(u) /\ Rises(v, u) /\ u.hs = "connecting" /\ u.sink = v.sink /\ u.auths = v.auths
  OBVIOUS
<1>1. /\ Weak(w) /\ w.hs = "connecting" /\ w.sink = v.sink /\ w.state = v.state
      /\ (w.dc_id <=> v.dc_id) /\ (w.authorized <=> v.authorized)
  BY GoodWeak, HeadsetNew
<1>2. w.auths = v.auths
  BY DEF Good, Typed, IsWorld, Fields
<1>3. u = IF v.sink = "disconnected" THEN device_set_state(w, "connecting") ELSE w
  BY DEF device_headset_cb
<1> HIDE DEF u, w
<1>4. CASE v.sink = "disconnected"
  <2>1. v.state = "disconnected" /\ ~v.dc_id
    BY <1>4 DEF Good, Fits, Link
  <2>2. Good(device_set_state(w, "connecting"))
    BY <1>1, <2>1, SetStateGood DEF States
  <2>3. /\ device_set_state(w, "connecting").state = "connecting"
        /\ device_set_state(w, "connecting").hs = "connecting"
        /\ device_set_state(w, "connecting").sink = w.sink
        /\ device_set_state(w, "connecting").auths = w.auths
    BY <1>1, SetStateFields DEF States, Weak
  <2> QED
    BY <1>1, <1>2, <1>3, <1>4, <2>1, <2>2, <2>3 DEF Rises
<1>5. CASE v.sink # "disconnected"
  <2>1. Good(w)
    BY <1>1, <1>5 DEF Good, Weak, Fits, Link
  <2> QED
    BY <1>1, <1>2, <1>3, <1>5, <2>1 DEF Rises
<1> QED
  BY <1>4, <1>5

LEMMA SinkConnecting ==
  ASSUME NEW v, Good(v), v.sink = "disconnected", "sink" \in Has
  PROVE  LET u == device_sink_cb(v, "connecting")
         IN  Good(u) /\ Rises(v, u) /\ u.sink = "connecting" /\ u.hs = v.hs /\ u.auths = v.auths
<1> DEFINE w == [[v EXCEPT !.sink = "connecting"] EXCEPT !.avdtp_timer = FALSE]
           u == device_sink_cb(v, "connecting")
<1> SUFFICES Good(u) /\ Rises(v, u) /\ u.sink = "connecting" /\ u.hs = v.hs /\ u.auths = v.auths
  OBVIOUS
<1>1. /\ Weak(w) /\ w.sink = "connecting" /\ w.hs = v.hs /\ w.state = v.state
      /\ (w.dc_id <=> v.dc_id) /\ (w.authorized <=> v.authorized)
  BY GoodWeak, SinkNew
<1>2. w.auths = v.auths
  BY DEF Good, Typed, IsWorld, Fields
<1>3. u = IF v.hs = "disconnected" THEN device_set_state(w, "connecting") ELSE w
  BY DEF device_sink_cb
<1> HIDE DEF u, w
<1>4. CASE v.hs = "disconnected"
  <2>1. v.state = "disconnected" /\ ~v.dc_id
    BY <1>4 DEF Good, Fits, Link
  <2>2. Good(device_set_state(w, "connecting"))
    BY <1>1, <2>1, SetStateGood DEF States
  <2>3. /\ device_set_state(w, "connecting").state = "connecting"
        /\ device_set_state(w, "connecting").sink = "connecting"
        /\ device_set_state(w, "connecting").hs = w.hs
        /\ device_set_state(w, "connecting").auths = w.auths
    BY <1>1, SetStateFields DEF States, Weak
  <2> QED
    BY <1>1, <1>2, <1>3, <1>4, <2>1, <2>2, <2>3 DEF Rises
<1>5. CASE v.hs # "disconnected"
  <2>1. Good(w)
    BY <1>1, <1>5 DEF Good, Weak, Fits, Link
  <2> QED
    BY <1>1, <1>2, <1>3, <1>5, <2>1 DEF Rises
<1> QED
  BY <1>4, <1>5

\* A service that is up, or closes: the device may become connected.
LEMMA UpGood ==
  ASSUME NEW v, NEW w, Good(v), Weak(w), v.state # "disconnected",
         w.hs # "disconnected" \/ w.sink # "disconnected", w.state = v.state,
         w.dc_id <=> v.dc_id, w.authorized <=> v.authorized
  PROVE  /\ Good(w) /\ Falls(v, w)
         /\ Good(device_set_state(w, "connected")) /\ Falls(v, device_set_state(w, "connected"))
<1>1. v.dc_id
  BY DEF Good, Link
<1>2. Good(device_set_state(w, "connected"))
  BY <1>1, SetStateGood DEF States
<1>3. device_set_state(w, "connected").state = "connected"
  BY SetStateFields DEF States, Weak
<1>4. Good(w)
  BY <1>1 DEF Good, Weak, Fits, Link
<1> QED
  BY <1>2, <1>3, <1>4 DEF Falls

LEMMA HeadsetUp ==
  ASSUME NEW v, NEW new \in Up, NEW how \in Hows, Good(v), v.hs # "disconnected",
         "headset" \notin v.auths
  PROVE  LET u == device_headset_cb(v, new, how)
         IN  Good(u) /\ Falls(v, u)
<1> DEFINE w == [v EXCEPT !.hs = new]
           t == [w EXCEPT !.avdtp_timer = TRUE]
           u == device_headset_cb(v, new, how)
<1> SUFFICES Good(u) /\ Falls(v, u)
  OBVIOUS
<1>1. /\ Weak(w) /\ w.hs = new /\ w.sink = v.sink /\ w.state = v.state
      /\ (w.dc_id <=> v.dc_id) /\ (w.authorized <=> v.authorized)
  BY GoodWeak, HeadsetNew
<1>2. v.state # "disconnected" /\ new # "disconnected" /\ new # "connecting"
  BY DEF Good, Fits, Up
<1>3. u \in {w, device_set_state(w, "connected")} \/ ("sink" \in Has /\ u = t)
  <2>1. CASE new = "connected" /\ v.hs \notin Up
    BY <2>1 DEF device_headset_cb
  <2>2. CASE ~(new = "connected" /\ v.hs \notin Up)
    BY <1>2, <2>2 DEF device_headset_cb
  <2> QED
    BY <2>1, <2>2
<1>4. /\ Good(w) /\ Falls(v, w)
      /\ Good(device_set_state(w, "connected")) /\ Falls(v, device_set_state(w, "connected"))
  BY <1>1, <1>2, UpGood
<1>5. ASSUME "sink" \in Has
      PROVE  Good(t) /\ Falls(v, t)
  <2>1. IsWorld(w)
    BY <1>4 DEF Good, Typed
  <2> HIDE DEF w
  <2>2. /\ IsWorld(t) /\ t.avdtp_timer
        /\ \A f \in Fields \ {"avdtp_timer"} : t[f] = w[f]
    BY <2>1 DEF IsWorld, Fields
  <2>3. t.avdtp_timer \in BOOLEAN
    BY <2>1 DEF IsWorld, Fields
  <2> HIDE DEF t
  <2> QED
    BY <1>4, <1>5, <2>2, <2>3 DEF Good, Typed, Fits, Link, Auth, Falls, Fields
<1> HIDE DEF u, w, t
<1> QED
  BY <1>3, <1>4, <1>5

LEMMA SinkUp ==
  ASSUME NEW v, NEW new \in Up \cup {"disconnecting"}, Good(v), v.sink # "disconnected",
         "sink" \notin v.auths, ~v.retry
  PROVE  LET u == device_sink_cb(v, new)
         IN  Good(u) /\ Falls(v, u)
<1> DEFINE w == [v EXCEPT !.sink = new]
           t == [w EXCEPT !.headset_timer = TRUE]
           u == device_sink_cb(v, new)
<1> SUFFICES Good(u) /\ Falls(v, u)
  OBVIOUS
<1>1. /\ Weak(w) /\ w.sink = new /\ w.hs = v.hs /\ w.state = v.state
      /\ (w.dc_id <=> v.dc_id) /\ (w.authorized <=> v.authorized)
  <2>1. "sink" \in Has
    BY DEF Good, Fits
  <2>2. Weak(v) /\ new \in {"connecting", "disconnecting"} \cup Up
    BY GoodWeak
  <2> QED
    BY <2>1, <2>2, SinkNew
<1>2. v.state # "disconnected" /\ new # "disconnected" /\ new # "connecting"
  BY DEF Good, Fits, Up
<1>3. u \in {w, t, device_set_state(w, "connected")}
  <2>1. CASE new = "connected" /\ v.sink # "playing"
    BY <2>1 DEF device_sink_cb
  <2>2. CASE ~(new = "connected" /\ v.sink # "playing")
    BY <1>2, <2>2 DEF device_sink_cb
  <2> QED
    BY <2>1, <2>2
<1>4. /\ Good(w) /\ Falls(v, w)
      /\ Good(device_set_state(w, "connected")) /\ Falls(v, device_set_state(w, "connected"))
  BY <1>1, <1>2, UpGood
<1>5. Good(t) /\ Falls(v, t)
  <2>1. IsWorld(w)
    BY <1>4 DEF Good, Typed
  <2> HIDE DEF w
  <2>2. IsWorld(t) /\ \A f \in Fields \ {"headset_timer"} : t[f] = w[f]
    BY <2>1 DEF IsWorld, Fields
  <2> HIDE DEF t
  <2> QED
    BY <1>4, <2>2 DEF Good, Typed, Fits, Link, Auth, Falls, Fields
<1> HIDE DEF u, w, t
<1> QED
  BY <1>3, <1>4, <1>5

-----------------------------------------------------------------------------
(* The actions.                                                            *)

\* A difference that the invariant does not see: other fields, or a timer that is off.
Same(u, v) == /\ IsWorld(u)
              /\ \A f \in {"state", "hs", "sink", "authorized", "dc_id", "lost", "auths",
                           "idle", "asked", "retry", "control"} : u[f] = v[f]
              /\ u.avdtp_timer \in BOOLEAN /\ (u.avdtp_timer => v.avdtp_timer)

LEMMA SameGood ==
  ASSUME NEW u, NEW v, Same(u, v), Good(v)
  PROVE  Good(u) /\ u.state = v.state /\ u.hs = v.hs /\ u.sink = v.sink /\ u.auths = v.auths
  BY DEF Same, Good, Typed, Fits, Link, Auth

LEMMA HeadsetConnectsGood ==
  ASSUME NEW v, NEW ok \in BOOLEAN, Good(v)
  PROVE  LET u == HeadsetConnects(v, ok)
         IN  Good(u) /\ Rises(v, u) /\ u.sink = v.sink
  BY HeadsetConnecting DEF HeadsetConnects, Rises, Hows

LEMMA SinkConnectsGood ==
  ASSUME NEW v, NEW ok \in BOOLEAN, Good(v), "sink" \in Has
  PROVE  LET u == SinkConnects(v, ok)
         IN  Good(u) /\ Rises(v, u)
  BY SinkConnecting DEF SinkConnects, Rises

\* A step of the device: the invariant is kept and the state moves as documented.
Step == Good(d') /\ (Falls(d, d') \/ Rises(d, d'))

LEMMA HeadsetEventStep ==
  ASSUME IInv, HeadsetEvent
  PROVE  Step
<1>1. PICK new \in {"connected", "playing", "disconnected"}, how \in Hows :
        /\ Authorized("headset") \/ new = "disconnected"
        /\ new \in Moves(d.hs, "disconnected") /\ d' = device_headset_cb(d, new, how)
  BY DEF HeadsetEvent, HeadsetMoves
<1>2. CASE new = "disconnected"
  BY <1>1, <1>2, HeadsetLost DEF IInv, Step
<1>3. CASE new # "disconnected"
  <2>1. d.hs # "disconnected"
    BY <1>1 DEF Moves
  <2>2. new \in Up /\ "headset" \notin d.auths
    BY <1>1, <1>3 DEF Up, Authorized
  <2> QED
    BY <1>1, <2>1, <2>2, HeadsetUp DEF IInv, Step
<1> QED
  BY <1>2, <1>3

LEMMA SinkEventStep ==
  ASSUME IInv, SinkEvent
  PROVE  Step
<1>1. PICK new \in {"connected", "playing", "disconnecting", "disconnected"} :
        /\ Authorized("sink") \/ new = "disconnected"
        /\ new \in Moves(d.sink, "disconnecting") /\ d' = device_sink_cb(d, new)
  BY DEF SinkEvent, SinkMoves
<1>2. CASE new = "disconnected"
  BY <1>1, <1>2, SinkLost DEF IInv, Step
<1>3. CASE new # "disconnected"
  <2>1. d.sink # "disconnected"
    BY <1>1 DEF Moves
  <2>2. new \in Up \cup {"disconnecting"} /\ "sink" \notin d.auths /\ ~d.retry
    BY <1>1, <1>3 DEF Up, Authorized
  <2> QED
    BY <1>1, <2>1, <2>2, SinkUp DEF IInv, Step
<1> QED
  BY <1>2, <1>3

LEMMA TimersStep ==
  ASSUME IInv, Timers
  PROVE  Step
<1>0. PICK ok \in BOOLEAN : avdtp_connect_timeout(ok) \/ headset_connect_timeout(ok)
  BY DEF Timers
<1>1. CASE avdtp_connect_timeout(ok)
  <2> DEFINE v == [d EXCEPT !.avdtp_timer = FALSE]
  <2>1. Same(v, d)
    BY DEF IInv, Good, Typed, Same, IsWorld, Fields
  <2>2. "sink" \in Has
    BY <1>1 DEF avdtp_connect_timeout, IInv, Good, Fits
  <2>3. d' = SinkConnects(v, ok)
    BY <1>1 DEF avdtp_connect_timeout
  <2> HIDE DEF v
  <2>4. Good(v) /\ v.state = d.state
    BY <2>1, SameGood DEF IInv
  <2> QED
    BY <2>2, <2>3, <2>4, SinkConnectsGood DEF Step, Rises
<1>2. CASE headset_connect_timeout(ok)
  <2> DEFINE v == [d EXCEPT !.headset_timer = FALSE]
             u == HeadsetConnects(v, ok)
  <2>1. Same(v, d)
    BY DEF IInv, Good, Typed, Same, IsWorld, Fields
  <2>2. d' = IF u.state # "connected" /\ u.sink \in Up THEN device_set_state(u, "connected") ELSE u
    BY <1>2 DEF headset_connect_timeout
  <2> HIDE DEF v
  <2>3. Good(v) /\ v.state = d.state /\ v.sink = d.sink
    BY <2>1, SameGood DEF IInv
  <2>4. Good(u) /\ Rises(v, u) /\ u.sink = v.sink
    BY <2>3, HeadsetConnectsGood
  <2> HIDE DEF u
  <2>5. CASE u.state # "connected" /\ u.sink \in Up
    <3>1. d.state # "disconnected" /\ u.state # "disconnected"
      BY <2>3, <2>4, <2>5 DEF IInv, Good, Fits, Up
    <3>2. u.hs # "disconnected" \/ u.sink # "disconnected"
      BY <2>5 DEF Up
    <3>3. Good(device_set_state(u, "connected")) /\ Falls(u, device_set_state(u, "connected"))
      BY <2>4, <3>1, <3>2, GoodWeak, UpGood
    <3>4. u.state = d.state
      BY <2>3, <2>4, <3>1 DEF Rises
    <3> QED
      BY <2>2, <2>5, <3>3, <3>4 DEF Step, Falls
  <2>6. CASE ~(u.state # "connected" /\ u.sink \in Up)
    BY <2>2, <2>3, <2>4, <2>6 DEF Step, Rises
  <2> QED
    BY <2>5, <2>6
<1> QED
  BY <1>0, <1>1, <1>2

LEMMA ConnectStep ==
  ASSUME IInv, NEW hs \in BOOLEAN, NEW sink \in BOOLEAN, dev_connect(hs, sink)
  PROVE  Step
<1> DEFINE v == [d EXCEPT !.auto_connect = TRUE]
           u == IF "headset" \in Has THEN HeadsetConnects(v, hs) ELSE v
           w == IF u.state # "connecting" /\ "sink" \in Has THEN SinkConnects(u, sink) ELSE u
           r == [w EXCEPT !.conn_req = w.state = "connecting"]
<1>1. d.state = "disconnected" /\ d' = r
  BY DEF dev_connect
<1>2. Same(v, d)
  BY DEF IInv, Good, Typed, Same, IsWorld, Fields
<1> HIDE DEF v
<1>3. Good(v) /\ v.state = d.state
  BY <1>2, SameGood DEF IInv
<1>4. Good(u) /\ Rises(v, u)
  BY <1>3, HeadsetConnectsGood DEF Rises
<1> HIDE DEF u
<1>5. Good(w) /\ Rises(d, w)
  BY <1>1, <1>3, <1>4, SinkConnectsGood DEF Rises
<1> HIDE DEF w
<1>6. Same(r, w)
  BY <1>5 DEF Good, Typed, Same, IsWorld, Fields
<1> HIDE DEF r
<1> QED
  BY <1>1, <1>5, <1>6, SameGood DEF Step, Rises

\* Disconnect, and the watch on the link.
LEMMA ShutDownGood ==
  ASSUME NEW v, NEW how \in Hows, Good(v)
  PROVE  Good(ShutDown(v, how)) /\ Falls(v, ShutDown(v, how))
<1>1. CASE v.sink # "disconnected" /\ how = "now"
  BY <1>1, SinkLost DEF ShutDown
<1>2. CASE v.sink # "disconnected" /\ how = "later"
  BY <1>2, ClosingGood DEF ShutDown, sink_shutdown, Falls
<1>3. CASE v.sink # "disconnected" /\ how = "never"
  BY <1>3 DEF ShutDown, sink_shutdown, Falls
<1>4. CASE v.sink = "disconnected" /\ v.hs # "disconnected"
  BY <1>4, HeadsetShutdownGood DEF ShutDown, Falls
<1>5. CASE v.sink = "disconnected" /\ v.hs = "disconnected"
  <2> DEFINE u == [v EXCEPT !.dc_req = FALSE, !.disconnecting = FALSE]
  <2>1. Same(u, v)
    BY DEF Good, Typed, Same, IsWorld, Fields
  <2> HIDE DEF u
  <2>2. Good(u) /\ u.state = v.state
    BY <2>1, SameGood
  <2> QED
    BY <1>5, <2>2 DEF u, ShutDown, Falls
<1> QED
  BY <1>1, <1>2, <1>3, <1>4, <1>5 DEF Hows

\* The control channel of a connected device goes first.
LEMMA ShutDownStep ==
  ASSUME NEW v, NEW how \in Hows, IInv, Same(v, d), d.state # "disconnected",
         d' = ShutDown(ControlDown(v), how)
  PROVE  Step
<1> DEFINE u == ControlDown(v)
<1>1. Good(v) /\ v.state = d.state
  BY SameGood DEF IInv
<1>2. Good(u) /\ u.state = d.state
  BY <1>1, GoodWeak, ControlDownWeak
<1>3. d' = ShutDown(u, how)
  OBVIOUS
<1> HIDE DEF u
<1> QED
  BY <1>2, <1>3, ShutDownGood DEF Step, Falls

LEMMA DisconnectStep ==
  ASSUME IInv, NEW how \in Hows, dev_disconnect(how) \/ disconnect_cb(how)
  PROVE  Step
<1>1. CASE dev_disconnect(how)
  <2> DEFINE v == [d EXCEPT !.dc_req = TRUE, !.control_timer = FALSE]
  <2>1. Same(v, d)
    BY DEF IInv, Good, Typed, Same, IsWorld, Fields
  <2>2. d.state # "disconnected" /\ d' = ShutDown(ControlDown(v), how)
    BY <1>1 DEF dev_disconnect
  <2> HIDE DEF v
  <2> QED
    BY <2>1, <2>2, ShutDownStep
<1>2. CASE disconnect_cb(how)
  <2> DEFINE v == [d EXCEPT !.disconnecting = TRUE, !.control_timer = FALSE,
                            !.avdtp_timer = FALSE, !.headset_timer = FALSE]
  <2>1. Same(v, d)
    BY DEF IInv, Good, Typed, Same, IsWorld, Fields
  <2>2. d.state # "disconnected" /\ d' = ShutDown(ControlDown(v), how)
    BY <1>2 DEF disconnect_cb
  <2> HIDE DEF v
  <2> QED
    BY <2>1, <2>2, ShutDownStep
<1> QED
  BY <1>1, <1>2

\* The control channel.
LEMMA ControlConnectingGood ==
  ASSUME NEW v, Good(v)
  PROVE  LET u == ControlConnecting(v)
         IN  /\ Good(u) /\ u.state = v.state /\ u.auths = v.auths
             /\ (u.authorized <=> v.authorized)
             /\ v.control = "disconnected" => u.control = "connecting"
<1> DEFINE u == [v EXCEPT !.control = "connecting", !.control_timer = FALSE]
<1>1. CASE v.control = "disconnected"
  <2>1. /\ IsWorld(u) /\ u.control = "connecting"
        /\ \A f \in Fields \ {"control", "control_timer"} : u[f] = v[f]
    BY DEF Good, Typed, IsWorld, Fields
  <2>2. ControlConnecting(v) = u
    BY <1>1 DEF ControlConnecting
  <2> HIDE DEF u
  <2>3. Good(u)
    BY <1>1, <2>1 DEF Good, Typed, Fits, Link, Auth, Fields
  <2> QED
    BY <2>1, <2>2, <2>3 DEF Fields
<1>2. CASE v.control # "disconnected"
  BY <1>2 DEF ControlConnecting
<1> QED
  BY <1>1, <1>2

LEMMA ControlStep ==
  ASSUME IInv, ControlEvent
  PROVE  Step
<1>0. Good(d)
  BY DEF IInv
<1>1. CASE control_connect_timeout
  <2> DEFINE v == [d EXCEPT !.control_timer = FALSE]
  <2>1. Same(v, d)
    BY DEF IInv, Good, Typed, Same, IsWorld, Fields
  <2>2. d' = ControlConnecting(v)
    BY <1>1 DEF control_connect_timeout
  <2> HIDE DEF v
  <2> QED
    BY <1>0, <2>1, <2>2, SameGood, ControlConnectingGood DEF Step, Rises
<1>2. ASSUME NEW later \in BOOLEAN, device_avdtp_cb(later)
      PROVE  Step
  <2> DEFINE v == [d EXCEPT !.control_timer = TRUE]
  <2>1. Same(v, d)
    BY DEF IInv, Good, Typed, Same, IsWorld, Fields
  <2>2. d' = v \/ d' = ControlConnecting(d)
    BY <1>2 DEF device_avdtp_cb
  <2> HIDE DEF v
  <2> QED
    BY <1>0, <2>1, <2>2, SameGood, ControlConnectingGood DEF Step, Rises
<1>3. ASSUME ControlMoves(TRUE)
      PROVE  Step
  <2> DEFINE v == [d EXCEPT !.control = "connected"]
  <2>1. d' = v /\ "control" \notin d.auths
    BY <1>3 DEF ControlMoves
  <2>2. IsWorld(v) /\ v.control = "connected" /\ \A f \in Fields \ {"control"} : v[f] = d[f]
    BY DEF IInv, Good, Typed, IsWorld, Fields
  <2> HIDE DEF v
  <2>3. Good(v) /\ v.state = d.state
    BY <1>0, <2>1, <2>2 DEF Good, Typed, Fits, Link, Auth, Fields
  <2> QED
    BY <2>1, <2>3 DEF Step, Rises
<1>4. ASSUME ControlMoves(FALSE)
      PROVE  Step
  <2>1. d' = ControlDown(d) /\ (~d.authorized \/ d.control # "connecting" \/ Kept)
    BY <1>4 DEF ControlMoves, Kept
  <2> QED
    BY <1>0, <2>1, GoodWeak, ControlDownWeak DEF Step, Rises
<1> QED
  BY <1>1, <1>2, <1>3, <1>4 DEF ControlEvent

LEMMA ServiceConnectStep ==
  ASSUME IInv, NEW s \in Services, NEW ok \in BOOLEAN, ServiceConnect(s, ok)
  PROVE  Step
<1> DEFINE v == IF s = "headset" THEN HeadsetConnects(d, ok) ELSE SinkConnects(d, ok)
           r == [v EXCEPT !.auto_connect = v.auto_connect /\ ~ok /\ s # "headset"]
<1>1. d' = r
  BY DEF ServiceConnect
<1>2. s # "headset" => "sink" \in Has
  BY DEF Services
<1>3. Good(v) /\ Rises(d, v)
  BY <1>2, HeadsetConnectsGood, SinkConnectsGood DEF IInv
<1> HIDE DEF v
<1>4. Same(r, v)
  BY <1>3 DEF Good, Typed, Same, IsWorld, Fields
<1> HIDE DEF r
<1> QED
  BY <1>1, <1>3, <1>4, SameGood DEF Step, Rises

LEMMA MethodsStep ==
  ASSUME IInv, Methods
  PROVE  Step
  BY ConnectStep, DisconnectStep, ServiceConnectStep DEF Methods

-----------------------------------------------------------------------------
(* Authorization.                                                          *)

\* A service that may wait for authorization.
Waits(v, s) == /\ s \in Has
               /\ s = "headset" => v.hs = "connecting"
               /\ s = "sink" => v.sink = "connecting"
               /\ s = "control" => v.control = "connecting"

\* A service joins those that wait, and somebody will answer.
LEMMA JoinedGood ==
  ASSUME NEW u, NEW v, NEW s, Good(v), Waits(v, s),
         IsWorld(u), u.auths = v.auths \cup {s},
         u.idle \in BOOLEAN, u.asked \in BOOLEAN, u.retry \in BOOLEAN,
         u.idle \/ u.asked, u.asked => ~v.authorized, u.retry => v.retry,
         \A f \in Fields \ {"auths", "idle", "asked", "retry"} : u[f] = v[f]
  PROVE  Good(u)
<1>1. u.auths \subseteq Has /\ u.auths # {}
  BY DEF Good, Auth, Waits
<1>2. Auth(u)
  BY <1>1 DEF Good, Auth, Waits, Fields
<1>3. Typed(u) /\ Fits(u) /\ Link(u)
  BY DEF Good, Typed, Fits, Link, Fields
<1> QED
  BY <1>2, <1>3 DEF Good

LEMMA RefusedGood ==
  ASSUME NEW v, NEW s \in {"headset", "sink", "control", "gateway"}, Good(v), ~v.authorized
  PROVE  Good(Refused(v, s)) /\ Falls(v, Refused(v, s))
<1>1. CASE s = "headset"
  BY <1>1, HeadsetLost DEF Refused, ServiceCb, Hows
<1>2. CASE s = "sink"
  BY <1>2, SinkLost DEF Refused, ServiceCb
<1>3. CASE s = "control"
  BY <1>3, GoodWeak, ControlDownWeak DEF Refused, Falls
<1>4. CASE s = "gateway"
  BY <1>4 DEF Refused, Falls
<1> QED
  BY <1>1, <1>2, <1>3, <1>4

LEMMA RequestGood ==
  ASSUME NEW v, NEW s, NEW answer \in Answers, Good(v), Waits(v, s)
  PROVE  LET u == audio_device_request_authorization(v, s, answer)
         IN  Good(u) /\ u.state \in {v.state, "disconnected"}
<1> DEFINE joined == [v EXCEPT !.auths = v.auths \cup {s}, !.retry = v.retry /\ s # "sink"]
           now == [joined EXCEPT !.idle = TRUE]
           later == [joined EXCEPT !.asked = TRUE]
           again == [v EXCEPT !.retry = TRUE]
           known == v.authorized \/ v.hs \in Up \/ v.sink \in Up
           u == audio_device_request_authorization(v, s, answer)
<1> SUFFICES Good(u) /\ u.state \in {v.state, "disconnected"}
  OBVIOUS
<1>1. u = IF v.auths # {} THEN joined
          ELSE IF known THEN now
          ELSE IF answer = "asked" THEN later
          ELSE IF answer = "busy" /\ s = "sink" THEN again
          ELSE Refused(v, s)
  BY DEF audio_device_request_authorization
<1> HIDE DEF u
<1>2. /\ IsWorld(v) /\ v.idle \in BOOLEAN /\ v.asked \in BOOLEAN /\ v.retry \in BOOLEAN
      /\ v.asked => ~v.authorized
  BY DEF Good, Typed, Auth
<1>3. /\ IsWorld(joined) /\ joined.auths = v.auths \cup {s}
      /\ joined.retry \in BOOLEAN /\ (joined.retry => v.retry)
      /\ \A f \in Fields \ {"auths", "retry"} : joined[f] = v[f]
  BY <1>2 DEF IsWorld, Fields
<1> HIDE DEF joined
<1>4. CASE v.auths # {}
  <2>1. joined.idle \/ joined.asked
    BY <1>3, <1>4 DEF Good, Auth, Fields
  <2>2. Good(joined) /\ joined.state = v.state
    BY <1>2, <1>3, <2>1, JoinedGood DEF Fields
  <2> QED
    BY <1>1, <1>4, <2>2
<1>5. CASE v.auths = {} /\ known
  <2>1. /\ IsWorld(now) /\ now.auths = v.auths \cup {s} /\ now.idle
        /\ now.idle \in BOOLEAN
        /\ \A f \in Fields \ {"auths", "idle", "retry"} : now[f] = v[f]
        /\ now.retry = joined.retry
    BY <1>3 DEF IsWorld, Fields
  <2> HIDE DEF now
  <2>2. ~v.asked
    BY <1>5 DEF Good, Auth
  <2>3. Good(now) /\ now.state = v.state
    BY <1>2, <1>3, <2>1, <2>2, JoinedGood DEF Fields
  <2> QED
    BY <1>1, <1>5, <2>3
<1>6. CASE v.auths = {} /\ ~known /\ answer = "asked"
  <2>1. /\ IsWorld(later) /\ later.auths = v.auths \cup {s} /\ later.asked
        /\ later.asked \in BOOLEAN
        /\ \A f \in Fields \ {"auths", "asked", "retry"} : later[f] = v[f]
        /\ later.retry = joined.retry
    BY <1>3 DEF IsWorld, Fields
  <2> HIDE DEF later
  <2>2. Good(later) /\ later.state = v.state
    BY <1>2, <1>3, <1>6, <2>1, JoinedGood DEF Fields
  <2> QED
    BY <1>1, <1>6, <2>2
<1>7. CASE v.auths = {} /\ ~known /\ answer = "busy" /\ s = "sink"
  <2>1. IsWorld(again) /\ \A f \in Fields \ {"retry"} : again[f] = v[f]
    BY <1>2 DEF IsWorld, Fields
  <2>2. again.retry \in BOOLEAN
    BY <1>2 DEF IsWorld, Fields
  <2> HIDE DEF again
  <2>3. Good(again) /\ again.state = v.state
    BY <1>7, <2>1, <2>2 DEF Good, Typed, Fits, Link, Auth, Waits, Fields
  <2> QED
    BY <1>1, <1>7, <2>3
<1>8. CASE v.auths = {} /\ ~known /\ answer # "asked" /\ ~(answer = "busy" /\ s = "sink")
  <2>1. u = Refused(v, s)
    BY <1>1, <1>8
  <2>2. Good(u) /\ u.state \in {v.state, "disconnected"}
    <3>1. CASE s = "headset"
      BY <1>8, <2>1, <3>1, HeadsetLost DEF Refused, ServiceCb, Hows
    <3>2. CASE s = "sink"
      BY <1>8, <2>1, <3>2, SinkLost DEF Refused, ServiceCb
    <3>3. CASE s = "control"
      BY <1>8, <2>1, <3>3, GoodWeak, ControlDownWeak DEF Refused
    <3>4. CASE s = "gateway"
      BY <2>1, <3>4 DEF Refused
    <3> QED
      BY <3>1, <3>2, <3>3, <3>4, HasAssumption DEF Waits
  <2> QED
    BY <2>2
<1> QED
  BY <1>4, <1>5, <1>6, <1>7, <1>8

LEMMA AsksGood ==
  ASSUME NEW v, NEW s, NEW answer \in Answers, Good(v), Waits(v, s)
  PROVE  Good(Asks(v, s, answer)) /\ Asks(v, s, answer).state \in {v.state, "disconnected"}
<1> DEFINE u == audio_device_request_authorization(v, s, answer)
           r == [u EXCEPT !.auto_connect = IF s \in u.auths \cap {"headset", "sink"}
                                           THEN AutoConnect ELSE u.auto_connect]
<1>1. Good(u) /\ u.state \in {v.state, "disconnected"}
  BY RequestGood
<1>2. Asks(v, s, answer) = r
  BY DEF Asks
<1> HIDE DEF u
<1>3. Same(r, u)
  BY <1>1 DEF Good, Typed, Same, IsWorld, Fields
<1> HIDE DEF r
<1> QED
  BY <1>1, <1>2, <1>3, SameGood

LEMMA IncomingStep ==
  ASSUME IInv, NEW s \in Has, NEW answer \in Answers, Incoming(s, answer)
  PROVE  Step
<1>1. CASE s = "headset"
  <2>1. d.hs = "disconnected" /\ d' = Asks(device_headset_cb(d, "connecting", "never"), s, answer)
    BY <1>1 DEF Incoming, State, ServiceCb
  <2> DEFINE c == device_headset_cb(d, "connecting", "never")
  <2>2. Good(c) /\ Rises(d, c) /\ c.hs = "connecting"
    BY <2>1, HeadsetConnecting DEF IInv, Hows
  <2> HIDE DEF c
  <2>3. Good(Asks(c, s, answer)) /\ Asks(c, s, answer).state \in {c.state, "disconnected"}
    BY <1>1, <2>2, AsksGood DEF Waits
  <2> QED
    BY <2>1, <2>2, <2>3 DEF c, Step, Rises, Falls
<1>2. CASE s = "sink"
  <2>1. d.sink = "disconnected" /\ d' = Asks(device_sink_cb(d, "connecting"), s, answer)
    BY <1>2 DEF Incoming, State, ServiceCb
  <2> DEFINE c == device_sink_cb(d, "connecting")
  <2>2. Good(c) /\ Rises(d, c) /\ c.sink = "connecting"
    BY <1>2, <2>1, SinkConnecting DEF IInv
  <2> HIDE DEF c
  <2>3. Good(Asks(c, s, answer)) /\ Asks(c, s, answer).state \in {c.state, "disconnected"}
    BY <1>2, <2>2, AsksGood DEF Waits
  <2> QED
    BY <2>1, <2>2, <2>3 DEF c, Step, Rises, Falls
<1>3. CASE s = "control"
  <2>1. d.control = "disconnected" /\ d' = Asks(ControlConnecting(d), s, answer)
    BY <1>3 DEF Incoming
  <2> DEFINE c == ControlConnecting(d)
  <2>2. Good(c) /\ c.state = d.state /\ c.control = "connecting"
    BY <2>1, ControlConnectingGood DEF IInv
  <2> HIDE DEF c
  <2>3. Good(Asks(c, s, answer)) /\ Asks(c, s, answer).state \in {c.state, "disconnected"}
    BY <1>3, <2>2, AsksGood DEF Waits
  <2> QED
    BY <2>1, <2>2, <2>3 DEF c, Step, Falls
<1>4. CASE s = "gateway"
  <2>1. d' = Asks(d, s, answer)
    BY <1>4 DEF Incoming
  <2> QED
    BY <1>4, <2>1, AsksGood DEF IInv, Waits, Step, Falls
<1> QED
  BY <1>1, <1>2, <1>3, <1>4, HasAssumption

LEMMA RetryStep ==
  ASSUME IInv, Retry
  PROVE  Step
<1>1. PICK answer \in Answers : d.retry /\ d' = Asks(d, "sink", answer)
  BY DEF Retry, avdtp_authorization_handler
<1>2. Waits(d, "sink")
  BY <1>1 DEF IInv, Good, Auth, Fits, Waits
<1> QED
  BY <1>1, <1>2, AsksGood DEF IInv, Step, Falls

\* Nobody waits any more, then each service is told.
LEMMA AuthStep ==
  ASSUME IInv, Answer
  PROVE  Step
<1>0. PICK ok \in BOOLEAN, sink \in BOOLEAN : auth_cb(ok, sink)
  BY DEF Answer
<1> DEFINE v == [d EXCEPT !.authorized = d.authorized \/ ok, !.auths = {},
                          !.idle = FALSE, !.asked = FALSE]
           Told(x, s) == IF s \in d.auths THEN Refused(x, s) ELSE x
<1>1. /\ d.idle \/ d.asked
      /\ ~ok => d.asked
      /\ \/ ok /\ d' = IF "control" \in d.auths /\ "sink" \in Has THEN SinkConnects(v, sink) ELSE v
         \/ ~ok /\ d' = Told(Told(Told(v, "control"), "headset"), "sink")
         \/ ~ok /\ d' = Told(Told(Told(v, "control"), "sink"), "headset")
  BY <1>0 DEF auth_cb, IInv, Good, Typed
<1>2. d.state # "disconnected" \/ d.control # "disconnected" \/ Kept
  <2>1. PICK s \in d.auths : s \in {"headset", "sink", "control", "gateway"}
    BY <1>1, HasAssumption DEF IInv, Good, Auth
  <2> QED
    BY <2>1 DEF IInv, Good, Auth, Fits, Kept
<1>3. /\ IsWorld(v) /\ v.auths = {} /\ ~v.idle /\ ~v.asked
      /\ v.authorized \in BOOLEAN /\ v.idle \in BOOLEAN /\ v.asked \in BOOLEAN
      /\ (v.authorized <=> d.authorized \/ ok)
      /\ \A f \in Fields \ {"authorized", "auths", "idle", "asked"} : v[f] = d[f]
  BY DEF IInv, Good, Typed, IsWorld, Fields
<1> HIDE DEF v
<1>4. Good(v) /\ v.state = d.state
  BY <1>2, <1>3 DEF IInv, Good, Typed, Fits, Link, Auth, Fields
<1>5. CASE ok
  <2>1. "sink" \in Has => Good(SinkConnects(v, sink)) /\ Rises(v, SinkConnects(v, sink))
    BY <1>4, SinkConnectsGood
  <2>2. d' = v \/ ("sink" \in Has /\ d' = SinkConnects(v, sink))
    BY <1>1, <1>5
  <2> QED
    BY <1>4, <2>1, <2>2 DEF Step, Rises
<1>6. CASE ~ok
  <2> DEFINE c == Told(v, "control")
  <2>1. ~v.authorized
    BY <1>1, <1>3, <1>6 DEF IInv, Good, Auth
  <2>2. Good(c) /\ Falls(v, c)
    BY <1>4, <2>1, RefusedGood DEF Falls
  <2>3. \/ d' = Told(Told(c, "headset"), "sink")
        \/ d' = Told(Told(c, "sink"), "headset")
    BY <1>1, <1>6
  <2> HIDE DEF c
  <2>4. ASSUME NEW x, NEW s \in {"headset", "sink"}, Good(x)
        PROVE  Good(Told(x, s)) /\ Falls(x, Told(x, s))
    <3>1. CASE s = "headset"
      BY <2>4, <3>1, HeadsetLost DEF Refused, ServiceCb, Hows, Falls
    <3>2. CASE s = "sink"
      BY <2>4, <3>2, SinkLost DEF Refused, ServiceCb, Falls
    <3> QED
      BY <3>1, <3>2
  <2> HIDE DEF Told
  <2>5. Good(Told(c, "headset")) /\ Good(Told(c, "sink"))
    BY <2>2, <2>4
  <2>6. Good(d') /\ (\/ Falls(c, Told(c, "headset")) /\ Falls(Told(c, "headset"), d')
                     \/ Falls(c, Told(c, "sink")) /\ Falls(Told(c, "sink"), d'))
    BY <2>2, <2>3, <2>4, <2>5
  <2> QED
    BY <1>4, <2>2, <2>6 DEF Step, Falls
<1> QED
  BY <1>5, <1>6

-----------------------------------------------------------------------------
(* The theorems.                                                           *)

LEMMA InitGood ==
  ASSUME Init
  PROVE  IInv
<1>1. Typed(d) /\ Fits(d) /\ Link(d)
  BY DEF Init, Typed, IsWorld, Fields, States, Fits, Link
<1>2. Auth(d)
  BY DEF Init, Auth
<1> QED
  BY <1>1, <1>2 DEF IInv, Good

LEMMA NextStep ==
  ASSUME IInv, [Next]_vars
  PROVE  Step
<1>1. CASE HeadsetEvent
  BY <1>1, HeadsetEventStep
<1>2. CASE SinkEvent
  BY <1>2, SinkEventStep
<1>3. CASE Timers
  BY <1>3, TimersStep
<1>4. CASE Methods
  BY <1>4, MethodsStep
<1>5. CASE IncomingConnection \/ Retry \/ Answer
  BY <1>5, IncomingStep, RetryStep, AuthStep DEF IncomingConnection
<1>6. CASE ControlEvent
  BY <1>6, ControlStep
<1>7. CASE UNCHANGED vars
  BY <1>7 DEF vars, IInv, Step, Rises
<1> QED
  BY <1>1, <1>2, <1>3, <1>4, <1>5, <1>6, <1>7 DEF Next

LEMMA Invariant == Spec => []IInv
<1>1. IInv /\ [Next]_vars => IInv'
  BY NextStep DEF Step, IInv
<1> QED
  BY InitGood, <1>1, PTL DEF Spec

\* Whatever the headset, the sink, their clients and the remote end do, in any
\* order: the device is disconnected exactly when both services are, one watch
\* is on the link meanwhile, whoever waits for authorization gets an answer, and
\* an authorization ends with the connections it was given for, except where
\* AuthorizedFits says that nothing clears it (audio/device.c).
THEOREM DeviceSafeTheorem == Spec => []DeviceSafe
<1>1. IInv => DeviceSafe
  BY DEF IInv, Good, Fits, Link, Auth, Kept, DeviceSafe, StateFits, WatchKept, AuthUnderWay,
         AuthorizedFits
<1> QED
  BY <1>1, Invariant, PTL

\* The device implements AudioState: State changes only along the transitions
\* that doc/audio-api.txt lists (device_set_state and its callers).
THEOREM DeviceDocumentedTheorem == Spec => Documented
<1>1. Init => AS!Init
  BY DEF Init, AS!Init
<1>2. IInv /\ [Next]_vars => [AS!Next]_(d.state)
  <2> SUFFICES ASSUME IInv, [Next]_vars PROVE [AS!Next]_(d.state)
    OBVIOUS
  <2>1. Step /\ d.state \in States
    BY NextStep DEF IInv, Good, Typed
  <2> QED
    BY <2>1 DEF Step, Falls, Rises, States, AS!Next, AS!Connecting, AS!Connected, AS!Playing,
                AS!Stopped, AS!Disconnected
<1> QED
  BY <1>1, <1>2, Invariant, PTL DEF Spec, Documented, AS!Spec
=============================================================================
