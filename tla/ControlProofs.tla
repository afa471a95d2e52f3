---------------------------- MODULE ControlProofs ----------------------------
(***************************************************************************)
(* For every number of transaction labels, events and commands, and         *)
(* whatever the link, the controller, the player and the daemon do: the     *)
(* AVCTP channel fits its state, and nothing that a controller waits for is *)
(* forgotten.                                                              *)
(***************************************************************************)
EXTENDS Control, TLAPS

Fields == {"state", "io", "io_id", "auth", "cb", "reg", "pending_get", "pending_id",
           "req_status", "req_pos", "timer", "stray", "track", "remaining", "peer"}
PeerFields == {"reg", "get", "pdu", "status", "cont"}

\* v is a record of the fields that ControlInit gives c.
IsWorld(v) == v = [f \in Fields |-> v[f]]
IsPeer(p) == p = [f \in PeerFields |-> p[f]] /\ p.reg = [e \in Events |-> p.reg[e]]

\* The player's settings are valid: update_current_values answers every
\* notification then.
Valid == "invalid" \notin ControlEnvironment

Typed(v) == /\ IsWorld(v) /\ IsPeer(v.peer)
            /\ v.reg = [e \in Events |-> v.reg[e]]
            /\ v.state \in {"disconnected", "connecting", "connected"}
            /\ v.io \in BOOLEAN /\ v.io_id \in BOOLEAN /\ v.auth \in BOOLEAN /\ v.cb \in BOOLEAN
            /\ v.timer \in BOOLEAN /\ v.req_pos \in BOOLEAN

\* ChannelConsistent of v.
Channel(v) ==
  /\ v.state = "disconnected" => ~v.io /\ ~v.io_id /\ ~v.auth /\ ~v.cb
  /\ v.state = "connecting" => v.io /\ (v.auth \/ v.cb) /\ ~(v.auth /\ v.cb) /\ (v.io_id <=> v.auth)
  /\ v.state = "connected" => v.io /\ v.io_id /\ ~v.auth /\ ~v.cb

\* NothingForgotten of v, by what is waited for.
Registered(v) == \A e \in Events : v.peer.reg[e] # None => v.reg[e] = v.peer.reg[e]
Position(v) == v.peer.reg["pos"] # None => v.timer \/ v.req_pos
Command(v) == v.peer.get # None => v.pending_get = v.peer.pdu /\ v.pending_id = v.peer.get
Status(v) == v.peer.status # None => v.req_status = v.peer.status

\* RestBelongs of v.
Rest(v) == v.peer.cont # None => v.remaining = v.peer.cont

Waits(v) == Registered(v) /\ Position(v) /\ Command(v) /\ Status(v) /\ Rest(v)

Good(v) == Typed(v) /\ Channel(v) /\ Waits(v)

\* The inductive invariant.
IInv == Good(c)

-----------------------------------------------------------------------------
(* What the operators change.                                              *)

LEMMA QuietPeerWaits ==
  ASSUME NEW v, v.peer = QuietPeer
  PROVE  IsPeer(v.peer) /\ Waits(v)
<1>1. IsPeer(QuietPeer) /\ \A e \in Events : QuietPeer.reg[e] = None
  BY DEF QuietPeer, IsPeer, PeerFields
<1>2. QuietPeer.get = None /\ QuietPeer.status = None /\ QuietPeer.cont = None
  BY DEF QuietPeer
<1>3. "pos" \in Events
  BY DEF Events
<1> QED
  BY <1>1, <1>2, <1>3 DEF Waits, Registered, Position, Command, Status, Rest

\* A step that changes only the channel.
LEMMA ChannelOnly ==
  ASSUME NEW v, NEW u, Typed(v), Waits(v), IsWorld(u),
         \A f \in Fields \ {"state", "io", "io_id", "auth", "cb"} : u[f] = v[f],
         u.state \in {"disconnected", "connecting", "connected"},
         u.io \in BOOLEAN, u.io_id \in BOOLEAN, u.auth \in BOOLEAN, u.cb \in BOOLEAN
  PROVE  Typed(u) /\ Waits(u)
  BY DEF Typed, Fields, Waits, Registered, Position, Command, Status, Rest

\* A step that changes only what is waited for.
LEMMA ChannelKept ==
  ASSUME NEW v, NEW u, Typed(v), Channel(v), IsWorld(u), IsPeer(u.peer),
         \A f \in {"state", "io", "io_id", "auth", "cb"} : u[f] = v[f],
         u.reg = [e \in Events |-> u.reg[e]], u.timer \in BOOLEAN, u.req_pos \in BOOLEAN
  PROVE  Typed(u) /\ Channel(u)
  BY DEF Typed, Channel

\* Whoever takes the channel down has a callback only while it is there, and an
\* authorization only while it is being set up.
LEMMA Down ==
  ASSUME NEW v, Typed(v), v.cb => v.io, v.auth => v.io_id /\ v.state = "connecting"
  PROVE  Good(SetDisconnected(v))
<1> DEFINE a == avctp_disconnected(v)
           u == [a EXCEPT !.state = "disconnected", !.peer = QuietPeer]
<1> SUFFICES Good(u)
  BY DEF SetDisconnected, a
<1>1. /\ IsWorld(a) /\ \A f \in Fields \ {"io", "io_id", "auth", "cb"} : a[f] = v[f]
      /\ ~a.io /\ ~a.io_id /\ ~a.cb /\ ~a.auth
      /\ a.io \in BOOLEAN /\ a.io_id \in BOOLEAN /\ a.cb \in BOOLEAN /\ a.auth \in BOOLEAN
  BY DEF avctp_disconnected, Typed, IsWorld, Fields
<1> HIDE DEF a
<1>2. /\ IsWorld(u) /\ \A f \in Fields \ {"state", "peer"} : u[f] = a[f]
      /\ u.state = "disconnected" /\ u.peer = QuietPeer
  BY <1>1 DEF IsWorld, Fields
<1> HIDE DEF u
<1>3. IsPeer(u.peer) /\ Waits(u)
  BY <1>2, QuietPeerWaits
<1> QED
  BY <1>1, <1>2, <1>3 DEF Good, Typed, Channel, Fields

\* A CHANGED response ends the registration on both sides.
LEMMA ChangedFields ==
  ASSUME NEW v, NEW e \in Events, Typed(v), Registered(v)
  PROVE  LET u == Changed(v, e)
         IN  /\ IsWorld(u) /\ IsPeer(u.peer) /\ u.reg = [o \in Events |-> u.reg[o]]
             /\ \A f \in Fields \ {"reg", "peer"} : u[f] = v[f]
             /\ \A f \in PeerFields \ {"reg"} : u.peer[f] = v.peer[f]
             /\ Registered(u) /\ u.peer.reg[e] = None
             /\ \A o \in Events \ {e} : u.peer.reg[o] = v.peer.reg[o]
<1> DEFINE told == IF v.peer.reg[e] = v.reg[e] THEN None ELSE v.peer.reg[e]
           regs == [v.reg EXCEPT ![e] = None]
           peers == [v.peer.reg EXCEPT ![e] = told]
           p == [v.peer EXCEPT !.reg = peers]
           u == [v EXCEPT !.reg = regs, !.peer = p]
<1>1. Changed(v, e) = u
  BY DEF Changed, Typed, IsWorld, IsPeer, Fields, PeerFields
<1>2. told = None
  BY DEF Registered
<1> HIDE DEF told
<1>3. /\ peers = [o \in Events |-> peers[o]] /\ peers[e] = None
      /\ \A o \in Events \ {e} : peers[o] = v.peer.reg[o]
  BY <1>2 DEF Typed, IsPeer
<1>4. /\ regs = [o \in Events |-> regs[o]] /\ \A o \in Events \ {e} : regs[o] = v.reg[o]
  BY DEF Typed
<1> HIDE DEF regs, peers
<1>5. /\ IsPeer(p) /\ p.reg = peers /\ \A f \in PeerFields \ {"reg"} : p[f] = v.peer[f]
  BY <1>3 DEF Typed, IsPeer, PeerFields
<1> HIDE DEF p
<1>6. /\ IsWorld(u) /\ u.reg = regs /\ u.peer = p
      /\ \A f \in Fields \ {"reg", "peer"} : u[f] = v[f]
  BY DEF Typed, IsWorld, Fields
<1> HIDE DEF u
<1>7. Registered(u)
  BY <1>3, <1>4, <1>5, <1>6 DEF Registered
<1> QED
  BY <1>1, <1>3, <1>4, <1>5, <1>6, <1>7

\* The response to the pending command ends it on both sides.
LEMMA AnswerFields ==
  ASSUME NEW v, Typed(v), Command(v)
  PROVE  LET u == Answer(v)
         IN  /\ IsWorld(u) /\ IsPeer(u.peer)
             /\ \A f \in Fields \ {"pending_get", "peer"} : u[f] = v[f]
             /\ \A f \in PeerFields \ {"get", "pdu"} : u.peer[f] = v.peer[f]
             /\ Command(u)
<1> DEFINE p == [v.peer EXCEPT !.get = IF v.peer.get = v.pending_id THEN None ELSE v.peer.get,
                               !.pdu = IF v.peer.get = v.pending_id THEN None ELSE v.peer.pdu]
           u == [v EXCEPT !.pending_get = None, !.peer = p]
<1>1. Answer(v) = u
  BY DEF Answer, Typed, IsWorld, IsPeer, Fields, PeerFields
<1>2. IsPeer(p) /\ p.get = None /\ \A f \in PeerFields \ {"get", "pdu"} : p[f] = v.peer[f]
  BY DEF Typed, IsPeer, PeerFields, Command
<1> HIDE DEF p
<1>3. /\ IsWorld(u) /\ u.peer = p
      /\ \A f \in Fields \ {"pending_get", "peer"} : u[f] = v[f]
  BY DEF Typed, IsWorld, Fields
<1> HIDE DEF u
<1> QED
  BY <1>1, <1>2, <1>3 DEF Command

-----------------------------------------------------------------------------
(* The channel's actions.                                                  *)

LEMMA InitGood == ControlInit => IInv
<1> SUFFICES ASSUME ControlInit PROVE Good(c)
  BY DEF IInv
<1>1. c.peer = QuietPeer
  BY DEF ControlInit
<1>2. IsPeer(c.peer) /\ Waits(c)
  BY <1>1, QuietPeerWaits
<1>3. /\ IsWorld(c) /\ c.reg = [e \in Events |-> c.reg[e]] /\ c.state = "disconnected"
  BY DEF ControlInit, IsWorld, Fields
<1>4. /\ ~c.io /\ ~c.io_id /\ ~c.auth /\ ~c.cb
      /\ c.io \in BOOLEAN /\ c.io_id \in BOOLEAN /\ c.auth \in BOOLEAN /\ c.cb \in BOOLEAN
      /\ c.timer \in BOOLEAN /\ c.req_pos \in BOOLEAN
  BY DEF ControlInit
<1> QED
  BY <1>2, <1>3, <1>4 DEF Good, Typed, Channel

LEMMA ConnectGood ==
  ASSUME IInv, NEW ok \in BOOLEAN, avrcp_connect(ok)
  PROVE  IInv'
<1> DEFINE u == [c EXCEPT !.state = "connecting", !.io = TRUE, !.cb = TRUE]
<1>1. c.state = "disconnected" /\ c' = IF ok THEN u ELSE c
  BY DEF avrcp_connect
<1>2. /\ IsWorld(u) /\ \A f \in Fields \ {"state", "io", "cb"} : u[f] = c[f]
      /\ u.state = "connecting" /\ u.io /\ u.cb /\ u.io \in BOOLEAN /\ u.cb \in BOOLEAN
  BY DEF IInv, Good, Typed, IsWorld, Fields
<1> HIDE DEF u
<1>3. Typed(u) /\ Waits(u)
  <2>1. Typed(c) /\ Waits(c)
    BY DEF IInv, Good
  <2>2. u.io_id \in BOOLEAN /\ u.auth \in BOOLEAN
    BY <1>2, <2>1 DEF Typed, Fields
  <2>3. \A f \in Fields \ {"state", "io", "io_id", "auth", "cb"} : u[f] = c[f]
    BY <1>2
  <2>4. u.state \in {"disconnected", "connecting", "connected"}
    BY <1>2
  <2> QED
    BY <1>2, <2>1, <2>2, <2>3, <2>4, ChannelOnly
<1>4. Channel(u)
  BY <1>1, <1>2 DEF IInv, Good, Channel, Fields, Typed
<1>5. Good(u)
  BY <1>3, <1>4 DEF Good
<1> QED
  BY <1>1, <1>5 DEF IInv

LEMMA ConnectCbGood ==
  ASSUME IInv, NEW ok \in BOOLEAN, avctp_connect_cb(ok)
  PROVE  IInv'
<1> DEFINE u == [c EXCEPT !.cb = FALSE, !.io = TRUE, !.state = "connected", !.io_id = TRUE]
           v == [c EXCEPT !.cb = FALSE]
<1>1. c.cb /\ c' = IF ok THEN u ELSE SetDisconnected(v)
  BY DEF avctp_connect_cb
<1>2. /\ IsWorld(u) /\ \A f \in Fields \ {"state", "io", "cb", "io_id"} : u[f] = c[f]
      /\ u.state = "connected" /\ u.io /\ ~u.cb /\ u.io_id
      /\ u.io \in BOOLEAN /\ u.cb \in BOOLEAN /\ u.io_id \in BOOLEAN
  BY DEF IInv, Good, Typed, IsWorld, Fields
<1>3. IsWorld(v) /\ (\A f \in Fields \ {"cb"} : v[f] = c[f]) /\ ~v.cb /\ v.cb \in BOOLEAN
  BY DEF IInv, Good, Typed, IsWorld, Fields
<1> HIDE DEF u, v
<1>4. Typed(u) /\ Waits(u)
  <2>1. Typed(c) /\ Waits(c)
    BY DEF IInv, Good
  <2>2. u.auth \in BOOLEAN
    BY <1>2, <2>1 DEF Typed, Fields
  <2>3. \A f \in Fields \ {"state", "io", "io_id", "auth", "cb"} : u[f] = c[f]
    BY <1>2
  <2>4. u.state \in {"disconnected", "connecting", "connected"}
    BY <1>2
  <2> QED
    BY <1>2, <2>1, <2>2, <2>3, <2>4, ChannelOnly
<1>5. c.state = "connecting" /\ ~c.auth
  BY <1>1 DEF IInv, Good, Channel, Typed
<1>6. Channel(u)
  BY <1>2, <1>5 DEF Channel, Fields
<1>7. Typed(v) /\ (v.cb => v.io) /\ (v.auth => v.io_id /\ v.state = "connecting")
  <2>1. Typed(v) /\ Waits(v)
    BY <1>3, ChannelOnly DEF IInv, Good, Typed, Fields
  <2> QED
    BY <1>3, <1>5, <2>1 DEF Fields
<1>8. Good(SetDisconnected(v))
  BY <1>7, Down
<1>9. Good(u)
  BY <1>4, <1>6 DEF Good
<1> QED
  BY <1>1, <1>8, <1>9 DEF IInv

LEMMA ConfirmGood ==
  ASSUME IInv, NEW ok \in BOOLEAN, avctp_confirm_cb(ok)
  PROVE  IInv'
<1> DEFINE v == [c EXCEPT !.state = "connecting", !.io = TRUE]
           u == [v EXCEPT !.auth = TRUE, !.io_id = TRUE]
<1>1. ~c.io /\ c' = IF ok THEN u ELSE SetDisconnected(v)
  BY DEF avctp_confirm_cb
<1>2. c.state = "disconnected" /\ ~c.io_id /\ ~c.auth /\ ~c.cb
  BY <1>1 DEF IInv, Good, Channel, Typed
<1>3. /\ IsWorld(v) /\ (\A f \in Fields \ {"state", "io"} : v[f] = c[f])
      /\ v.state = "connecting" /\ v.io /\ v.io \in BOOLEAN
  BY DEF IInv, Good, Typed, IsWorld, Fields
<1>4. Typed(v) /\ Waits(v)
  <2> HIDE DEF v
  <2>1. Typed(c) /\ Waits(c)
    BY DEF IInv, Good
  <2>2. v.io_id \in BOOLEAN /\ v.auth \in BOOLEAN /\ v.cb \in BOOLEAN
    BY <1>3, <2>1 DEF Typed, Fields
  <2>3. \A f \in Fields \ {"state", "io", "io_id", "auth", "cb"} : v[f] = c[f]
    BY <1>3
  <2>4. v.state \in {"disconnected", "connecting", "connected"}
    BY <1>3
  <2> QED
    BY <1>3, <2>1, <2>2, <2>3, <2>4, ChannelOnly
<1> HIDE DEF v
<1>5. /\ IsWorld(u) /\ (\A f \in Fields \ {"auth", "io_id"} : u[f] = v[f])
      /\ u.auth /\ u.io_id /\ u.auth \in BOOLEAN /\ u.io_id \in BOOLEAN
  BY <1>4 DEF Typed, IsWorld, Fields
<1> HIDE DEF u
<1>6. Typed(u) /\ Waits(u)
  BY <1>4, <1>5, ChannelOnly DEF Typed, Fields
<1>7. Channel(u)
  BY <1>2, <1>3, <1>5 DEF Channel, Fields
<1>8. Good(u)
  BY <1>6, <1>7 DEF Good
<1>9. Good(SetDisconnected(v))
  BY <1>2, <1>3, <1>4, Down DEF Fields
<1> QED
  BY <1>1, <1>8, <1>9 DEF IInv

LEMMA AuthCbGood ==
  ASSUME IInv, NEW ok \in BOOLEAN, auth_cb(ok)
  PROVE  IInv'
<1> DEFINE v == [c EXCEPT !.auth = FALSE, !.io_id = FALSE]
           u == [v EXCEPT !.cb = TRUE]
<1>1. c.auth /\ c' = IF ok THEN u ELSE SetDisconnected(v)
  BY DEF auth_cb
<1>2. c.state = "connecting" /\ c.io /\ ~c.cb
  BY <1>1 DEF IInv, Good, Channel, Typed
<1>3. /\ IsWorld(v) /\ (\A f \in Fields \ {"auth", "io_id"} : v[f] = c[f])
      /\ ~v.auth /\ ~v.io_id /\ v.auth \in BOOLEAN /\ v.io_id \in BOOLEAN
  BY DEF IInv, Good, Typed, IsWorld, Fields
<1>4. Typed(v) /\ Waits(v)
  <2> HIDE DEF v
  <2> QED
    BY <1>3, ChannelOnly DEF IInv, Good, Typed, Fields
<1> HIDE DEF v
<1>5. /\ IsWorld(u) /\ (\A f \in Fields \ {"cb"} : u[f] = v[f]) /\ u.cb /\ u.cb \in BOOLEAN
  BY <1>4 DEF Typed, IsWorld, Fields
<1> HIDE DEF u
<1>6. Typed(u) /\ Waits(u)
  BY <1>4, <1>5, ChannelOnly DEF Typed, Fields
<1>7. Channel(u)
  BY <1>2, <1>3, <1>5 DEF Channel, Fields
<1>8. Good(u)
  BY <1>6, <1>7 DEF Good
<1>9. Good(SetDisconnected(v))
  BY <1>2, <1>3, <1>4, Down DEF Fields
<1> QED
  BY <1>1, <1>8, <1>9 DEF IInv

LEMMA DisconnectGood ==
  ASSUME IInv, avrcp_disconnect \/ Hangup
  PROVE  IInv'
<1>1. Typed(c) /\ (c.cb => c.io) /\ (c.auth => c.io_id /\ c.state = "connecting")
  BY DEF IInv, Good, Channel, Typed
<1>2. Good(SetDisconnected(c))
  BY <1>1, Down
<1>3. c' = SetDisconnected(c)
  BY DEF avrcp_disconnect, Hangup
<1> QED
  BY <1>2, <1>3 DEF IInv

LEMMA UnregisterGood ==
  ASSUME IInv, path_unregister
  PROVE  IInv'
<1> DEFINE v == IF c.state # "disconnected" THEN avctp_disconnected(c) ELSE c
           regs == [e \in Events |-> None]
           u == [v EXCEPT
                   !.state = "disconnected", !.reg = regs, !.pending_get = None,
                   !.pending_id = None, !.req_status = None, !.req_pos = FALSE, !.timer = FALSE,
                   !.track = "short", !.remaining = None, !.peer = QuietPeer]
<1>1. c' = u
  BY DEF path_unregister
<1>2. /\ IsWorld(v) /\ ~v.io /\ ~v.io_id /\ ~v.cb /\ ~v.auth
      /\ v.io \in BOOLEAN /\ v.io_id \in BOOLEAN /\ v.cb \in BOOLEAN /\ v.auth \in BOOLEAN
  <2>1. CASE c.state = "disconnected"
    BY <2>1 DEF IInv, Good, Channel, Typed
  <2>2. CASE c.state # "disconnected"
    <3>1. v = avctp_disconnected(c)
      BY <2>2
    <3>2. c.io /\ (c.auth => c.io_id /\ c.state = "connecting")
      BY <2>2 DEF IInv, Good, Channel, Typed
    <3> QED
      BY <3>1, <3>2 DEF avctp_disconnected, IInv, Good, Typed, IsWorld, Fields
  <2> QED
    BY <2>1, <2>2
<1> HIDE DEF v
<1>3. /\ IsWorld(u) /\ (\A f \in {"io", "io_id", "auth", "cb"} : u[f] = v[f])
      /\ u.state = "disconnected" /\ u.reg = regs /\ u.peer = QuietPeer
      /\ u.req_pos \in BOOLEAN /\ u.timer \in BOOLEAN
  BY <1>2 DEF IsWorld, Fields
<1> HIDE DEF u
<1>4. IsPeer(u.peer) /\ Waits(u)
  BY <1>3, QuietPeerWaits
<1>5. Typed(u)
  BY <1>2, <1>3, <1>4 DEF Typed
<1>6. Channel(u)
  BY <1>2, <1>3 DEF Channel
<1>7. Good(u)
  BY <1>4, <1>5, <1>6 DEF Good
<1> QED
  BY <1>1, <1>7 DEF IInv

-----------------------------------------------------------------------------
(* The commands of the controller and the player's answers.                *)

\* What a step on what is waited for has to keep.
LEMMA WaitingStep ==
  ASSUME IInv, NEW u, IsWorld(u), IsPeer(u.peer),
         \A f \in {"state", "io", "io_id", "auth", "cb"} : u[f] = c[f],
         u.reg = [e \in Events |-> u.reg[e]], u.timer \in BOOLEAN, u.req_pos \in BOOLEAN,
         Waits(u), c' = u
  PROVE  IInv'
<1>1. Typed(c) /\ Channel(c)
  BY DEF IInv, Good
<1>2. Typed(u) /\ Channel(u)
  BY <1>1, ChannelKept
<1>3. Good(u)
  BY <1>2 DEF Good
<1> QED
  BY <1>3 DEF IInv

LEMMA RegisterGood ==
  ASSUME IInv, NEW e \in Events, NEW t, NEW period \in 0..1, Register(e, t, period)
  PROVE  IInv'
<1> DEFINE timed == e = "pos" /\ period > 0
           regs == [c.reg EXCEPT ![e] = t]
           peers == [c.peer.reg EXCEPT ![e] = IF period > 0 THEN t ELSE None]
           p == [c.peer EXCEPT !.reg = peers]
           tm == c.timer \/ timed
           st == IF timed /\ c.timer THEN c.stray + 1 ELSE c.stray
           u == [c EXCEPT !.reg = regs, !.timer = tm, !.stray = st, !.peer = p]
<1>0. Typed(c) /\ Waits(c) /\ "pos" \in Events
  BY DEF IInv, Good, Events
<1>1. c' = u
  BY <1>0 DEF Register, Typed, IsWorld, IsPeer, Fields, PeerFields
<1>2. /\ regs = [o \in Events |-> regs[o]] /\ regs[e] = t
      /\ \A o \in Events \ {e} : regs[o] = c.reg[o]
  BY <1>0 DEF Typed
<1>3. /\ peers = [o \in Events |-> peers[o]] /\ peers[e] \in {t, None}
      /\ (peers[e] # None => period > 0)
      /\ \A o \in Events \ {e} : peers[o] = c.peer.reg[o]
  BY <1>0 DEF Typed, IsPeer
<1>4. tm \in BOOLEAN /\ (c.timer => tm) /\ (timed => tm)
  BY <1>0 DEF Typed
<1> HIDE DEF regs, peers, tm, st
<1>5. IsPeer(p) /\ p.reg = peers /\ \A f \in PeerFields \ {"reg"} : p[f] = c.peer[f]
  BY <1>0, <1>3 DEF Typed, IsPeer, PeerFields
<1> HIDE DEF p
<1>6. /\ IsWorld(u) /\ u.reg = regs /\ u.peer = p /\ u.timer = tm
      /\ \A f \in Fields \ {"reg", "peer", "timer", "stray"} : u[f] = c[f]
  BY <1>0 DEF Typed, IsWorld, Fields
<1> HIDE DEF u
<1>7. Registered(u)
  BY <1>0, <1>2, <1>3, <1>5, <1>6 DEF Waits, Registered
<1>8. Position(u)
  <2>0. u.req_pos = c.req_pos
    BY <1>6 DEF Fields
  <2> SUFFICES ASSUME peers["pos"] # None PROVE tm \/ c.req_pos
    BY <1>5, <1>6, <2>0 DEF Position
  <2>1. CASE e = "pos"
    BY <1>3, <1>4, <2>1
  <2>2. CASE e # "pos"
    BY <1>0, <1>3, <1>4, <2>2 DEF Waits, Position
  <2> QED
    BY <2>1, <2>2
<1>9. Command(u) /\ Status(u) /\ Rest(u)
  BY <1>0, <1>5, <1>6 DEF Waits, Command, Status, Rest, Fields, PeerFields
<1>10. Waits(u)
  BY <1>7, <1>8, <1>9 DEF Waits
<1>11. /\ \A f \in {"state", "io", "io_id", "auth", "cb"} : u[f] = c[f]
       /\ u.timer \in BOOLEAN /\ u.req_pos \in BOOLEAN
  BY <1>0, <1>4, <1>6 DEF Fields, Typed
<1>12. IsPeer(u.peer) /\ u.reg = [o \in Events |-> u.reg[o]]
  BY <1>2, <1>5, <1>6
<1> QED
  BY <1>1, <1>6, <1>10, <1>11, <1>12, WaitingStep

LEMMA GetPlayStatusGood ==
  ASSUME IInv, NEW t, GetPlayStatus(t)
  PROVE  IInv'
<1> DEFINE p == [c.peer EXCEPT !.status = t]
           u == [c EXCEPT !.req_status = t, !.peer = p]
<1>0. Typed(c) /\ Waits(c) /\ "pos" \in Events
  BY DEF IInv, Good, Events
<1>1. c' = u
  BY <1>0 DEF GetPlayStatus, Typed, IsWorld, IsPeer, Fields, PeerFields
<1>2. IsPeer(p) /\ p.status = t /\ \A f \in PeerFields \ {"status"} : p[f] = c.peer[f]
  BY <1>0 DEF Typed, IsPeer, PeerFields
<1> HIDE DEF p
<1>3. /\ IsWorld(u) /\ u.req_status = t /\ u.peer = p
      /\ \A f \in Fields \ {"req_status", "peer"} : u[f] = c[f]
  BY <1>0 DEF Typed, IsWorld, Fields
<1> HIDE DEF u
<1>4. Waits(u)
  BY <1>0, <1>2, <1>3 DEF Waits, Registered, Position, Command, Status, Rest, Fields, PeerFields
<1>5. /\ \A f \in {"state", "io", "io_id", "auth", "cb"} : u[f] = c[f]
      /\ u.timer \in BOOLEAN /\ u.req_pos \in BOOLEAN
      /\ u.reg = [e \in Events |-> u.reg[e]]
  BY <1>0, <1>3 DEF Fields, Typed
<1> QED
  BY <1>1, <1>2, <1>3, <1>4, <1>5, WaitingStep

LEMMA GetGood ==
  ASSUME IInv, NEW pdu, NEW t, Get(pdu, t)
  PROVE  IInv'
<1> DEFINE p == [c.peer EXCEPT !.get = t, !.pdu = pdu]
           u == [c EXCEPT !.pending_get = pdu, !.pending_id = t, !.peer = p]
<1>0. Typed(c) /\ Waits(c) /\ "pos" \in Events
  BY DEF IInv, Good, Events
<1>1. c' = u
  BY <1>0 DEF Get, Typed, IsWorld, IsPeer, Fields, PeerFields
<1>2. /\ IsPeer(p) /\ p.get = t /\ p.pdu = pdu
      /\ \A f \in PeerFields \ {"get", "pdu"} : p[f] = c.peer[f]
  BY <1>0 DEF Typed, IsPeer, PeerFields
<1> HIDE DEF p
<1>3. /\ IsWorld(u) /\ u.pending_get = pdu /\ u.pending_id = t /\ u.peer = p
      /\ \A f \in Fields \ {"pending_get", "pending_id", "peer"} : u[f] = c[f]
  BY <1>0 DEF Typed, IsWorld, Fields
<1> HIDE DEF u
<1>4. Waits(u)
  BY <1>0, <1>2, <1>3 DEF Waits, Registered, Position, Command, Status, Rest, Fields, PeerFields
<1>5. /\ \A f \in {"state", "io", "io_id", "auth", "cb"} : u[f] = c[f]
      /\ u.timer \in BOOLEAN /\ u.req_pos \in BOOLEAN
      /\ u.reg = [e \in Events |-> u.reg[e]]
  BY <1>0, <1>3 DEF Fields, Typed
<1> QED
  BY <1>1, <1>2, <1>3, <1>4, <1>5, WaitingStep

LEMMA SetValuesGood ==
  ASSUME IInv, SetValues
  PROVE  IInv'
<1> DEFINE u == [c EXCEPT !.pending_get = None, !.pending_id = None]
<1>0. Typed(c) /\ Waits(c)
  BY DEF IInv, Good
<1>1. c' = u /\ c.peer.get = None
  BY DEF SetValues
<1>2. /\ IsWorld(u)
      /\ \A f \in Fields \ {"pending_get", "pending_id"} : u[f] = c[f]
  BY <1>0 DEF Typed, IsWorld, Fields
<1> HIDE DEF u
<1>3. Waits(u)
  BY <1>0, <1>1, <1>2 DEF Waits, Registered, Position, Command, Status, Rest, Fields
<1>4. /\ \A f \in {"state", "io", "io_id", "auth", "cb"} : u[f] = c[f]
      /\ u.timer \in BOOLEAN /\ u.req_pos \in BOOLEAN
      /\ u.reg = [e \in Events |-> u.reg[e]] /\ IsPeer(u.peer)
  BY <1>0, <1>2 DEF Fields, Typed
<1> QED
  BY <1>1, <1>2, <1>3, <1>4, WaitingStep

\* The rest of an answer changes for the controller and the daemon at once.
LEMMA RestGood ==
  ASSUME IInv, send_meta_data \/ Continue
  PROVE  IInv'
<1>0. Typed(c) /\ Waits(c) /\ "pos" \in Events
  BY DEF IInv, Good, Events
<1>1. PICK r, k : /\ c' = [c EXCEPT !.remaining = r, !.peer = [c.peer EXCEPT !.cont = k]]
                  /\ k # None => r = k
  <2>1. CASE send_meta_data /\ c.track = "short"
    <3>1. c' = [c EXCEPT !.remaining = c.remaining, !.peer = [c.peer EXCEPT !.cont = None]]
      BY <1>0, <2>1 DEF send_meta_data, Typed, IsWorld, IsPeer, Fields, PeerFields
    <3> QED
      BY <3>1
  <2>2. CASE send_meta_data /\ c.track # "short"
    <3>1. c' = [c EXCEPT !.remaining = c.track, !.peer = [c.peer EXCEPT !.cont = c.track]]
      BY <1>0, <2>2 DEF send_meta_data, Typed, IsWorld, IsPeer, Fields, PeerFields
    <3> QED
      BY <3>1
  <2>3. CASE Continue
    <3>1. c' = [c EXCEPT !.remaining = None, !.peer = [c.peer EXCEPT !.cont = None]]
      BY <1>0, <2>3 DEF Continue, Typed, IsWorld, IsPeer, Fields, PeerFields
    <3> QED
      BY <3>1
  <2> QED
    BY <2>1, <2>2, <2>3
<1> DEFINE p == [c.peer EXCEPT !.cont = k]
           u == [c EXCEPT !.remaining = r, !.peer = p]
<1>2. c' = u
  BY <1>1
<1>3. /\ IsPeer(p) /\ p.cont = k
      /\ \A f \in PeerFields \ {"cont"} : p[f] = c.peer[f]
  BY <1>0 DEF Typed, IsPeer, PeerFields
<1> HIDE DEF p
<1>4. /\ IsWorld(u) /\ u.remaining = r /\ u.peer = p
      /\ \A f \in Fields \ {"remaining", "peer"} : u[f] = c[f]
  BY <1>0 DEF Typed, IsWorld, Fields
<1> HIDE DEF u
<1>5. k # None => r = k
  BY <1>1
<1>6. Waits(u)
  BY <1>0, <1>3, <1>4, <1>5 DEF Waits, Registered, Position, Command, Status, Rest, Fields, PeerFields
<1>7. /\ \A f \in {"state", "io", "io_id", "auth", "cb"} : u[f] = c[f]
      /\ u.timer \in BOOLEAN /\ u.req_pos \in BOOLEAN
      /\ u.reg = [e \in Events |-> u.reg[e]] /\ IsPeer(u.peer)
  BY <1>0, <1>3, <1>4 DEF Fields, Typed
<1> QED
  BY <1>2, <1>4, <1>6, <1>7, WaitingStep

LEMMA MetadataGood ==
  ASSUME IInv, NEW track, update_metadata(track)
  PROVE  IInv'
<1> DEFINE u == [c EXCEPT !.track = track]
<1>0. Typed(c) /\ Waits(c)
  BY DEF IInv, Good
<1>1. c' = u
  BY DEF update_metadata
<1>2. IsWorld(u) /\ \A f \in Fields \ {"track"} : u[f] = c[f]
  BY <1>0 DEF Typed, IsWorld, Fields
<1> HIDE DEF u
<1>3. Waits(u)
  BY <1>0, <1>2 DEF Waits, Registered, Position, Command, Status, Rest, Fields
<1>4. /\ \A f \in {"state", "io", "io_id", "auth", "cb"} : u[f] = c[f]
      /\ u.timer \in BOOLEAN /\ u.req_pos \in BOOLEAN
      /\ u.reg = [e \in Events |-> u.reg[e]] /\ IsPeer(u.peer)
  BY <1>0, <1>2 DEF Fields, Typed
<1> QED
  BY <1>1, <1>2, <1>3, <1>4, WaitingStep

\* Asking the player for the position keeps what is waited for.
LEMMA PositionRequest ==
  ASSUME NEW v, Typed(v), Waits(v)
  PROVE  LET u == send_playback_pos_request(v)
         IN  /\ Typed(u) /\ Waits(u)
             /\ \A f \in Fields \ {"timer", "req_pos"} : u[f] = v[f]
<1> DEFINE u == send_playback_pos_request(v)
<1> SUFFICES /\ Typed(u) /\ Waits(u)
             /\ \A f \in Fields \ {"timer", "req_pos"} : u[f] = v[f]
  BY DEF u
<1>1. /\ IsWorld(u) /\ \A f \in Fields \ {"timer", "req_pos"} : u[f] = v[f]
      /\ u.req_pos /\ u.req_pos \in BOOLEAN /\ u.timer \in BOOLEAN
  BY DEF send_playback_pos_request, Typed, IsWorld, Fields
<1> HIDE DEF u
<1>2. Waits(u)
  BY <1>1 DEF Waits, Registered, Position, Command, Status, Rest, Fields
<1>3. Typed(u)
  BY <1>1 DEF Typed, Fields
<1> QED
  BY <1>1, <1>2, <1>3

\* A CHANGED response keeps what is waited for.
LEMMA ChangedWaits ==
  ASSUME NEW v, NEW e \in Events, Typed(v), Registered(v), Command(v), Status(v), Rest(v),
         Position(v) \/ e = "pos"
  PROVE  LET u == Changed(v, e)
         IN  /\ Typed(u) /\ Waits(u)
             /\ \A f \in Fields \ {"reg", "peer"} : u[f] = v[f]
<1> DEFINE u == Changed(v, e)
<1> SUFFICES /\ Typed(u) /\ Waits(u)
             /\ \A f \in Fields \ {"reg", "peer"} : u[f] = v[f]
  BY DEF u
<1>1. /\ IsWorld(u) /\ IsPeer(u.peer) /\ u.reg = [o \in Events |-> u.reg[o]]
      /\ \A f \in Fields \ {"reg", "peer"} : u[f] = v[f]
      /\ \A f \in PeerFields \ {"reg"} : u.peer[f] = v.peer[f]
      /\ Registered(u) /\ u.peer.reg[e] = None
      /\ \A o \in Events \ {e} : u.peer.reg[o] = v.peer.reg[o]
  BY ChangedFields
<1> HIDE DEF u
<1>2. Command(u) /\ Status(u) /\ Rest(u)
  BY <1>1 DEF Command, Status, Rest, Fields, PeerFields
<1>3. Position(u)
  <2>1. CASE e = "pos"
    BY <1>1, <2>1 DEF Position
  <2>2. CASE e # "pos"
    <3>1. u.peer.reg["pos"] = v.peer.reg["pos"]
      BY <1>1, <2>2 DEF Events
    <3>2. u.timer = v.timer /\ u.req_pos = v.req_pos
      BY <1>1 DEF Fields
    <3> QED
      BY <2>2, <3>1, <3>2 DEF Position
  <2> QED
    BY <2>1, <2>2
<1>4. Typed(u)
  BY <1>1 DEF Typed, Fields
<1> QED
  BY <1>1, <1>2, <1>3, <1>4 DEF Waits

\* From a world that the lemmas above give to the next state.
LEMMA KeptGood ==
  ASSUME IInv, NEW u, Typed(u), Waits(u), c' = u,
         \A f \in {"state", "io", "io_id", "auth", "cb"} : u[f] = c[f]
  PROVE  IInv'
<1>1. Channel(u)
  BY DEF IInv, Good, Channel
<1>2. Good(u)
  BY <1>1 DEF Good
<1> QED
  BY <1>2 DEF IInv

LEMMA NotificationGood ==
  ASSUME IInv, NEW e \in Events, update_notification(e)
  PROVE  IInv'
<1>0. Typed(c) /\ Waits(c)
  BY DEF IInv, Good
<1> DEFINE v == IF c.reg["pos"] # None THEN send_playback_pos_request(c) ELSE c
<1>1. Typed(v) /\ Waits(v) /\ \A f \in Fields \ {"timer", "req_pos"} : v[f] = c[f]
  BY <1>0, PositionRequest
<1>2. c' = v \/ c' = Changed(v, e)
  BY DEF update_notification
<1> HIDE DEF v
<1> DEFINE u == Changed(v, e)
<1>3. Typed(u) /\ Waits(u) /\ \A f \in Fields \ {"reg", "peer"} : u[f] = v[f]
  BY <1>1, ChangedWaits DEF Waits
<1> HIDE DEF u
<1>4. \A f \in {"state", "io", "io_id", "auth", "cb"} : v[f] = c[f] /\ u[f] = c[f]
  BY <1>1, <1>3 DEF Fields
<1>5. c' = u => IInv'
  BY <1>3, <1>4, KeptGood
<1>6. c' = v => IInv'
  BY <1>1, <1>4, KeptGood
<1> QED
  BY <1>2, <1>5, <1>6 DEF u

\* The answer to GetPlayStatus ends it on both sides.
LEMMA StatusWaits ==
  ASSUME NEW v, Typed(v), Waits(v)
  PROVE  LET u == [v EXCEPT !.req_status = None,
                            !.peer.status = IF @ = v.req_status THEN None ELSE @]
         IN  /\ Typed(u) /\ Waits(u)
             /\ \A f \in Fields \ {"req_status", "peer"} : u[f] = v[f]
<1> DEFINE k == IF v.peer.status = v.req_status THEN None ELSE v.peer.status
           p == [v.peer EXCEPT !.status = k]
           u == [v EXCEPT !.req_status = None, !.peer = p]
<1>1. u = [v EXCEPT !.req_status = None, !.peer.status = IF @ = v.req_status THEN None ELSE @]
  BY DEF Typed, IsWorld, IsPeer, Fields, PeerFields
<1>2. k = None
  BY DEF Waits, Status
<1> HIDE DEF k
<1>3. /\ IsPeer(p) /\ p.status = None
      /\ \A f \in PeerFields \ {"status"} : p[f] = v.peer[f]
  BY <1>2 DEF Typed, IsPeer, PeerFields
<1> HIDE DEF p
<1>4. /\ IsWorld(u) /\ u.peer = p
      /\ \A f \in Fields \ {"req_status", "peer"} : u[f] = v[f]
  BY DEF Typed, IsWorld, Fields
<1> HIDE DEF u
<1>5. "pos" \in Events
  BY DEF Events
<1>6. Waits(u)
  BY <1>3, <1>4, <1>5 DEF Waits, Registered, Position, Command, Status, Rest, Fields, PeerFields
<1>7. Typed(u)
  BY <1>3, <1>4 DEF Typed, Fields
<1> QED
  BY <1>1, <1>4, <1>6, <1>7

LEMMA PlayStatusGood ==
  ASSUME IInv, NEW playing \in BOOLEAN, update_play_status(playing)
  PROVE  IInv'
<1>0. Typed(c) /\ Waits(c)
  BY DEF IInv, Good
<1> DEFINE v == IF c.req_status = None THEN c
                ELSE [c EXCEPT !.req_status = None,
                               !.peer.status = IF @ = c.req_status THEN None ELSE @]
           x == [v EXCEPT !.req_pos = FALSE, !.timer = FALSE]
           u == Changed(x, "pos")
<1>1. Typed(v) /\ Waits(v) /\ \A f \in Fields \ {"req_status", "peer"} : v[f] = c[f]
  BY <1>0, StatusWaits
<1>2. c' = v \/ c' = u
  BY DEF update_play_status
<1> HIDE DEF v
<1>3. /\ IsWorld(x) /\ \A f \in Fields \ {"req_pos", "timer"} : x[f] = v[f]
      /\ x.req_pos \in BOOLEAN /\ x.timer \in BOOLEAN
  BY <1>1 DEF Typed, IsWorld, Fields
<1> HIDE DEF x
<1>4. Typed(x)
  BY <1>1, <1>3 DEF Typed, Fields
<1>5. Registered(x) /\ Command(x) /\ Status(x) /\ Rest(x)
  BY <1>1, <1>3 DEF Waits, Registered, Command, Status, Rest, Fields
<1>6. "pos" \in Events
  BY DEF Events
<1>7. Typed(u) /\ Waits(u) /\ \A f \in Fields \ {"reg", "peer"} : u[f] = x[f]
  BY <1>4, <1>5, <1>6, ChangedWaits
<1> HIDE DEF u
<1>8. \A f \in {"state", "io", "io_id", "auth", "cb"} : v[f] = c[f] /\ u[f] = c[f]
  BY <1>1, <1>3, <1>7 DEF Fields
<1>9. c' = u => IInv'
  BY <1>7, <1>8, KeptGood
<1>10. c' = v => IInv'
  BY <1>1, <1>8, KeptGood
<1> QED
  BY <1>2, <1>9, <1>10

LEMMA AnswerWaits ==
  ASSUME NEW v, Typed(v), Waits(v)
  PROVE  LET u == Answer(v)
         IN  /\ Typed(u) /\ Waits(u)
             /\ \A f \in Fields \ {"pending_get", "peer"} : u[f] = v[f]
<1> DEFINE u == Answer(v)
<1> SUFFICES /\ Typed(u) /\ Waits(u)
             /\ \A f \in Fields \ {"pending_get", "peer"} : u[f] = v[f]
  BY DEF u
<1>1. /\ IsWorld(u) /\ IsPeer(u.peer)
      /\ \A f \in Fields \ {"pending_get", "peer"} : u[f] = v[f]
      /\ \A f \in PeerFields \ {"get", "pdu"} : u.peer[f] = v.peer[f]
      /\ Command(u)
  BY AnswerFields DEF Waits
<1> HIDE DEF u
<1>2. "pos" \in Events
  BY DEF Events
<1>3. Waits(u)
  BY <1>1, <1>2 DEF Waits, Registered, Position, Status, Rest, Fields, PeerFields
<1>4. Typed(u)
  BY <1>1 DEF Typed, Fields
<1> QED
  BY <1>1, <1>3, <1>4

LEMMA UpdateGood ==
  ASSUME IInv, c' = Answer(c)
  PROVE  IInv'
<1>0. Typed(c) /\ Waits(c)
  BY DEF IInv, Good
<1> DEFINE u == Answer(c)
<1>1. Typed(u) /\ Waits(u) /\ \A f \in Fields \ {"pending_get", "peer"} : u[f] = c[f]
  BY <1>0, AnswerWaits
<1>2. c' = u
  OBVIOUS
<1> HIDE DEF u
<1>3. \A f \in {"state", "io", "io_id", "auth", "cb"} : u[f] = c[f]
  BY <1>1 DEF Fields
<1> QED
  BY <1>1, <1>2, <1>3, KeptGood

LEMMA CurrentValuesGood ==
  ASSUME IInv, update_current_values(TRUE)
  PROVE  IInv'
<1>0. Typed(c) /\ Waits(c) /\ "settings" \in Events
  BY DEF IInv, Good, Events
<1> DEFINE u == Changed(c, "settings")
<1>1. c' = Answer(c) \/ c' = c \/ c' = u
  BY DEF update_current_values
<1>2. Typed(u) /\ Waits(u) /\ \A f \in Fields \ {"reg", "peer"} : u[f] = c[f]
  BY <1>0, ChangedWaits DEF Waits
<1> HIDE DEF u
<1>3. \A f \in {"state", "io", "io_id", "auth", "cb"} : u[f] = c[f]
  BY <1>2 DEF Fields
<1>4. c' = u => IInv'
  BY <1>2, <1>3, KeptGood
<1>5. c' = c => IInv'
  BY DEF IInv
<1> QED
  BY <1>1, <1>4, <1>5, UpdateGood

LEMMA TimerGood ==
  ASSUME IInv, TimerFires \/ StrayFires
  PROVE  IInv'
<1>0. Typed(c) /\ Waits(c)
  BY DEF IInv, Good
<1>1. PICK n : c' = send_playback_pos_request([c EXCEPT !.stray = n])
  <2>1. CASE TimerFires
    <3>1. c = [c EXCEPT !.stray = c.stray]
      BY <1>0 DEF Typed, IsWorld, Fields
    <3>2. c' = send_playback_pos_request([c EXCEPT !.stray = c.stray])
      BY <2>1, <3>1 DEF TimerFires
    <3> QED
      BY <3>2
  <2>2. CASE StrayFires
    <3>1. c' = send_playback_pos_request([c EXCEPT !.stray = c.stray - 1])
      BY <2>2 DEF StrayFires
    <3> QED
      BY <3>1
  <2> QED
    BY <2>1, <2>2
<1> DEFINE v == [c EXCEPT !.stray = n]
           u == send_playback_pos_request(v)
<1>2. c' = u
  BY <1>1
<1>3. IsWorld(v) /\ \A f \in Fields \ {"stray"} : v[f] = c[f]
  BY <1>0 DEF Typed, IsWorld, Fields
<1> HIDE DEF v
<1>4. Typed(v) /\ Waits(v)
  BY <1>0, <1>3 DEF Typed, Waits, Registered, Position, Command, Status, Rest, Fields
<1>5. Typed(u) /\ Waits(u) /\ \A f \in Fields \ {"timer", "req_pos"} : u[f] = v[f]
  BY <1>4, PositionRequest
<1> HIDE DEF u
<1>6. \A f \in {"state", "io", "io_id", "auth", "cb"} : u[f] = c[f]
  BY <1>3, <1>5 DEF Fields
<1> QED
  BY <1>2, <1>5, <1>6, KeptGood

-----------------------------------------------------------------------------

LEMMA NextGood ==
  ASSUME Valid, IInv, [ControlNext]_c
  PROVE  IInv'
<1>1. CASE \E ok \in BOOLEAN : \/ avrcp_connect(ok) \/ avctp_connect_cb(ok)
                               \/ avctp_confirm_cb(ok) \/ auth_cb(ok)
                               \/ update_play_status(ok)
  BY <1>1, ConnectGood, ConnectCbGood, ConfirmGood, AuthCbGood, PlayStatusGood
<1>2. CASE \E ok \in BOOLEAN : (ok \/ "invalid" \in ControlEnvironment) /\ update_current_values(ok)
  <2>1. PICK ok \in BOOLEAN : (ok \/ "invalid" \in ControlEnvironment) /\ update_current_values(ok)
    BY <1>2
  <2>2. ok = TRUE
    BY <2>1 DEF Valid
  <2>3. update_current_values(TRUE)
    BY <2>1, <2>2
  <2> QED
    BY <2>3, CurrentValuesGood
<1>3. CASE avrcp_disconnect \/ Hangup \/ path_unregister
  BY <1>3, DisconnectGood, UnregisterGood
<1>4. CASE \E t \in Transactions : \/ \E e \in Watched, period \in 0..1 : Register(e, t, period)
                                   \/ GetPlayStatus(t)
                                   \/ \E pdu \in Asked : Get(pdu, t)
  BY <1>4, WatchedAssumption, RegisterGood, GetPlayStatusGood, GetGood
<1>5. CASE SetValues \/ send_meta_data \/ Continue
  BY <1>5, SetValuesGood, RestGood
<1>6. CASE \E track \in Tracks : update_metadata(track)
  BY <1>6, MetadataGood
<1>7. CASE \E e \in Events : update_notification(e)
  BY <1>7, NotificationGood
<1>8. CASE \E pdu \in Asked : Update(pdu)
  BY <1>8, UpdateGood DEF Update
<1>9. CASE TimerFires \/ StrayFires
  BY <1>9, TimerGood
<1>10. CASE UNCHANGED c
  BY <1>10 DEF IInv
<1> QED
  BY <1>1, <1>2, <1>3, <1>4, <1>5, <1>6, <1>7, <1>8, <1>9, <1>10 DEF ControlNext

\* The inductive invariant says what the runs check.
LEMMA GoodIsSafe == IInv => ControlSafe
<1> SUFFICES ASSUME IInv PROVE ControlSafe
  OBVIOUS
<1>1. ChannelConsistent
  BY DEF IInv, Good, Channel, Typed, ChannelConsistent
<1>2. NothingForgotten
  BY DEF IInv, Good, Waits, Registered, Position, Command, Status, NothingForgotten
<1>3. RestBelongs
  BY DEF IInv, Good, Waits, Rest, RestBelongs
<1> QED
  BY <1>1, <1>2, <1>3 DEF ControlSafe

\* audio/control.c, as long as the player tells valid settings: for all
\* transaction labels, events and commands, the AVCTP channel, its state and
\* what is under way agree; every event, command and answer that the controller
\* waits for is still noted under its label, and the rest of a long answer is
\* the one that it expects.
THEOREM ControlSafeTheorem ==
  ASSUME Valid
  PROVE  ControlSpec => []ControlSafe
<1>1. IInv /\ [ControlNext]_c => IInv'
  BY NextGood
<1> QED
  BY <1>1, InitGood, GoodIsSafe, PTL DEF ControlSpec
=============================================================================
