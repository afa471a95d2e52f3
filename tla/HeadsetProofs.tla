--------------------------- MODULE HeadsetProofs ---------------------------
(***************************************************************************)
(* For any clients and stream users, as long as the environment does only  *)
(* what the daemon expects of it: the headset's channels, its state and    *)
(* the pending connect fit each other, and the State that is signalled     *)
(* follows the transitions of doc/audio-api.txt (AudioState).              *)
(***************************************************************************)
EXTENDS Headset, TLAPS

\* Streams are used and devices connect.  Nothing else of Allowed happens: each of the
\* others leads to a state that headset.c does not provide for ("abandon", with the
\* trace of the run headset_abandoned; a second ring timer; a channel that is used before
\* its watch has seen it close).
Expected == Environment \subseteq {"streams", "device"}

Fields == {"state", "hfp", "handle", "ch", "auto_dc", "tmp", "rfcomm", "live", "auths",
           "preauth", "slc", "pending_ring", "sco", "pending", "sdp", "idles", "dc", "lost_dc",
           "lost_ring", "ring", "ready", "call", "locks", "waiting", "told", "fault"}

\* v is a record of the fields that Init gives h.
IsWorld(v) == v = [f \in Fields |-> v[f]]

\* The fields that the invariant does not mention.
Minor == {"hfp", "handle", "ch", "auto_dc", "lost_dc", "ready", "call", "dc", "locks"}

States == {"DISCONNECTED", "CONNECTING", "CONNECTED", "PLAY_IN_PROGRESS", "PLAYING"}
Up == {"CONNECTED", "PLAY_IN_PROGRESS", "PLAYING"}
Channel == {"none", "out", "in"}

Pendings == [on : BOOLEAN, msg : Clients \cup {"none"}, target : {"CONNECTED", "PLAYING"},
             cbs : SUBSET Users, svc : {"none", "HFP", "HSP"}]

Typed(v) ==
  /\ IsWorld(v)
  /\ v.state \in States /\ v.tmp \in Channel /\ v.rfcomm \in Channel
  /\ v.live \subseteq {"out", "in"} /\ v.auths \in 0..1
  /\ v.preauth \in BOOLEAN /\ v.pending_ring \in BOOLEAN /\ v.ring \in BOOLEAN
  /\ v.lost_ring \in BOOLEAN /\ v.fault \in BOOLEAN
  /\ v.slc \in {"none", "plain", "threeway"} /\ v.dc \in {"none", "live", "stale"}
  /\ v.sco \in {"none", "connecting", "up", "closed"} /\ v.sdp \in {"none", "HFP", "HSP"}
  /\ v.pending \in Pendings /\ v.idles \in 0..1
  /\ v.waiting \subseteq Users /\ v.locks \subseteq Users

\* The pending connect and its users.
Held(v) == /\ ~v.pending.on => v.pending = NoPending
           /\ v.waiting \subseteq v.pending.cbs

\* What holds whatever the state.
Base(v) == /\ Typed(v) /\ Held(v)
           /\ v.told = state2str(v.state)
           /\ ~v.fault /\ ~v.lost_ring
           /\ v.slc = "none" <=> v.rfcomm = "none"
           /\ v.preauth <=> v.auths = 1

\* One attempt at a time: a search, a channel, a question to the agent, or a
\* channel that waits for the service level connection.
Attempt(v) ==
  /\ v.pending.svc = v.sdp
  /\ v.state = "DISCONNECTED" =>
       v.tmp = "none" /\ v.live = {} /\ v.rfcomm = "none" /\ v.sdp = "none"
  /\ v.state = "CONNECTING" =>
       \/ v.sdp # "none" /\ v.tmp = "none" /\ v.live = {} /\ v.rfcomm = "none" /\ v.auths = 0 /\ v.pending.on
       \/ v.sdp = "none" /\ v.tmp # "none" /\ v.live = {v.tmp} /\ v.rfcomm = "none" /\ v.auths = 0
       \/ v.sdp = "none" /\ v.tmp = "in" /\ v.live = {} /\ v.rfcomm = "none" /\ v.auths = 1
       \/ v.sdp = "none" /\ v.tmp = "none" /\ v.live = {} /\ v.rfcomm # "none" /\ v.auths = 0
  /\ v.state \in Up =>
       v.tmp = "none" /\ v.live = {} /\ v.rfcomm # "none" /\ v.sdp = "none" /\ v.auths = 0

Audio(v) ==
  /\ v.state \notin {"PLAY_IN_PROGRESS", "PLAYING"} => v.sco = "none"
  /\ v.state = "PLAY_IN_PROGRESS" => v.sco \in {"connecting", "closed"}
  /\ v.state = "PLAYING" => v.sco \in {"up", "closed"}
  /\ v.pending_ring => InbandRing /\ ~v.ring /\ v.state \in {"CONNECTED", "PLAY_IN_PROGRESS"}

\* A pending connect will be finalized.
Ends(v) == /\ ~Abandoned(v)
           /\ v.idles > 0 => v.state \in Up

Good(v) == Base(v) /\ Attempt(v) /\ Audio(v) /\ Ends(v)

\* The inductive invariant.
IInv == Good(h)

\* No idle callback and no closed channel's watch is to be called first.
Quiet(v) == v.idles = 0 /\ (v.preauth => v.tmp = "in")

\* The changes of state between two events.
Moves(s, t) ==
  \/ t \in {s, "DISCONNECTED"}
  \/ s = "DISCONNECTED" /\ t = "CONNECTING"
  \/ s = "CONNECTING" /\ t \in {"CONNECTED", "PLAY_IN_PROGRESS"}
  \/ s \in Up /\ t \in Up /\ ~(s = "PLAYING" /\ t = "PLAY_IN_PROGRESS")

Step(v, u) == Good(u) /\ Moves(v.state, u.state)

-----------------------------------------------------------------------------

LEMMA Ranks ==
  ASSUME NEW s \in States
  PROVE  /\ Rank(s) >= 2 <=> s \in Up
         /\ Rank(s) < 2 <=> s \notin Up
         /\ Rank(s) >= 3 <=> s \in {"PLAY_IN_PROGRESS", "PLAYING"}
  BY DEF Rank, States, Up

LEMMA Names ==
  /\ state2str("DISCONNECTED") = "disconnected" /\ state2str("CONNECTING") = "connecting"
  /\ state2str("CONNECTED") = "connected" /\ state2str("PLAY_IN_PROGRESS") = "connected"
  /\ state2str("PLAYING") = "playing"
  BY DEF state2str

\* A state change and what it closes.
LEMMA SetState ==
  ASSUME NEW v, NEW s \in States, Typed(v), v.state # s
  PROVE  LET u == headset_set_state(v, s)
         IN  /\ IsWorld(u) /\ u.state = s
             /\ \A f \in Fields \ {"state", "told", "fault", "sco", "live", "tmp", "rfcomm", "slc", "pending_ring"} : u[f] = v[f]
             /\ s = "DISCONNECTED" =>
                  /\ u.sco = "none" /\ u.tmp = "none" /\ u.rfcomm = "none" /\ u.slc = "none"
                  /\ u.pending_ring \in BOOLEAN /\ ~u.pending_ring
                  /\ u.live = v.live \ {IF v.tmp # "none" THEN v.tmp ELSE v.rfcomm}
             /\ s # "DISCONNECTED" =>
                  /\ u.live = v.live /\ u.tmp = v.tmp /\ u.rfcomm = v.rfcomm /\ u.slc = v.slc
                  /\ u.pending_ring = v.pending_ring
                  /\ u.sco = IF s = "CONNECTED" THEN "none" ELSE v.sco
             /\ u.told = Signalled(v, s)
             /\ u.fault \in BOOLEAN
             /\ u.fault <=> \/ v.fault
                            \/ s = "CONNECTED" /\ v.state \notin Up /\ v.slc = "none"
                            \/ s = "PLAYING" /\ (v.slc = "none" \/ v.sco = "none")
<1> DEFINE w == IF s = "DISCONNECTED" THEN headset_close_rfcomm(close_sco(v))
                ELSE IF s = "CONNECTED" THEN close_sco(v) ELSE v
           fault == \/ w.fault
                    \/ s = "CONNECTED" /\ Rank(v.state) < 2 /\ v.slc = "none"
                    \/ s = "PLAYING" /\ (v.slc = "none" \/ v.sco = "none")
           u == [w EXCEPT !.state = s, !.told = Signalled(v, s), !.fault = fault]
<1>1. headset_set_state(v, s) = u
  BY Zenon DEF headset_set_state
<1>2. /\ IsWorld(w)
      /\ \A f \in Fields \ {"sco", "live", "tmp", "rfcomm", "slc", "pending_ring"} : w[f] = v[f]
      /\ s = "DISCONNECTED" =>
                  /\ w.sco = "none" /\ w.tmp = "none" /\ w.rfcomm = "none" /\ w.slc = "none"
                  /\ w.pending_ring \in BOOLEAN /\ ~w.pending_ring
                  /\ w.live = v.live \ {IF v.tmp # "none" THEN v.tmp ELSE v.rfcomm}
      /\ s # "DISCONNECTED" =>
                  /\ w.live = v.live /\ w.tmp = v.tmp /\ w.rfcomm = v.rfcomm /\ w.slc = v.slc
                  /\ w.pending_ring = v.pending_ring
                  /\ w.sco = IF s = "CONNECTED" THEN "none" ELSE v.sco
  <2>1. CASE s = "DISCONNECTED"
    <3> DEFINE c == close_sco(v)
    <3>1. IsWorld(c) /\ c.sco = "none" /\ \A f \in Fields \ {"sco"} : c[f] = v[f]
      BY DEF close_sco, Typed, IsWorld, Fields
    <3> HIDE DEF c
    <3>2. w = headset_close_rfcomm(c)
      BY <2>1 DEF c
    <3> HIDE DEF w
    <3>3. /\ IsWorld(w) /\ w.sco = c.sco /\ w.tmp = "none" /\ w.rfcomm = "none" /\ w.slc = "none"
          /\ w.pending_ring \in BOOLEAN /\ ~w.pending_ring
          /\ w.live = c.live \ {IF c.tmp # "none" THEN c.tmp ELSE c.rfcomm}
          /\ \A f \in Fields \ {"live", "tmp", "rfcomm", "slc", "pending_ring"} : w[f] = c[f]
      BY <3>1, <3>2 DEF headset_close_rfcomm, IsWorld, Fields
    <3> QED
      BY <2>1, <3>1, <3>3 DEF Fields
  <2>2. CASE s = "CONNECTED"
    BY <2>2 DEF close_sco, Typed, IsWorld, Fields
  <2>3. CASE s # "DISCONNECTED" /\ s # "CONNECTED"
    BY <2>3 DEF Typed, Fields
  <2> QED
    BY <2>1, <2>2, <2>3
<1> HIDE DEF w
<1>3. /\ fault \in BOOLEAN
      /\ fault <=> \/ v.fault
                   \/ s = "CONNECTED" /\ v.state \notin Up /\ v.slc = "none"
                   \/ s = "PLAYING" /\ (v.slc = "none" \/ v.sco = "none")
  <2>1. w.fault \in BOOLEAN /\ (w.fault <=> v.fault)
    BY <1>2 DEF Typed, Fields
  <2>2. Rank(v.state) < 2 <=> v.state \notin Up
    BY Ranks DEF Typed
  <2>3. fault \in BOOLEAN
    BY Zenon, <2>1 DEF fault
  <2> QED
    BY <2>1, <2>2, <2>3, Zenon DEF fault
<1> HIDE DEF fault
<1>4. /\ IsWorld(u) /\ u.state = s /\ u.told = Signalled(v, s) /\ u.fault = fault
      /\ \A f \in Fields \ {"state", "told", "fault"} : u[f] = w[f]
  BY <1>2 DEF IsWorld, Fields
<1> HIDE DEF u
<1> SUFFICES /\ IsWorld(u) /\ u.state = s
             /\ \A f \in Fields \ {"state", "told", "fault", "sco", "live", "tmp", "rfcomm", "slc", "pending_ring"} : u[f] = v[f]
             /\ s = "DISCONNECTED" =>
                  /\ u.sco = "none" /\ u.tmp = "none" /\ u.rfcomm = "none" /\ u.slc = "none"
                  /\ u.pending_ring \in BOOLEAN /\ ~u.pending_ring
                  /\ u.live = v.live \ {IF v.tmp # "none" THEN v.tmp ELSE v.rfcomm}
             /\ s # "DISCONNECTED" =>
                  /\ u.live = v.live /\ u.tmp = v.tmp /\ u.rfcomm = v.rfcomm /\ u.slc = v.slc
                  /\ u.pending_ring = v.pending_ring
                  /\ u.sco = IF s = "CONNECTED" THEN "none" ELSE v.sco
             /\ u.told = Signalled(v, s)
             /\ u.fault \in BOOLEAN
             /\ u.fault <=> \/ v.fault
                            \/ s = "CONNECTED" /\ v.state \notin Up /\ v.slc = "none"
                            \/ s = "PLAYING" /\ (v.slc = "none" \/ v.sco = "none")
  BY <1>1
<1> QED
  BY <1>2, <1>3, <1>4 DEF Fields

\* The state changes and every pointer it needs is there.
LEMMA SetStateBase ==
  ASSUME NEW v, NEW s \in States, Base(v), v.state # s,
         s = "PLAY_IN_PROGRESS" => v.state = "CONNECTED",
         s = "CONNECTED" => v.slc # "none",
         s = "PLAYING" => v.slc # "none" /\ v.sco # "none"
  PROVE  Base(headset_set_state(v, s))
<1> DEFINE u == headset_set_state(v, s)
<1>1. /\ Typed(v) /\ Held(v) /\ v.told = state2str(v.state)
      /\ ~v.fault /\ ~v.lost_ring
      /\ v.slc = "none" <=> v.rfcomm = "none"
      /\ v.preauth <=> v.auths = 1
  BY DEF Base
<1>2. /\ IsWorld(u) /\ u.state = s
      /\ \A f \in Fields \ {"state", "told", "fault", "sco", "live", "tmp", "rfcomm", "slc", "pending_ring"} : u[f] = v[f]
      /\ s = "DISCONNECTED" =>
                  /\ u.sco = "none" /\ u.tmp = "none" /\ u.rfcomm = "none" /\ u.slc = "none"
                  /\ u.pending_ring \in BOOLEAN /\ ~u.pending_ring
                  /\ u.live = v.live \ {IF v.tmp # "none" THEN v.tmp ELSE v.rfcomm}
      /\ s # "DISCONNECTED" =>
                  /\ u.live = v.live /\ u.tmp = v.tmp /\ u.rfcomm = v.rfcomm /\ u.slc = v.slc
                  /\ u.pending_ring = v.pending_ring
                  /\ u.sco = IF s = "CONNECTED" THEN "none" ELSE v.sco
      /\ u.told = Signalled(v, s)
      /\ u.fault \in BOOLEAN
      /\ u.fault <=> \/ v.fault
                     \/ s = "CONNECTED" /\ v.state \notin Up /\ v.slc = "none"
                     \/ s = "PLAYING" /\ (v.slc = "none" \/ v.sco = "none")
  BY <1>1, SetState, Zenon
<1> HIDE DEF u
<1>3. u.told = state2str(s)
  BY <1>1, <1>2, Names DEF Signalled, States, Typed
<1>4. ~u.fault
  BY <1>1, <1>2
<1>5. Typed(u)
  BY <1>1, <1>2 DEF Typed, Fields, Channel
<1>6. Held(u)
  BY <1>1, <1>2 DEF Held, Fields
<1>7. u.slc = "none" <=> u.rfcomm = "none"
  BY <1>1, <1>2
<1>8. /\ u.preauth <=> u.auths = 1
      /\ ~u.lost_ring
  BY <1>1, <1>2 DEF Fields
<1> QED
  <2> SUFFICES Base(u)
    BY DEF u
  <2> QED
    BY <1>2, <1>3, <1>4, <1>5, <1>6, <1>7, <1>8, Zenon DEF Base

LEMMA FinalizeFields ==
  ASSUME NEW v, Base(v), v.pending.svc = v.sdp
  PROVE  LET u == pending_connect_finalize(v)
         IN  /\ Base(u) /\ u.pending = NoPending /\ u.sdp = "none" /\ u.waiting = {}
             /\ \A f \in Fields \ {"sdp", "waiting", "pending"} : u[f] = v[f]
<1> DEFINE u == pending_connect_finalize(v)
<1>1. /\ IsWorld(u) /\ u.pending = NoPending
      /\ u.sdp = (IF v.pending.svc = "none" THEN v.sdp ELSE "none")
      /\ u.waiting = v.waiting \ v.pending.cbs
      /\ \A f \in Fields \ {"sdp", "waiting", "pending"} : u[f] = v[f]
  BY DEF Base, Typed, pending_connect_finalize, IsWorld, Fields
<1> HIDE DEF u
<1> SUFFICES Base(u) /\ u.pending = NoPending /\ u.sdp = "none" /\ u.waiting = {}
             /\ \A f \in Fields \ {"sdp", "waiting", "pending"} : u[f] = v[f]
  BY DEF u
<1>2. u.sdp = "none" /\ u.waiting = {}
  BY <1>1 DEF Base, Held
<1>3. NoPending \in Pendings /\ NoPending.svc = "none" /\ NoPending.cbs = {}
  BY DEF NoPending, Pendings
<1>4. Typed(u)
  BY <1>1, <1>2, <1>3 DEF Base, Typed, Fields
<1>5. Held(u)
  BY <1>1, <1>2, <1>3 DEF Held
<1> QED
  BY <1>1, <1>2, <1>4, <1>5 DEF Base, Fields

LEMMA ReplyFields ==
  ASSUME NEW v, Base(v)
  PROVE  LET u == Reply(v)
         IN  /\ Base(u) /\ (u.pending.on <=> v.pending.on) /\ u.pending.msg = "none"
             /\ u.pending.cbs = v.pending.cbs /\ u.pending.svc = v.pending.svc
             /\ \A f \in Fields \ {"call", "pending"} : u[f] = v[f]
<1> DEFINE u == Reply(v)
<1>1. CASE v.pending.msg = "none"
  BY <1>1 DEF Reply
<1>2. CASE v.pending.msg # "none"
  <2> DEFINE p == [v.pending EXCEPT !.msg = "none"]
  <2>1. /\ p \in Pendings /\ p.msg = "none" /\ (p.on <=> v.pending.on)
        /\ p.cbs = v.pending.cbs /\ p.svc = v.pending.svc
    BY DEF Base, Typed, Pendings
  <2>2. IsWorld(u) /\ u.pending = p /\ \A f \in Fields \ {"call", "pending"} : u[f] = v[f]
    BY <1>2 DEF Base, Typed, Reply, IsWorld, Fields
  <2> HIDE DEF p, u
  <2>3. v.pending.on
    BY <1>2 DEF Base, Held, NoPending
  <2>4. Typed(u)
    BY <2>1, <2>2 DEF Base, Typed, Fields
  <2>5. Held(u)
    BY <2>1, <2>2, <2>3 DEF Base, Held, Fields
  <2>6. Base(u)
    BY <2>2, <2>4, <2>5 DEF Base, Fields
  <2> QED
    BY <2>1, <2>2, <2>6 DEF u
<1> QED
  BY <1>1, <1>2

\* The pending connect ends, answered.
LEMMA AnsweredFields ==
  ASSUME NEW v, Base(v), v.pending.svc = v.sdp
  PROVE  LET u == pending_connect_finalize(Reply(v))
         IN  /\ Base(u) /\ u.pending = NoPending /\ u.sdp = "none" /\ u.waiting = {}
             /\ \A f \in Fields \ {"call", "sdp", "waiting", "pending"} : u[f] = v[f]
<1> DEFINE r == Reply(v)
           u == pending_connect_finalize(r)
<1>1. /\ Base(r) /\ r.pending.svc = r.sdp
      /\ \A f \in Fields \ {"call", "pending"} : r[f] = v[f]
  BY ReplyFields DEF Fields
<1> HIDE DEF r
<1>2. /\ Base(u) /\ u.pending = NoPending /\ u.sdp = "none" /\ u.waiting = {}
      /\ \A f \in Fields \ {"sdp", "waiting", "pending"} : u[f] = r[f]
  BY <1>1, FinalizeFields
<1> HIDE DEF u
<1> QED
  BY <1>1, <1>2 DEF Fields, u, r

LEMMA ConnectCbFields ==
  ASSUME NEW v, Base(v), NEW t \in {"CONNECTED", "PLAYING"}, NEW users \in SUBSET Users
  PROVE  LET u == connect_cb_new(v, t, users)
         IN  /\ Base(u) /\ u.pending.on /\ u.pending.svc = v.pending.svc
             /\ u.pending.msg = v.pending.msg
             /\ u.pending.cbs = v.pending.cbs \cup users
             /\ \A f \in Fields \ {"pending", "waiting"} : u[f] = v[f]
<1> DEFINE w == pending_connect_init(v, t)
           u == connect_cb_new(v, t, users)
<1>1. /\ IsWorld(w) /\ \A f \in Fields \ {"pending"} : w[f] = v[f]
      /\ w.pending \in Pendings /\ w.pending.on
      /\ w.pending.svc = v.pending.svc /\ w.pending.cbs = v.pending.cbs
      /\ w.pending.msg = v.pending.msg
  <2>1. CASE v.pending.on
    <3> DEFINE p == [v.pending EXCEPT !.target = IF Rank(@) < Rank(t) THEN t ELSE @]
    <3>1. /\ p \in Pendings /\ p.on /\ p.svc = v.pending.svc /\ p.cbs = v.pending.cbs
          /\ p.msg = v.pending.msg
      BY <2>1 DEF Base, Typed, Pendings
    <3>2. w = [v EXCEPT !.pending = p]
      BY <2>1, Zenon DEF pending_connect_init
    <3> HIDE DEF p, w
    <3> QED
      BY <3>1, <3>2 DEF Base, Typed, IsWorld, Fields
  <2>2. CASE ~v.pending.on
    <3> DEFINE p == [NoPending EXCEPT !.on = TRUE, !.target = t]
    <3>1. /\ p \in Pendings /\ p.on /\ p.svc = v.pending.svc /\ p.cbs = v.pending.cbs
          /\ p.msg = v.pending.msg
      BY <2>2 DEF Base, Held, NoPending, Pendings
    <3>2. w = [v EXCEPT !.pending = p]
      BY <2>2, Zenon DEF pending_connect_init
    <3> HIDE DEF p, w
    <3> QED
      BY <3>1, <3>2 DEF Base, Typed, IsWorld, Fields
  <2> QED
    BY <2>1, <2>2
<1>2. u = [w EXCEPT !.pending.cbs = @ \cup users, !.waiting = @ \cup users]
  BY DEF connect_cb_new
<1> HIDE DEF w
<1> DEFINE p == [w.pending EXCEPT !.cbs = @ \cup users]
<1>3. /\ p \in Pendings /\ p.on /\ p.svc = v.pending.svc /\ p.cbs = v.pending.cbs \cup users
      /\ p.msg = v.pending.msg
  BY <1>1 DEF Pendings
<1>4. u = [w EXCEPT !.pending = p, !.waiting = w.waiting \cup users]
  BY <1>1, <1>2 DEF Fields, IsWorld
<1> HIDE DEF p, u
<1>5. /\ IsWorld(u) /\ u.pending = p /\ u.waiting = v.waiting \cup users
      /\ \A f \in Fields \ {"pending", "waiting"} : u[f] = v[f]
  BY <1>1, <1>4 DEF IsWorld, Fields
<1>6. Typed(u)
  BY <1>3, <1>5 DEF Base, Typed, Fields
<1>7. Held(u)
  BY <1>3, <1>5 DEF Base, Held, Fields
<1>8. Base(u)
  BY <1>5, <1>6, <1>7 DEF Base, Fields
<1> QED
  BY <1>3, <1>5, <1>8 DEF u

-----------------------------------------------------------------------------
(* What keeps the invariant.                                               *)

Pillars == {"state", "rfcomm", "slc", "auths", "preauth", "pending", "waiting", "told", "fault",
            "lost_ring"}

\* Changes of the other fields keep Base.
LEMMA BaseKept ==
  ASSUME NEW v, NEW u, Base(v), IsWorld(u), \A f \in Pillars : u[f] = v[f],
         u.tmp \in Channel, u.live \subseteq {"out", "in"}, u.pending_ring \in BOOLEAN,
         u.ring \in BOOLEAN, u.dc \in {"none", "live", "stale"}, u.idles \in 0..1,
         u.sco \in {"none", "connecting", "up", "closed"}, u.sdp \in {"none", "HFP", "HSP"},
         u.locks \subseteq Users
  PROVE  Base(u)
<1>1. Typed(u)
  BY DEF Base, Typed, Pillars
<1>2. Held(u)
  BY DEF Base, Held, Pillars
<1> QED
  BY <1>1, <1>2 DEF Base, Pillars

LEMMA GoodKept ==
  ASSUME NEW v, NEW u, Good(v), IsWorld(u), \A f \in Fields \ Minor : u[f] = v[f],
         u.dc \in {"none", "live", "stale"}, u.locks \subseteq Users
  PROVE  Good(u) /\ u.state = v.state
<1>1. /\ \A f \in Pillars : u[f] = v[f]
      /\ u.tmp = v.tmp /\ u.live = v.live /\ u.idles = v.idles /\ u.sco = v.sco /\ u.sdp = v.sdp
      /\ (u.pending_ring <=> v.pending_ring) /\ (u.ring <=> v.ring)
      /\ u.pending_ring \in BOOLEAN /\ u.ring \in BOOLEAN
  BY DEF Good, Base, Typed, Fields, Minor, Pillars
<1>2. Base(u)
  BY <1>1, BaseKept DEF Good, Base, Typed
<1> QED
  BY <1>1, <1>2 DEF Good, Attempt, Audio, Ends, Abandoned, Pillars

\* A connect that is pending stays it, with the same users and search.
LEMMA PendingKept ==
  ASSUME NEW v, NEW u, Good(v), IsWorld(u), \A f \in Fields \ (Minor \cup {"pending"}) : u[f] = v[f],
         u.dc \in {"none", "live", "stale"}, u.locks \subseteq Users,
         v.pending.on, u.pending \in Pendings, u.pending.on,
         u.pending.svc = v.pending.svc, u.pending.cbs = v.pending.cbs
  PROVE  Good(u) /\ u.state = v.state
<1>1. /\ \A f \in Pillars \ {"pending"} : u[f] = v[f]
      /\ u.tmp = v.tmp /\ u.live = v.live /\ u.idles = v.idles /\ u.sco = v.sco /\ u.sdp = v.sdp
      /\ (u.pending_ring <=> v.pending_ring) /\ (u.ring <=> v.ring)
      /\ u.pending_ring \in BOOLEAN /\ u.ring \in BOOLEAN
  BY DEF Good, Base, Typed, Fields, Minor, Pillars
<1>2. Typed(u)
  BY <1>1 DEF Good, Base, Typed, Pillars
<1>3. Held(u)
  BY <1>1 DEF Good, Base, Held, Pillars
<1>4. Base(u)
  BY <1>1, <1>2, <1>3 DEF Good, Base, Pillars
<1> QED
  BY <1>1, <1>4 DEF Good, Attempt, Audio, Ends, Abandoned, Pillars

\* The headset is disconnected.
LEMMA GoesDown ==
  ASSUME NEW v, Base(v), v.pending.svc = v.sdp, v.idles = 0, v.live \subseteq {v.tmp},
         v.state = "DISCONNECTED" => Attempt(v) /\ Audio(v),
         ~Abandoned(headset_set_state(v, "DISCONNECTED"))
  PROVE  /\ Good(headset_set_state(v, "DISCONNECTED"))
         /\ headset_set_state(v, "DISCONNECTED").state = "DISCONNECTED"
<1> DEFINE u == headset_set_state(v, "DISCONNECTED")
<1>1. CASE v.state = "DISCONNECTED"
  <2>1. u = v
    BY <1>1 DEF headset_set_state
  <2> QED
    BY <1>1, <2>1 DEF Good, Ends
<1>2. CASE v.state # "DISCONNECTED"
  <2>1. Base(u)
    BY <1>2, SetStateBase DEF States
  <2>2. /\ u.state = "DISCONNECTED" /\ u.idles = v.idles /\ u.pending.svc = u.sdp
        /\ u.sco = "none" /\ u.tmp = "none" /\ u.rfcomm = "none"
        /\ u.pending_ring \in BOOLEAN /\ ~u.pending_ring
        /\ u.live = v.live \ {IF v.tmp # "none" THEN v.tmp ELSE v.rfcomm}
    BY <1>2, SetState DEF Base, States, Fields
  <2> HIDE DEF u
  <2>3. u.live = {}
    BY <2>2 DEF Base, Typed
  <2>4. ~Abandoned(u)
    BY DEF u
  <2>5. ~u.pending.on
    BY <2>2, <2>4 DEF Abandoned
  <2>6. u.sdp = "none"
    BY <2>1, <2>2, <2>5 DEF Base, Held, NoPending
  <2> QED
    BY <2>1, <2>2, <2>3, <2>4, <2>6 DEF u, Good, Attempt, Audio, Ends, Up
<1> QED
  BY <1>1, <1>2

\* The headset is connected, and has no audio.
LEMMA GoesConnected ==
  ASSUME NEW v, Base(v), v.rfcomm # "none", v.tmp = "none", v.live = {}, v.sdp = "none",
         v.pending.svc = "none", v.auths = 0, v.state = "CONNECTED" => v.sco = "none",
         v.pending_ring => InbandRing /\ ~v.ring /\ v.state \in {"CONNECTED", "PLAY_IN_PROGRESS"}
  PROVE  LET u == headset_set_state(v, "CONNECTED")
         IN  /\ Base(u) /\ Attempt(u) /\ Audio(u) /\ u.state = "CONNECTED"
             /\ \A f \in Fields \ {"state", "told", "fault", "sco"} : u[f] = v[f]
<1> DEFINE u == headset_set_state(v, "CONNECTED")
<1>1. CASE v.state = "CONNECTED"
  <2>1. u = v
    BY <1>1 DEF headset_set_state
  <2>2. Attempt(v) /\ Audio(v)
    BY <1>1 DEF Attempt, Audio, Up
  <2> QED
    BY <1>1, <2>1, <2>2
<1>2. CASE v.state # "CONNECTED"
  <2>1. v.slc # "none"
    BY DEF Base
  <2>2. Base(u)
    BY <1>2, <2>1, SetStateBase DEF States
  <2>3. /\ u.state = "CONNECTED" /\ u.sco = "none"
        /\ \A f \in Fields \ {"state", "told", "fault", "sco"} : u[f] = v[f]
    BY <1>2, SetState DEF Base, States, Fields
  <2> HIDE DEF u
  <2>4. Attempt(u) /\ Audio(u)
    BY <2>3 DEF Attempt, Audio, Up, Fields, Base, Typed
  <2> QED
    BY <2>2, <2>3, <2>4 DEF u
<1> QED
  BY <1>1, <1>2

\* sco_connect fails and leaves all as it was, or the SCO channel is connected.
LEMMA ScoConnects ==
  ASSUME NEW v, Base(v), Attempt(v), Audio(v), v.idles = 0, NEW users \in SUBSET Users,
         NEW io \in BOOLEAN
  PROVE  LET r == sco_connect(v, users, io)
         IN  /\ r.ok \in BOOLEAN
             /\ ~r.ok => r.v = v
             /\ r.ok => /\ v.state = "CONNECTED"
                        /\ Good(r.v) /\ r.v.state = "PLAY_IN_PROGRESS" /\ r.v.pending.on
                        /\ r.v.idles = 0
<1>1. CASE v.state # "CONNECTED" \/ ~io
  BY <1>1 DEF sco_connect, Failed
<1>2. CASE v.state = "CONNECTED" /\ io
  <2> DEFINE w == [v EXCEPT !.sco = "connecting"]
             x == headset_set_state(w, "PLAY_IN_PROGRESS")
             u == connect_cb_new(x, "PLAYING", users)
  <2>1. sco_connect(v, users, io) = Done(u)
    BY <1>2, Zenon DEF sco_connect
  <2>2. IsWorld(w) /\ w.sco = "connecting" /\ \A f \in Fields \ {"sco"} : w[f] = v[f]
    BY DEF Base, Typed, IsWorld, Fields
  <2> HIDE DEF w
  <2>3. Base(w) /\ w.state = "CONNECTED"
    <3>1. /\ \A f \in Pillars : w[f] = v[f]
          /\ w.tmp = v.tmp /\ w.live = v.live /\ w.idles = v.idles /\ w.dc = v.dc /\ w.locks = v.locks
          /\ w.sdp = v.sdp
          /\ w.pending_ring \in BOOLEAN /\ w.ring \in BOOLEAN
      BY <2>2 DEF Base, Typed, Fields, Pillars
    <3> QED
      BY <1>2, <2>2, <3>1, BaseKept DEF Base, Typed, Pillars
  <2>4. Base(x)
    BY <2>3, SetStateBase DEF States
  <2>5. /\ x.state = "PLAY_IN_PROGRESS" /\ x.sco = "connecting"
        /\ \A f \in Fields \ {"state", "told", "fault", "sco"} : x[f] = w[f]
    BY <2>2, <2>3, SetState DEF Base, States, Fields
  <2> HIDE DEF x
  <2>6. /\ Base(u) /\ u.pending.on /\ u.pending.svc = x.pending.svc
        /\ \A f \in Fields \ {"pending", "waiting"} : u[f] = x[f]
    BY <2>4, ConnectCbFields
  <2> HIDE DEF u
  <2>7. /\ u.state = "PLAY_IN_PROGRESS" /\ u.sco = "connecting" /\ u.idles = 0
        /\ u.tmp = v.tmp /\ u.live = v.live /\ u.rfcomm = v.rfcomm /\ u.sdp = v.sdp /\ u.auths = v.auths
        /\ u.pending.svc = v.pending.svc
        /\ (u.pending_ring <=> v.pending_ring) /\ (u.ring <=> v.ring)
    BY <2>2, <2>5, <2>6 DEF Fields
  <2>8. Good(u)
    BY <1>2, <2>6, <2>7 DEF Good, Attempt, Audio, Ends, Abandoned, Up
  <2>9. sco_connect(v, users, io).ok \in BOOLEAN /\ sco_connect(v, users, io).ok /\ sco_connect(v, users, io).v = u
    BY <2>1 DEF Done
  <2> QED
    BY <1>2, <2>6, <2>7, <2>8, <2>9
<1> QED
  BY <1>1, <1>2

\* The state becomes CONNECTING, with a pending connect.
LEMMA StartsConnecting ==
  ASSUME NEW v, Base(v), v.state \in {"DISCONNECTED", "CONNECTING"}, NEW users \in SUBSET Users
  PROVE  LET u == connect_cb_new(headset_set_state(v, "CONNECTING"), "CONNECTED", users)
         IN  /\ Base(u) /\ u.state = "CONNECTING" /\ u.pending.on
             /\ u.pending.svc = v.pending.svc /\ u.pending.msg = v.pending.msg
             /\ \A f \in Fields \ {"state", "told", "fault", "pending", "waiting"} : u[f] = v[f]
<1> DEFINE x == headset_set_state(v, "CONNECTING")
           u == connect_cb_new(x, "CONNECTED", users)
<1>1. /\ Base(x) /\ x.state = "CONNECTING"
      /\ \A f \in Fields \ {"state", "told", "fault"} : x[f] = v[f]
  <2>1. CASE v.state = "CONNECTING"
    BY <2>1 DEF headset_set_state
  <2>2. CASE v.state # "CONNECTING"
    <3>1. Base(x)
      BY <2>2, SetStateBase DEF States
    <3>2. x.state = "CONNECTING" /\ \A f \in Fields \ {"state", "told", "fault"} : x[f] = v[f]
      BY <2>2, SetState DEF Base, States, Fields
    <3> QED
      BY <3>1, <3>2
  <2> QED
    BY <2>1, <2>2
<1> HIDE DEF x
<1>2. /\ Base(u) /\ u.pending.on /\ u.pending.svc = x.pending.svc /\ u.pending.msg = x.pending.msg
      /\ \A f \in Fields \ {"pending", "waiting"} : u[f] = x[f]
  BY <1>1, ConnectCbFields
<1> HIDE DEF u
<1> QED
  BY <1>1, <1>2 DEF Fields, u, x

\* A search begins, or nothing.
LEMMA Searches ==
  ASSUME NEW v, Good(v), Quiet(v), v.state = "DISCONNECTED", NEW users \in SUBSET Users,
         NEW io \in BOOLEAN
  PROVE  LET r == get_records(v, users, io)
         IN  /\ r.ok \in BOOLEAN
             /\ ~r.ok => r.v = v
             /\ r.ok => Good(r.v) /\ r.v.state = "CONNECTING" /\ r.v.pending.on
<1> DEFINE w == [v EXCEPT !.sdp = "HFP"]
           x == connect_cb_new(headset_set_state(w, "CONNECTING"), "CONNECTED", users)
           u == [x EXCEPT !.pending.svc = "HFP"]
           r == get_records(v, users, io)
<1>1. ~v.pending.on /\ v.pending.svc = "none" /\ v.auths = 0
  BY DEF Good, Base, Typed, Held, NoPending, Quiet, Attempt, Audio, Ends, Abandoned
<1>2. r = IF io THEN Done(u) ELSE Failed(v)
  BY <1>1 DEF get_records
<1>3. IsWorld(w) /\ w.sdp = "HFP" /\ \A f \in Fields \ {"sdp"} : w[f] = v[f]
  BY DEF Good, Base, Typed, IsWorld, Fields
<1> HIDE DEF w
<1>4. Base(w) /\ w.state = "DISCONNECTED"
  <2>1. /\ \A f \in Pillars : w[f] = v[f]
        /\ w.tmp = v.tmp /\ w.live = v.live /\ w.idles = v.idles /\ w.dc = v.dc /\ w.locks = v.locks
        /\ w.sco = v.sco /\ w.pending_ring \in BOOLEAN /\ w.ring \in BOOLEAN
    BY <1>3 DEF Good, Base, Typed, Fields, Pillars
  <2> QED
    BY <1>3, <2>1, BaseKept DEF Good, Base, Typed, Pillars
<1>5. /\ Base(x) /\ x.state = "CONNECTING" /\ x.pending.on
      /\ \A f \in Fields \ {"state", "told", "fault", "pending", "waiting"} : x[f] = w[f]
  BY <1>4, StartsConnecting
<1> HIDE DEF x
<1>6. /\ IsWorld(u) /\ \A f \in Fields \ {"pending"} : u[f] = x[f]
      /\ u.pending = [x.pending EXCEPT !.svc = "HFP"]
  BY <1>5 DEF Base, Typed, IsWorld, Fields
<1> HIDE DEF u
<1>7. /\ u.pending \in Pendings /\ u.pending.on /\ u.pending.svc = "HFP"
      /\ u.pending.cbs = x.pending.cbs
  BY <1>5, <1>6 DEF Base, Typed, Pendings
<1>8. /\ \A f \in Pillars \ {"pending"} : u[f] = x[f]
      /\ u.tmp = v.tmp /\ u.live = v.live /\ u.sco = v.sco /\ u.idles = v.idles
      /\ u.sdp = "HFP" /\ u.rfcomm = v.rfcomm /\ u.auths = v.auths
      /\ u.dc = x.dc /\ u.locks = x.locks
      /\ (u.pending_ring <=> v.pending_ring) /\ (u.ring <=> v.ring)
      /\ u.pending_ring \in BOOLEAN /\ u.ring \in BOOLEAN /\ u.state = "CONNECTING"
  BY <1>3, <1>5, <1>6 DEF Good, Base, Typed, Fields, Pillars
<1>9. Typed(u)
  BY <1>5, <1>6, <1>7, <1>8 DEF Good, Base, Typed, Pillars
<1>10. Held(u)
  BY <1>5, <1>7, <1>8 DEF Base, Held, Pillars
<1>11. Base(u)
  BY <1>5, <1>8, <1>9, <1>10 DEF Base, Pillars
<1>12. Good(u)
  BY <1>1, <1>7, <1>8, <1>11 DEF Good, Attempt, Audio, Ends, Abandoned, Up
<1>13. /\ r.ok \in BOOLEAN /\ (r.ok <=> io)
       /\ r.v = IF io THEN u ELSE v
  BY <1>2 DEF Done, Failed
<1> QED
  BY <1>7, <1>8, <1>12, <1>13

\* A channel is connected, a search begins, or nothing.
LEMMA Connects ==
  ASSUME NEW v, Good(v), Quiet(v), v.state = "DISCONNECTED", NEW users \in SUBSET Users,
         NEW io \in BOOLEAN, NEW allow \in BOOLEAN
  PROVE  LET r == rfcomm_connect(v, users, io, allow)
         IN  /\ r.ok \in BOOLEAN
             /\ Good(r.v)
             /\ ~r.ok => r.v.state = v.state
             /\ r.ok => r.v.state = "CONNECTING" /\ r.v.pending.on
<1> DEFINE w == [v EXCEPT !.ch = FALSE, !.tmp = "out", !.live = @ \cup {"out"}, !.hfp = v.handle]
           u == connect_cb_new(headset_set_state(w, "CONNECTING"), "CONNECTED", users)
           n == [v EXCEPT !.ch = FALSE, !.tmp = "none"]
           r == rfcomm_connect(v, users, io, allow)
<1>1. CASE ~allow
  BY <1>1 DEF rfcomm_connect, Failed
<1>2. CASE allow /\ ~v.ch
  <2>1. r = get_records(v, users, io)
    BY <1>2 DEF rfcomm_connect
  <2> QED
    BY <2>1, Searches
<1>3. CASE allow /\ v.ch /\ ~io
  <2>1. r = Failed(n)
    BY <1>3 DEF rfcomm_connect
  <2>2. IsWorld(n) /\ n.tmp = "none" /\ \A f \in Fields \ {"ch", "tmp"} : n[f] = v[f]
    BY DEF Good, Base, Typed, IsWorld, Fields
  <2>3. r.v = n /\ r.ok \in BOOLEAN /\ ~r.ok
    BY <2>1 DEF Failed
  <2> HIDE DEF n, r
  <2>4. \A f \in Fields \ Minor : n[f] = v[f]
    BY <2>2 DEF Good, Attempt, Fields, Minor
  <2>5. Good(n) /\ n.state = v.state
    BY <2>2, <2>4, GoodKept DEF Good, Base, Typed, Fields
  <2> QED
    BY <2>3, <2>5 DEF r
<1>4. CASE allow /\ v.ch /\ io
  <2>1. r = Done(u)
    BY <1>4 DEF rfcomm_connect
  <2>2. /\ IsWorld(w) /\ w.tmp = "out" /\ w.live = v.live \cup {"out"}
        /\ \A f \in Fields \ {"ch", "tmp", "live", "hfp"} : w[f] = v[f]
    BY DEF Good, Base, Typed, IsWorld, Fields
  <2> HIDE DEF w
  <2>3. Base(w) /\ w.state = "DISCONNECTED"
    <3>1. /\ \A f \in Pillars : w[f] = v[f]
          /\ w.idles = v.idles /\ w.dc = v.dc /\ w.locks = v.locks
          /\ w.sco = v.sco /\ w.sdp = v.sdp /\ w.pending_ring \in BOOLEAN /\ w.ring \in BOOLEAN
      BY <2>2 DEF Good, Base, Typed, Fields, Pillars
    <3> QED
      BY <2>2, <3>1, BaseKept DEF Good, Base, Typed, Pillars, Channel
  <2>4. /\ Base(u) /\ u.state = "CONNECTING" /\ u.pending.on /\ u.pending.svc = w.pending.svc
        /\ \A f \in Fields \ {"state", "told", "fault", "pending", "waiting"} : u[f] = w[f]
    BY <2>3, StartsConnecting
  <2> HIDE DEF u
  <2>5. /\ u.tmp = "out" /\ u.live = {"out"} /\ u.rfcomm = "none" /\ u.sdp = "none" /\ u.auths = 0
        /\ u.pending.svc = "none" /\ u.idles = 0
        /\ u.sco = v.sco /\ (u.pending_ring <=> v.pending_ring) /\ (u.ring <=> v.ring)
    BY <2>2, <2>4 DEF Fields, Good, Base, Typed, Attempt, Quiet
  <2>6. Good(u)
    BY <2>4, <2>5 DEF Good, Attempt, Audio, Ends, Abandoned, Up
  <2>7. r.v = u /\ r.ok \in BOOLEAN /\ r.ok
    BY <2>1 DEF Done
  <2> QED
    BY <2>4, <2>6, <2>7
<1> QED
  BY <1>1, <1>2, <1>3, <1>4

-----------------------------------------------------------------------------
(* Methods of the Headset interface.                                       *)

LEMMA LiveIsTmp ==
  ASSUME NEW v, Good(v)
  PROVE  v.live \subseteq {v.tmp} /\ v.pending.svc = v.sdp
  BY DEF Good, Base, Typed, Attempt, Up, States

LEMMA Shutdown ==
  ASSUME NEW v, Good(v), v.idles = 0
  PROVE  Good(headset_shutdown(v)) /\ headset_shutdown(v).state = "DISCONNECTED"
<1> DEFINE w == pending_connect_finalize(Reply(v))
           u == headset_set_state(w, "DISCONNECTED")
<1>1. Base(v) /\ v.live \subseteq {v.tmp} /\ v.pending.svc = v.sdp
  BY LiveIsTmp DEF Good
<1>2. /\ Base(w) /\ w.pending = NoPending /\ w.sdp = "none"
      /\ \A f \in Fields \ {"call", "sdp", "waiting", "pending"} : w[f] = v[f]
  BY <1>1, AnsweredFields
<1> HIDE DEF w
<1>3. ~Abandoned(u)
  <2>1. u.pending = w.pending
    <3>1. CASE w.state = "DISCONNECTED"
      BY <3>1 DEF headset_set_state
    <3>2. CASE w.state # "DISCONNECTED"
      BY <1>2, <3>2, SetState DEF Base, States, Fields
    <3> QED
      BY <3>1, <3>2
  <2> QED
    BY <1>2, <2>1 DEF Abandoned, NoPending
<1>4. w.state = "DISCONNECTED" => Attempt(w) /\ Audio(w)
  BY <1>2 DEF Good, Base, Typed, Attempt, Audio, Fields, NoPending, Up
<1>5. /\ w.pending.svc = w.sdp /\ w.idles = 0 /\ w.live \subseteq {w.tmp}
  BY <1>1, <1>2 DEF Fields, NoPending
<1>6. Good(u) /\ u.state = "DISCONNECTED"
  BY <1>2, <1>3, <1>4, <1>5, GoesDown
<1> QED
  BY <1>6 DEF headset_shutdown, w

\* A client's call is the one of the pending connect.
LEMMA MsgKept ==
  ASSUME NEW v, Good(v), v.pending.on, NEW c \in Clients, NEW u, IsWorld(u),
         \A f \in Fields \ {"auto_dc", "pending", "call"} : u[f] = v[f],
         u.pending = [v.pending EXCEPT !.msg = c]
  PROVE  Good(u) /\ u.state = v.state
<1>1. /\ u.pending \in Pendings /\ u.pending.on
      /\ u.pending.svc = v.pending.svc /\ u.pending.cbs = v.pending.cbs
  BY DEF Good, Base, Typed, Pendings
<1>2. \A f \in Fields \ (Minor \cup {"pending"}) : u[f] = v[f]
  BY DEF Minor
<1>3. u.dc \in {"none", "live", "stale"} /\ u.locks \subseteq Users
  BY DEF Good, Base, Typed, Fields
<1> QED
  BY <1>1, <1>2, <1>3, PendingKept

LEMMA ConnectStep ==
  ASSUME Good(h), Quiet(h), NEW c \in Clients, NEW io \in BOOLEAN, NEW allow \in BOOLEAN,
         hs_connect(c, io, allow)
  PROVE  Step(h, h')
<1> DEFINE r == rfcomm_connect(h, {}, io, allow)
<1>1. /\ h.state = "DISCONNECTED"
      /\ h' = IF r.ok THEN [r.v EXCEPT !.auto_dc = FALSE, !.pending.msg = c, !.call[c] = "connect"]
              ELSE r.v
  BY DEF hs_connect
<1>2. /\ r.ok \in BOOLEAN
      /\ Good(r.v)
      /\ ~r.ok => r.v.state = h.state
      /\ r.ok => r.v.state = "CONNECTING" /\ r.v.pending.on
  BY <1>1, Connects
<1> HIDE DEF r
<1>3. Good(h') /\ h'.state = r.v.state
  <2>1. CASE r.ok
    <3>1. /\ IsWorld(h') /\ \A f \in Fields \ {"auto_dc", "pending", "call"} : h'[f] = r.v[f]
          /\ h'.pending = [r.v.pending EXCEPT !.msg = c]
      BY <1>1, <1>2, <2>1 DEF Good, Base, Typed, IsWorld, Fields
    <3> QED
      BY <1>2, <2>1, <3>1, MsgKept
  <2>2. CASE ~r.ok
    BY <1>1, <1>2, <2>2
  <2> QED
    BY <2>1, <2>2
<1> QED
  BY <1>1, <1>2, <1>3 DEF Step, Moves

LEMMA DisconnectStep ==
  ASSUME Good(h), Quiet(h), hs_disconnect
  PROVE  Step(h, h')
  BY Shutdown DEF hs_disconnect, Quiet, Step, Moves

\* What GoesConnected needs, in the states that have a channel.
LEMMA UpIsConnected ==
  ASSUME NEW v, Good(v), v.state \in Up
  PROVE  /\ Base(v) /\ v.rfcomm # "none" /\ v.tmp = "none" /\ v.live = {} /\ v.sdp = "none"
         /\ v.pending.svc = "none" /\ v.auths = 0 /\ (v.state = "CONNECTED" => v.sco = "none")
         /\ v.pending_ring => InbandRing /\ ~v.ring /\ v.state \in {"CONNECTED", "PLAY_IN_PROGRESS"}
  BY DEF Good, Attempt, Audio

LEMMA StopStep ==
  ASSUME Good(h), Quiet(h), ~Abandoned(h'), hs_stop
  PROVE  Step(h, h')
<1>1. h.state \in {"PLAY_IN_PROGRESS", "PLAYING"} /\ h' = headset_set_state(h, "CONNECTED")
  BY Ranks DEF hs_stop, Good, Base, Typed
<1>2. Base(h') /\ Attempt(h') /\ Audio(h') /\ h'.state = "CONNECTED"
  BY <1>1, UpIsConnected, GoesConnected DEF Up
<1> QED
  BY <1>1, <1>2 DEF Step, Good, Ends, Moves, Up

LEMMA PlayStep ==
  ASSUME Good(h), Quiet(h), NEW c \in Clients, NEW io \in BOOLEAN, hs_play(c, io)
  PROVE  Step(h, h')
<1> DEFINE r == sco_connect(h, {}, io)
<1>1. CASE /\ h.state = "PLAY_IN_PROGRESS" /\ h.pending.on
           /\ h' = [h EXCEPT !.pending.msg = c, !.call[c] = "play"]
  <2>1. /\ IsWorld(h') /\ \A f \in Fields \ {"auto_dc", "pending", "call"} : h'[f] = h[f]
        /\ h'.pending = [h.pending EXCEPT !.msg = c]
    BY <1>1 DEF Good, Base, Typed, IsWorld, Fields
  <2>2. h.pending.on
    BY <1>1
  <2>3. Good(h') /\ h'.state = h.state
    BY <2>1, <2>2, MsgKept
  <2> QED
    BY <2>3 DEF Step, Moves
<1>2. CASE /\ h.state = "CONNECTED" /\ r.ok
           /\ h' = [r.v EXCEPT !.pending.msg = c, !.call[c] = "play"]
  <2>1. Good(r.v) /\ r.v.state = "PLAY_IN_PROGRESS" /\ r.v.pending.on
    BY <1>2, ScoConnects DEF Good, Quiet
  <2> HIDE DEF r
  <2>2. Good(h') /\ h'.state = r.v.state
    <3>1. /\ IsWorld(h') /\ \A f \in Fields \ {"auto_dc", "pending", "call"} : h'[f] = r.v[f]
          /\ h'.pending = [r.v.pending EXCEPT !.msg = c]
      BY <1>2, <2>1 DEF Good, Base, Typed, IsWorld, Fields
    <3> QED
      BY <2>1, <3>1, MsgKept
  <2> QED
    BY <1>2, <2>1, <2>2 DEF Step, Moves, Up
<1> QED
  BY <1>1, <1>2 DEF hs_play

\* Nothing but ringing changes.
LEMMA RingKept ==
  ASSUME NEW v, NEW u, Good(v), IsWorld(u),
         \A f \in Fields \ {"ring", "pending_ring", "ready"} : u[f] = v[f],
         u.ring \in BOOLEAN, u.pending_ring \in BOOLEAN,
         u.pending_ring => InbandRing /\ ~u.ring /\ v.state \in {"CONNECTED", "PLAY_IN_PROGRESS"}
  PROVE  Good(u) /\ u.state = v.state
<1>1. /\ \A f \in Pillars : u[f] = v[f]
      /\ u.tmp = v.tmp /\ u.live = v.live /\ u.idles = v.idles /\ u.sco = v.sco /\ u.sdp = v.sdp
      /\ u.dc = v.dc /\ u.locks = v.locks
  BY DEF Fields, Pillars
<1>2. Base(u)
  BY <1>1, BaseKept DEF Good, Base, Typed
<1> QED
  BY <1>1, <1>2 DEF Good, Attempt, Audio, Ends, Abandoned, Pillars

LEMMA RingSteps ==
  ASSUME Expected, Good(h), Quiet(h), hs_ring \/ hs_cancel_call \/ AnswerOrReject \/ Telephony
  PROVE  Step(h, h')
<1> SUFFICES /\ IsWorld(h') /\ \A f \in Fields \ {"ring", "pending_ring", "ready"} : h'[f] = h[f]
             /\ h'.ring \in BOOLEAN /\ h'.pending_ring \in BOOLEAN
             /\ h'.pending_ring => InbandRing /\ ~h'.ring /\ h.state \in {"CONNECTED", "PLAY_IN_PROGRESS"}
  BY RingKept DEF Step, Moves
<1>1. /\ IsWorld(h) /\ h.ring \in BOOLEAN /\ h.pending_ring \in BOOLEAN /\ h.state \in States
      /\ h.pending_ring => InbandRing /\ ~h.ring /\ h.state \in {"CONNECTED", "PLAY_IN_PROGRESS"}
      /\ "indicate" \notin Environment /\ "telephony" \notin Environment
  BY DEF Good, Base, Typed, Audio, Expected
<1>2. CASE hs_ring
  BY <1>1, <1>2 DEF hs_ring, IsWorld, Fields
<1>3. CASE hs_cancel_call
  BY <1>1, <1>3 DEF hs_cancel_call, IsWorld, Fields
<1>4. CASE AnswerOrReject
  BY <1>1, <1>4 DEF AnswerOrReject, IsWorld, Fields
<1>5. CASE telephony_incoming_call_ind
  <2>1. h.state \in Up /\ ~h.ring
    BY <1>1, <1>5, Ranks DEF telephony_incoming_call_ind
  <2>2. CASE InbandRing /\ h.state # "PLAYING" /\ h' = [h EXCEPT !.pending_ring = TRUE]
    BY <1>1, <2>1, <2>2 DEF IsWorld, Fields, Up
  <2>3. CASE ~(InbandRing /\ h.state # "PLAYING") /\ h' = [h EXCEPT !.ring = TRUE]
    BY <1>1, <2>1, <2>3 DEF IsWorld, Fields, Up
  <2> QED
    BY <1>5, <2>2, <2>3 DEF telephony_incoming_call_ind
<1>6. CASE telephony_calling_stopped_ind
  BY <1>1, <1>6 DEF telephony_calling_stopped_ind, IsWorld, Fields
<1>7. CASE telephony_ready_ind
  BY <1>1, <1>7 DEF telephony_ready_ind, IsWorld, Fields
<1>8. CASE telephony_deinit
  <2>1. ~h.ring /\ ~h.lost_ring /\ h.lost_ring \in BOOLEAN
    BY <1>1, <1>8 DEF telephony_deinit, Good, Base, Typed
  <2>2. (h.lost_ring \/ h.ring) = h.lost_ring
    BY <2>1, Zenon
  <2>3. h' = [h EXCEPT !.ready = FALSE, !.ring = FALSE, !.lost_ring = h.lost_ring]
    BY <1>8, <2>2 DEF telephony_deinit
  <2> QED
    BY <1>1, <2>3 DEF IsWorld, Fields
<1> QED
  BY <1>2, <1>3, <1>4, <1>5, <1>6, <1>7, <1>8 DEF Telephony

-----------------------------------------------------------------------------
(* Streams.                                                                *)

\* Another user joins the connect that is under way.
LEMMA Joins ==
  ASSUME NEW v, Good(v), v.state \in {"CONNECTING", "PLAY_IN_PROGRESS"} \/ v.sco = "closed",
         NEW t \in {"CONNECTED", "PLAYING"}, NEW users \in SUBSET Users
  PROVE  LET u == connect_cb_new(v, t, users)
         IN  Good(u) /\ u.state = v.state
<1> DEFINE u == connect_cb_new(v, t, users)
<1>1. /\ Base(u) /\ u.pending.on /\ u.pending.svc = v.pending.svc
      /\ \A f \in Fields \ {"pending", "waiting"} : u[f] = v[f]
  BY ConnectCbFields DEF Good
<1> HIDE DEF u
<1>2. /\ u.state = v.state /\ u.tmp = v.tmp /\ u.live = v.live /\ u.rfcomm = v.rfcomm /\ u.sdp = v.sdp
      /\ u.auths = v.auths /\ u.sco = v.sco /\ u.idles = v.idles
      /\ (u.pending_ring <=> v.pending_ring) /\ (u.ring <=> v.ring)
  BY <1>1 DEF Fields
<1>3. Good(u)
  BY <1>1, <1>2 DEF Good, Attempt, Audio, Ends, Abandoned
<1> QED
  BY <1>2, <1>3 DEF u

\* A user of a headset that is up is called back when the loop is idle.
LEMMA JoinsIdle ==
  ASSUME NEW v, Good(v), v.state \in Up, v.idles = 0,
         NEW t \in {"CONNECTED", "PLAYING"}, NEW users \in SUBSET Users, NEW u,
         u = QueueIdle(connect_cb_new(v, t, users)) \/ u = connect_cb_new(QueueIdle(v), t, users)
  PROVE  Good(u) /\ u.state = v.state
<1>1. /\ Base(u) /\ u.pending.on /\ u.pending.svc = v.pending.svc /\ u.idles = 1
      /\ \A f \in Fields \ {"pending", "waiting", "idles"} : u[f] = v[f]
  <2>1. CASE u = QueueIdle(connect_cb_new(v, t, users))
    <3> DEFINE w == connect_cb_new(v, t, users)
    <3>1. /\ Base(w) /\ w.pending.on /\ w.pending.svc = v.pending.svc
          /\ \A f \in Fields \ {"pending", "waiting"} : w[f] = v[f]
      BY ConnectCbFields DEF Good
    <3>2. u = QueueIdle(w)
      BY <2>1
    <3> HIDE DEF w
    <3>3. IsWorld(u) /\ u.idles = 1 /\ \A f \in Fields \ {"idles"} : u[f] = w[f]
      BY <3>1, <3>2 DEF QueueIdle, Base, Typed, IsWorld, Fields
    <3>4. /\ \A f \in Pillars : u[f] = w[f]
          /\ u.tmp = w.tmp /\ u.live = w.live /\ u.sco = w.sco /\ u.sdp = w.sdp
          /\ u.dc = w.dc /\ u.locks = w.locks /\ u.pending_ring \in BOOLEAN /\ u.ring \in BOOLEAN
      BY <3>1, <3>3 DEF Base, Typed, Fields, Pillars
    <3>5. Base(u)
      BY <3>1, <3>3, <3>4, BaseKept DEF Base, Typed
    <3> QED
      BY <3>1, <3>3, <3>5 DEF Fields
  <2>2. CASE u = connect_cb_new(QueueIdle(v), t, users)
    <3> DEFINE w == QueueIdle(v)
    <3>1. IsWorld(w) /\ w.idles = 1 /\ \A f \in Fields \ {"idles"} : w[f] = v[f]
      BY DEF QueueIdle, Good, Base, Typed, IsWorld, Fields
    <3>2. u = connect_cb_new(w, t, users)
      BY <2>2
    <3> HIDE DEF w
    <3>3. /\ \A f \in Pillars : w[f] = v[f]
          /\ w.tmp = v.tmp /\ w.live = v.live /\ w.sco = v.sco /\ w.sdp = v.sdp
          /\ w.dc = v.dc /\ w.locks = v.locks /\ w.pending_ring \in BOOLEAN /\ w.ring \in BOOLEAN
      BY <3>1 DEF Good, Base, Typed, Fields, Pillars
    <3>4. Base(w)
      BY <3>1, <3>3, BaseKept DEF Good, Base, Typed
    <3>5. /\ Base(u) /\ u.pending.on /\ u.pending.svc = w.pending.svc
          /\ \A f \in Fields \ {"pending", "waiting"} : u[f] = w[f]
      BY <3>2, <3>4, ConnectCbFields
    <3> QED
      BY <3>1, <3>5 DEF Fields
  <2> QED
    BY <2>1, <2>2
<1>2. /\ u.state = v.state /\ u.tmp = v.tmp /\ u.live = v.live /\ u.rfcomm = v.rfcomm /\ u.sdp = v.sdp
      /\ u.auths = v.auths /\ u.sco = v.sco
      /\ (u.pending_ring <=> v.pending_ring) /\ (u.ring <=> v.ring)
  BY <1>1 DEF Fields
<1> QED
  BY <1>1, <1>2 DEF Good, Attempt, Audio, Ends, Abandoned

LEMMA TargetKept ==
  ASSUME NEW v, Good(v), v.pending.on, NEW t \in {"CONNECTED", "PLAYING"}, NEW a
  PROVE  LET u == [v EXCEPT !.auto_dc = a, !.pending.target = t]
         IN  Good(u) /\ u.state = v.state
<1> DEFINE u == [v EXCEPT !.auto_dc = a, !.pending.target = t]
<1>1. /\ IsWorld(u) /\ \A f \in Fields \ {"auto_dc", "pending"} : u[f] = v[f]
      /\ u.pending = [v.pending EXCEPT !.target = t]
  BY DEF Good, Base, Typed, IsWorld, Fields
<1> HIDE DEF u
<1>2. /\ u.pending \in Pendings /\ u.pending.on
      /\ u.pending.svc = v.pending.svc /\ u.pending.cbs = v.pending.cbs
  BY <1>1 DEF Good, Base, Typed, Pendings
<1>3. \A f \in Fields \ (Minor \cup {"pending"}) : u[f] = v[f]
  BY <1>1 DEF Minor
<1>4. u.dc \in {"none", "live", "stale"} /\ u.locks \subseteq Users
  BY <1>1 DEF Good, Base, Typed, Fields
<1>5. Good(u) /\ u.state = v.state
  BY <1>1, <1>2, <1>3, <1>4, PendingKept
<1> QED
  BY <1>5 DEF u

LEMMA DcTimerKept ==
  ASSUME NEW v, Good(v), NEW u, u = RemoveDcTimer(v) \/ u = SetDcTimer(v)
  PROVE  Good(u) /\ \A f \in Fields \ {"dc", "lost_dc"} : u[f] = v[f]
<1>1. /\ IsWorld(u) /\ u.dc \in {"none", "live", "stale"}
      /\ \A f \in Fields \ {"dc", "lost_dc"} : u[f] = v[f]
  BY DEF RemoveDcTimer, SetDcTimer, Good, Base, Typed, IsWorld, Fields
<1>2. (\A f \in Fields \ Minor : u[f] = v[f]) /\ u.locks \subseteq Users
  BY <1>1 DEF Minor, Good, Base, Typed, Fields
<1> QED
  BY <1>1, <1>2, GoodKept

LEMMA ConfigStream ==
  ASSUME NEW v, Good(v), Quiet(v), NEW a \in BOOLEAN, NEW users \in SUBSET Users,
         NEW io \in BOOLEAN, NEW allow \in BOOLEAN
  PROVE  Step(v, headset_config_stream(v, a, users, io, allow))
<1> DEFINE u == RemoveDcTimer(v)
           r == rfcomm_connect(u, users, io, allow)
           w == headset_config_stream(v, a, users, io, allow)
<1>1. Good(u) /\ Quiet(u) /\ u.state = v.state /\ u.rfcomm = v.rfcomm /\ u.idles = 0
  <2>1. Good(u) /\ \A f \in Fields \ {"dc", "lost_dc"} : u[f] = v[f]
    BY DcTimerKept
  <2> QED
    BY <2>1 DEF Quiet, Fields
<1>2. w = IF v.state = "CONNECTING" THEN connect_cb_new(u, "CONNECTED", users)
          ELSE IF v.rfcomm # "none" THEN QueueIdle(connect_cb_new(u, "CONNECTED", users))
          ELSE IF r.ok THEN [r.v EXCEPT !.auto_dc = a, !.pending.target = "CONNECTED"] ELSE r.v
  BY DEF headset_config_stream
<1> HIDE DEF u, w
<1>3. CASE v.state = "CONNECTING"
  BY <1>1, <1>2, <1>3, Joins DEF Step, Moves, w
<1>4. CASE v.state # "CONNECTING" /\ v.rfcomm # "none"
  <2>1. v.state \in Up
    BY <1>4 DEF Good, Base, Typed, Attempt, States, Up
  <2>2. Good(w) /\ w.state = u.state
    BY <1>1, <1>2, <1>4, <2>1, JoinsIdle
  <2> QED
    BY <1>1, <2>2 DEF Step, Moves, w
<1>5. CASE v.state # "CONNECTING" /\ v.rfcomm = "none"
  <2>1. v.state = "DISCONNECTED"
    BY <1>5 DEF Good, Base, Typed, Attempt, States, Up
  <2>2. /\ r.ok \in BOOLEAN
        /\ Good(r.v)
        /\ ~r.ok => r.v.state = u.state
        /\ r.ok => r.v.state = "CONNECTING" /\ r.v.pending.on
    BY <1>1, <2>1, Connects
  <2> HIDE DEF r
  <2>3. w = IF r.ok THEN [r.v EXCEPT !.auto_dc = a, !.pending.target = "CONNECTED"] ELSE r.v
    BY <1>2, <1>5
  <2>4. Good(w) /\ w.state = r.v.state
    BY <2>2, <2>3, TargetKept
  <2> QED
    BY <1>1, <2>1, <2>2, <2>4 DEF Step, Moves, w
<1> QED
  BY <1>3, <1>4, <1>5

LEMMA RequestStream ==
  ASSUME NEW v, Good(v), Quiet(v), NEW users \in SUBSET Users,
         NEW io \in BOOLEAN, NEW allow \in BOOLEAN
  PROVE  Step(v, headset_request_stream(v, users, io, allow))
<1> DEFINE u == RemoveDcTimer(v)
           r == IF v.rfcomm = "none" THEN rfcomm_connect(u, users, io, allow) ELSE sco_connect(u, users, io)
           a == r.v.auto_dc \/ v.rfcomm = "none"
           w == headset_request_stream(v, users, io, allow)
<1>1. Good(u) /\ Quiet(u) /\ u.state = v.state /\ u.rfcomm = v.rfcomm /\ u.idles = 0
  <2>1. Good(u) /\ \A f \in Fields \ {"dc", "lost_dc"} : u[f] = v[f]
    BY DcTimerKept
  <2> QED
    BY <2>1 DEF Quiet, Fields
<1>2. w = IF v.state = "PLAYING" THEN QueueIdle(connect_cb_new(v, "PLAYING", users))
          ELSE IF v.state \in {"CONNECTING", "PLAY_IN_PROGRESS"} THEN connect_cb_new(u, "PLAYING", users)
          ELSE IF ~r.ok THEN r.v
          ELSE [r.v EXCEPT !.auto_dc = a, !.pending.target = "PLAYING"]
  BY DEF headset_request_stream
<1> HIDE DEF u, w
<1>3. CASE v.state = "PLAYING"
  <2>1. Good(w) /\ w.state = v.state
    BY <1>2, <1>3, JoinsIdle DEF Quiet, Up
  <2> QED
    BY <2>1 DEF Step, Moves, w
<1>4. CASE v.state \in {"CONNECTING", "PLAY_IN_PROGRESS"}
  <2>1. w = connect_cb_new(u, "PLAYING", users)
    BY <1>2, <1>4
  <2>2. Good(w) /\ w.state = u.state
    BY <1>1, <1>4, <2>1, Joins
  <2> QED
    BY <1>1, <2>2 DEF Step, Moves, w
<1>5. CASE v.state \in {"DISCONNECTED", "CONNECTED"}
  <2>1. v.state = "DISCONNECTED" <=> v.rfcomm = "none"
    BY <1>5 DEF Good, Attempt, Up
  <2>2. /\ r.ok \in BOOLEAN
        /\ Good(r.v)
        /\ ~r.ok => r.v.state = u.state
        /\ r.ok => /\ r.v.pending.on
                   /\ \/ u.state = "DISCONNECTED" /\ r.v.state = "CONNECTING"
                      \/ u.state = "CONNECTED" /\ r.v.state = "PLAY_IN_PROGRESS"
    <3>1. CASE v.rfcomm = "none"
      BY <1>1, <2>1, <3>1, Connects
    <3>2. CASE v.rfcomm # "none"
      <4>1. r = sco_connect(u, users, io)
        BY <3>2
      <4> QED
        BY <1>1, <4>1, ScoConnects DEF Good
    <3> QED
      BY <3>1, <3>2
  <2> HIDE DEF r, a
  <2>3. w = IF ~r.ok THEN r.v ELSE [r.v EXCEPT !.auto_dc = a, !.pending.target = "PLAYING"]
    BY <1>2, <1>5
  <2>4. Good(w) /\ w.state = r.v.state
    BY <2>2, <2>3, TargetKept
  <2> QED
    BY <1>1, <2>2, <2>4 DEF Step, Moves, Up, w
<1> QED
  BY <1>3, <1>4, <1>5 DEF Good, Base, Typed, States

LEMMA SuspendStream ==
  ASSUME NEW v, Good(v), Quiet(v), v.state \in Up, NEW users \in SUBSET Users
  PROVE  Step(v, headset_suspend_stream(v, users))
<1> DEFINE u == RemoveDcTimer(v)
           x == [u EXCEPT !.sco = "closed"]
           w == headset_suspend_stream(v, users)
<1>1. /\ Good(u) /\ u.state = v.state /\ u.idles = 0 /\ u.sco = v.sco
  <2>1. Good(u) /\ \A f \in Fields \ {"dc", "lost_dc"} : u[f] = v[f]
    BY DcTimerKept
  <2> QED
    BY <2>1 DEF Quiet, Fields
<1> HIDE DEF u
<1>2. CASE v.sco # "none"
  <2>1. w = connect_cb_new(x, "CONNECTED", users)
    BY <1>2 DEF headset_suspend_stream, u
  <2>2. IsWorld(x) /\ x.sco = "closed" /\ \A f \in Fields \ {"sco"} : x[f] = u[f]
    BY <1>1 DEF Good, Base, Typed, IsWorld, Fields
  <2> HIDE DEF x, w
  <2>3. /\ \A f \in Pillars : x[f] = u[f]
        /\ x.tmp = u.tmp /\ x.live = u.live /\ x.idles = u.idles /\ x.sdp = u.sdp
        /\ x.dc = u.dc /\ x.locks = u.locks /\ (x.pending_ring <=> u.pending_ring) /\ (x.ring <=> u.ring)
        /\ x.pending_ring \in BOOLEAN /\ x.ring \in BOOLEAN
    BY <1>1, <2>2 DEF Good, Base, Typed, Fields, Pillars
  <2>4. Base(x)
    BY <1>1, <2>2, <2>3, BaseKept DEF Good, Base, Typed
  <2>5. Good(x) /\ x.state = u.state
    BY <1>1, <1>2, <2>2, <2>3, <2>4 DEF Good, Attempt, Audio, Ends, Abandoned, Pillars, Up
  <2>6. Good(w) /\ w.state = x.state
    BY <2>1, <2>2, <2>5, Joins
  <2> QED
    BY <1>1, <2>5, <2>6 DEF Step, Moves, w
<1>3. CASE v.sco = "none"
  <2>1. v.state = "CONNECTED"
    BY <1>3 DEF Good, Audio, Up
  <2>2. headset_set_state(u, "CONNECTED") = u
    BY <1>1, <2>1 DEF headset_set_state
  <2>3. w = connect_cb_new(QueueIdle(u), "CONNECTED", users)
    BY <1>3, <2>2 DEF headset_suspend_stream, u
  <2> HIDE DEF w
  <2>4. Good(w) /\ w.state = u.state
    BY <1>1, <2>3, JoinsIdle
  <2> QED
    BY <1>1, <2>4 DEF Step, Moves, w
<1> QED
  BY <1>2, <1>3

\* A user leaves the pending connect.  Only a connect that is then abandoned
\* takes the headset down here.
LEMMA CancelStream ==
  ASSUME NEW v, Good(v), Quiet(v), NEW x \in Users
  PROVE  LET u == headset_cancel_stream(v, x)
         IN  /\ IsWorld(u) /\ u.idles = 0
             /\ \/ Good(u) /\ u.state = v.state
                \/ u.pending.on /\ u.state = "DISCONNECTED" /\ u.sco = "none"
<1> DEFINE p == [v EXCEPT !.pending.cbs = @ \ {x}, !.waiting = @ \ {x}]
           n == [v EXCEPT !.waiting = @ \ {x}]
           u == headset_cancel_stream(v, x)
<1>1. u = IF x \notin v.pending.cbs THEN n
          ELSE IF p.pending.cbs # {} \/ p.pending.msg # "none" \/ ~v.auto_dc THEN p
          ELSE IF v.rfcomm # "none" THEN SetDcTimer(p) ELSE headset_set_state(p, "DISCONNECTED")
  BY DEF headset_cancel_stream
<1> HIDE DEF u
<1> SUFFICES /\ IsWorld(u) /\ u.idles = 0
             /\ \/ Good(u) /\ u.state = v.state
                \/ u.pending.on /\ u.state = "DISCONNECTED" /\ u.sco = "none"
  BY DEF u
<1>2. CASE x \notin v.pending.cbs
  <2>1. u = n
    BY <1>1, <1>2
  <2>2. /\ IsWorld(u) /\ u.waiting = v.waiting \ {x}
        /\ \A f \in Fields \ {"waiting"} : u[f] = v[f]
    BY <2>1 DEF Good, Base, Typed, IsWorld, Fields
  <2>3. u.waiting = v.waiting
    BY <1>2, <2>2 DEF Good, Base, Held
  <2>4. \A f \in Fields : u[f] = v[f]
    BY <2>2, <2>3 DEF Fields
  <2>5. u = v
    BY <2>2, <2>4, Zenon DEF Good, Base, Typed, IsWorld
  <2> QED
    BY <2>5 DEF Quiet, Good, Base, Typed
<1>3. CASE x \in v.pending.cbs
  <2> DEFINE q == [v.pending EXCEPT !.cbs = @ \ {x}]
  <2>1. /\ q \in Pendings /\ (q.on <=> v.pending.on) /\ q.svc = v.pending.svc
        /\ q.cbs = v.pending.cbs \ {x} /\ q.msg = v.pending.msg
    BY DEF Good, Base, Typed, Pendings
  <2>2. v.pending.on
    BY <1>3 DEF Good, Base, Held, NoPending
  <2>3. /\ IsWorld(p) /\ p.pending = q /\ p.waiting = v.waiting \ {x}
        /\ \A f \in Fields \ {"waiting", "pending"} : p[f] = v[f]
    BY DEF Good, Base, Typed, IsWorld, Fields
  <2> HIDE DEF p, q
  <2>4. Typed(p)
    BY <2>1, <2>3 DEF Good, Base, Typed, Fields
  <2>5. Held(p)
    BY <2>1, <2>2, <2>3 DEF Good, Base, Held
  <2>6. Base(p)
    BY <2>3, <2>4, <2>5 DEF Good, Base, Fields
  <2>7. /\ p.state = v.state /\ p.tmp = v.tmp /\ p.live = v.live /\ p.rfcomm = v.rfcomm /\ p.sdp = v.sdp
        /\ p.auths = v.auths /\ p.sco = v.sco /\ p.idles = v.idles /\ p.pending.svc = v.pending.svc
        /\ p.pending.on /\ (p.pending_ring <=> v.pending_ring) /\ (p.ring <=> v.ring)
    BY <2>1, <2>2, <2>3 DEF Fields
  <2>8. Good(p)
    BY <2>2, <2>6, <2>7 DEF Good, Attempt, Audio, Ends, Abandoned
  <2>9. CASE u = p
    BY <2>3, <2>7, <2>8, <2>9 DEF Quiet
  <2>10. CASE u = SetDcTimer(p)
    <3>1. Good(u) /\ \A f \in Fields \ {"dc", "lost_dc"} : u[f] = p[f]
      BY <2>8, <2>10, DcTimerKept
    <3> QED
      BY <2>7, <3>1 DEF Quiet, Good, Base, Typed, Fields
  <2>11. CASE v.rfcomm = "none" /\ u = headset_set_state(p, "DISCONNECTED")
    <3>1. v.state = "CONNECTING"
      BY <2>2, <2>11 DEF Good, Base, Typed, Attempt, Ends, Abandoned, Audio, Quiet, Up, States
    <3>2. /\ IsWorld(u) /\ u.state = "DISCONNECTED" /\ u.pending = p.pending /\ u.idles = p.idles
          /\ u.sco = "none"
      BY <2>4, <2>7, <2>11, <3>1, SetState DEF States, Fields
    <3> QED
      BY <2>7, <3>2 DEF Quiet
  <2> QED
    BY <1>1, <1>3, <2>9, <2>10, <2>11
<1> QED
  BY <1>2, <1>3

LEMMA ClosesStep ==
  ASSUME Good(h), Quiet(h), ~Abandoned(h'), NEW x \in Users, UserCloses(x)
  PROVE  Step(h, h')
<1> DEFINE c == headset_cancel_stream(h, x)
           free == [c EXCEPT !.locks = @ \ {x}]
           quiet == IF c.state = "PLAYING" THEN headset_set_state(free, "CONNECTED") ELSE free
<1>1. h' = IF free.locks # {} THEN free
           ELSE IF ~c.auto_dc THEN quiet
           ELSE IF quiet.state = "CONNECTED" THEN SetDcTimer(quiet)
           ELSE headset_set_state(quiet, "DISCONNECTED")
  BY DEF UserCloses, headset_unlock
<1>2. /\ IsWorld(c) /\ c.idles = 0
      /\ \/ Good(c) /\ c.state = h.state
         \/ c.pending.on /\ c.state = "DISCONNECTED" /\ c.sco = "none"
  BY CancelStream
<1> HIDE DEF c
<1>3. IsWorld(free) /\ free.locks = c.locks \ {x} /\ \A f \in Fields \ {"locks"} : free[f] = c[f]
  BY <1>2 DEF IsWorld, Fields
<1> HIDE DEF free
<1>4. CASE c.pending.on /\ c.state = "DISCONNECTED" /\ c.sco = "none"
  <2>1. /\ free.state = "DISCONNECTED" /\ free.pending.on /\ free.idles = 0 /\ free.sco = "none"
    BY <1>2, <1>3, <1>4 DEF Fields
  <2>2. quiet = free
    BY <1>4
  <2>3. headset_set_state(free, "DISCONNECTED") = free
    BY <2>1 DEF headset_set_state
  <2>4. h' = free
    BY <1>1, <2>1, <2>2, <2>3
  <2> QED
    BY <2>1, <2>4 DEF Abandoned
<1>5. CASE Good(c) /\ c.state = h.state
  <2>1. Good(free) /\ free.state = h.state /\ free.idles = 0
    <3>1. /\ \A f \in Fields \ Minor : free[f] = c[f]
          /\ free.dc \in {"none", "live", "stale"} /\ free.locks \subseteq Users /\ free.idles = 0
      BY <1>2, <1>3, <1>5 DEF Good, Base, Typed, Fields, Minor
    <3> QED
      BY <1>3, <1>5, <3>1, GoodKept
  <2>2. /\ Base(quiet) /\ Attempt(quiet) /\ Audio(quiet) /\ quiet.idles = 0
        /\ quiet.state = IF h.state = "PLAYING" THEN "CONNECTED" ELSE h.state
        /\ h.state # "PLAYING" => quiet = free
    <3>1. CASE h.state = "PLAYING"
      <4>1. quiet = headset_set_state(free, "CONNECTED")
        BY <1>5, <3>1
      <4> HIDE DEF quiet
      <4>2. /\ Base(quiet) /\ Attempt(quiet) /\ Audio(quiet) /\ quiet.state = "CONNECTED"
            /\ \A f \in Fields \ {"state", "told", "fault", "sco"} : quiet[f] = free[f]
        BY <2>1, <3>1, <4>1, UpIsConnected, GoesConnected DEF Up
      <4> QED
        BY <2>1, <3>1, <4>2 DEF Fields
    <3>2. CASE h.state # "PLAYING"
      BY <1>5, <2>1, <3>2 DEF Good
    <3> QED
      BY <3>1, <3>2
  <2> HIDE DEF quiet
  <2>3. CASE h' = free
    BY <2>1, <2>3 DEF Step, Moves
  <2>4. CASE h' = quiet
    <3>1. ~Abandoned(quiet)
      BY <2>4
    <3>2. Good(quiet)
      BY <2>2, <3>1 DEF Good, Ends
    <3> QED
      BY <2>2, <2>4, <3>2 DEF Step, Moves, Up
  <2>5. CASE h' = SetDcTimer(quiet)
    <3>1. \A f \in Fields \ {"dc", "lost_dc"} : h'[f] = quiet[f]
      BY <2>2, <2>5 DEF SetDcTimer, Base, Typed, IsWorld, Fields
    <3>2. ~Abandoned(quiet)
      BY <3>1 DEF Abandoned, Fields
    <3>3. Good(quiet)
      BY <2>2, <3>2 DEF Good, Ends
    <3>4. Good(h') /\ h'.state = quiet.state
      BY <2>5, <3>1, <3>3, DcTimerKept DEF Fields
    <3> QED
      BY <2>2, <3>4 DEF Step, Moves, Up
  <2>6. CASE h' = headset_set_state(quiet, "DISCONNECTED")
    <3>1. quiet.live \subseteq {quiet.tmp} /\ quiet.pending.svc = quiet.sdp
      BY <2>2 DEF Base, Typed, Attempt, States, Up
    <3>2. ~Abandoned(headset_set_state(quiet, "DISCONNECTED"))
      BY <2>6
    <3>3. /\ Good(headset_set_state(quiet, "DISCONNECTED"))
          /\ headset_set_state(quiet, "DISCONNECTED").state = "DISCONNECTED"
      BY <2>2, <3>1, <3>2, GoesDown
    <3> QED
      BY <2>6, <3>3 DEF Step, Moves
  <2> QED
    BY <1>1, <2>3, <2>4, <2>5, <2>6
<1> QED
  BY <1>2, <1>4, <1>5

LEMMA StreamSteps ==
  ASSUME Good(h), Quiet(h), ~Abandoned(h'), NEW x \in Users,
         NEW io \in BOOLEAN, NEW allow \in BOOLEAN,
         \/ UserLocks(x) \/ UserConfigures(x, io, allow) \/ UserResumes(x, io, allow)
         \/ UserSuspends(x) \/ UserCloses(x)
  PROVE  Step(h, h')
<1>1. CASE UserLocks(x)
  <2>1. /\ IsWorld(h') /\ h'.locks = h.locks \cup {x} /\ \A f \in Fields \ {"locks"} : h'[f] = h[f]
    BY <1>1 DEF UserLocks, Good, Base, Typed, IsWorld, Fields
  <2>2. /\ \A f \in Fields \ Minor : h'[f] = h[f]
        /\ h'.dc \in {"none", "live", "stale"} /\ h'.locks \subseteq Users
    BY <2>1 DEF Good, Base, Typed, Fields, Minor
  <2>3. Good(h') /\ h'.state = h.state
    BY <2>1, <2>2, GoodKept
  <2> QED
    BY <2>3 DEF Step, Moves
<1>2. CASE UserConfigures(x, io, allow)
  BY <1>2, ConfigStream DEF UserConfigures
<1>3. CASE UserResumes(x, io, allow)
  BY <1>3, RequestStream DEF UserResumes
<1>4. CASE UserSuspends(x)
  <2>1. h.state \in Up
    BY <1>4, Ranks DEF UserSuspends, Good, Base, Typed
  <2> QED
    BY <1>4, <2>1, SuspendStream DEF UserSuspends
<1>5. CASE UserCloses(x)
  BY <1>5, ClosesStep
<1> QED
  BY <1>1, <1>2, <1>3, <1>4, <1>5

LEMMA DeviceStep ==
  ASSUME Good(h), Quiet(h), NEW io \in BOOLEAN, NEW allow \in BOOLEAN, DeviceConnects(io, allow)
  PROVE  Step(h, h')
  BY ConfigStream DEF DeviceConnects

LEMMA IdleStep ==
  ASSUME Good(h), dummy_connect_complete
  PROVE  Step(h, h')
<1> DEFINE w == [h EXCEPT !.idles = @ - 1]
<1>1. h.idles = 1 /\ h' = pending_connect_finalize(w)
  BY DEF dummy_connect_complete, Good, Base, Typed
<1>2. IsWorld(w) /\ w.idles = 0 /\ \A f \in Fields \ {"idles"} : w[f] = h[f]
  BY <1>1 DEF Good, Base, Typed, IsWorld, Fields
<1> HIDE DEF w
<1>3. Base(w) /\ w.pending.svc = w.sdp
  <2>1. /\ \A f \in Pillars : w[f] = h[f]
        /\ w.tmp = h.tmp /\ w.live = h.live /\ w.sco = h.sco /\ w.sdp = h.sdp
        /\ w.dc = h.dc /\ w.locks = h.locks /\ w.pending_ring \in BOOLEAN /\ w.ring \in BOOLEAN
    BY <1>2 DEF Good, Base, Typed, Fields, Pillars
  <2>2. w.pending.svc = w.sdp
    BY <2>1, LiveIsTmp DEF Pillars
  <2> QED
    BY <1>2, <2>1, <2>2, BaseKept DEF Good, Base, Typed
<1>4. /\ Base(h') /\ h'.pending = NoPending /\ h'.sdp = "none"
      /\ \A f \in Fields \ {"sdp", "waiting", "pending"} : h'[f] = w[f]
  BY <1>1, <1>3, FinalizeFields
<1>5. /\ h'.state = h.state /\ h'.tmp = h.tmp /\ h'.live = h.live /\ h'.rfcomm = h.rfcomm
      /\ h'.auths = h.auths /\ h'.sco = h.sco /\ h'.idles = 0
      /\ (h'.pending_ring <=> h.pending_ring) /\ (h'.ring <=> h.ring)
  BY <1>2, <1>4 DEF Fields
<1>6. h.state \in Up
  BY <1>1 DEF Good, Ends
<1> QED
  BY <1>4, <1>5, <1>6 DEF Step, Moves, Good, Attempt, Audio, Ends, Abandoned, NoPending, Up

\* The channel is lost or the disconnect timer fires.
LEMMA DownSteps ==
  ASSUME Good(h), Quiet(h), ~Abandoned(h'), rfcomm_io_cb \/ hs_dc_timeout
  PROVE  Step(h, h')
<1> DEFINE m == [h EXCEPT !.dc = "stale"]
           n == [h EXCEPT !.lost_dc = FALSE]
<1>1. PICK w \in {h, m, n} : h' = headset_set_state(w, "DISCONNECTED")
  BY DEF rfcomm_io_cb, hs_dc_timeout
<1>2. Good(w) /\ w.idles = 0
  <2>1. /\ IsWorld(w) /\ \A f \in Fields \ {"dc", "lost_dc"} : w[f] = h[f]
        /\ w.dc \in {"none", "live", "stale"}
    BY DEF Good, Base, Typed, IsWorld, Fields
  <2>2. /\ \A f \in Fields \ Minor : w[f] = h[f]
        /\ w.locks \subseteq Users /\ w.idles = 0
    BY <2>1 DEF Good, Base, Typed, Fields, Minor, Quiet
  <2> QED
    BY <2>1, <2>2, GoodKept
<1>3. w.live \subseteq {w.tmp} /\ w.pending.svc = w.sdp
  BY <1>2, LiveIsTmp
<1>4. ~Abandoned(headset_set_state(w, "DISCONNECTED"))
  BY <1>1
<1>5. /\ Good(headset_set_state(w, "DISCONNECTED"))
      /\ headset_set_state(w, "DISCONNECTED").state = "DISCONNECTED"
  BY <1>2, <1>3, <1>4, GoesDown DEF Good
<1> QED
  BY <1>1, <1>5 DEF Step, Moves

-----------------------------------------------------------------------------
(* Incoming connections.                                                   *)

\* The question to the agent is answered or withdrawn.
LEMMA Unasked ==
  ASSUME Good(h), h.auths = 1
  PROVE  LET w == [h EXCEPT !.auths = 0, !.preauth = FALSE]
         IN  /\ Base(w) /\ w.pending.svc = w.sdp /\ w.idles = 0 /\ w.live = {}
             /\ w.state = "DISCONNECTED" => Attempt(w) /\ Audio(w)
             /\ w.auths = 0 /\ ~w.preauth /\ w.preauth \in BOOLEAN
             /\ \A f \in Fields \ {"auths", "preauth"} : w[f] = h[f]
<1> DEFINE w == [h EXCEPT !.auths = 0, !.preauth = FALSE]
<1>1. /\ IsWorld(w) /\ w.auths = 0 /\ ~w.preauth /\ w.preauth \in BOOLEAN
      /\ \A f \in Fields \ {"auths", "preauth"} : w[f] = h[f]
  BY DEF Good, Base, Typed, IsWorld, Fields
<1> HIDE DEF w
<1>2. Typed(w)
  BY <1>1 DEF Good, Base, Typed, Fields
<1>3. Held(w)
  BY <1>1 DEF Good, Base, Held, Fields
<1>4. Base(w)
  BY <1>1, <1>2, <1>3 DEF Good, Base, Fields
<1>5. w.pending.svc = w.sdp /\ w.idles = 0 /\ w.live = {}
  BY <1>1 DEF Good, Base, Typed, Attempt, Ends, Fields, States, Up
<1>6. w.state = "DISCONNECTED" => Attempt(w) /\ Audio(w)
  BY <1>1 DEF Good, Base, Typed, Attempt, Audio, Fields, Up
<1> QED
  BY <1>1, <1>4, <1>5, <1>6 DEF w

LEMMA PreauthStep ==
  ASSUME Good(h), ~Abandoned(h'), hs_preauth_cb
  PROVE  Step(h, h')
<1> DEFINE w == [h EXCEPT !.auths = 0, !.preauth = FALSE]
<1>1. h.auths = 1 /\ h' = headset_set_state(w, "DISCONNECTED")
  BY DEF hs_preauth_cb, Good, Base
<1>2. /\ Base(w) /\ w.pending.svc = w.sdp /\ w.idles = 0 /\ w.live = {}
      /\ w.state = "DISCONNECTED" => Attempt(w) /\ Audio(w)
  BY <1>1, Unasked
<1> HIDE DEF w
<1>3. ~Abandoned(headset_set_state(w, "DISCONNECTED"))
  BY <1>1
<1>4. /\ Good(headset_set_state(w, "DISCONNECTED"))
      /\ headset_set_state(w, "DISCONNECTED").state = "DISCONNECTED"
  BY <1>2, <1>3, GoesDown
<1> QED
  BY <1>1, <1>4 DEF Step, Moves

LEMMA AuthStep ==
  ASSUME Good(h), Quiet(h), ~Abandoned(h'), NEW ok \in BOOLEAN, NEW accepted \in BOOLEAN,
         headset_auth_cb(ok, accepted)
  PROVE  Step(h, h')
<1> DEFINE w == [h EXCEPT !.auths = 0, !.preauth = FALSE]
           a == [w EXCEPT !.live = @ \cup {h.tmp}]
<1>1. h.auths = 1 /\ h.tmp = "in"
  BY DEF headset_auth_cb, Good, Base, Typed, Quiet
<1>2. h' = headset_set_state(w, "DISCONNECTED") \/ h' = a
  BY <1>1 DEF headset_auth_cb
<1>3. /\ Base(w) /\ w.pending.svc = w.sdp /\ w.idles = 0 /\ w.live = {}
      /\ w.state = "DISCONNECTED" => Attempt(w) /\ Audio(w)
      /\ w.auths = 0
      /\ \A f \in Fields \ {"auths", "preauth"} : w[f] = h[f]
  BY <1>1, Unasked
<1> HIDE DEF w
<1>4. CASE h' = headset_set_state(w, "DISCONNECTED")
  <2>1. ~Abandoned(headset_set_state(w, "DISCONNECTED"))
    BY <1>4
  <2>2. /\ Good(headset_set_state(w, "DISCONNECTED"))
        /\ headset_set_state(w, "DISCONNECTED").state = "DISCONNECTED"
    BY <1>3, <2>1, GoesDown
  <2> QED
    BY <1>4, <2>2 DEF Step, Moves
<1>5. CASE h' = a
  <2>1. IsWorld(a) /\ a.live = {"in"} /\ \A f \in Fields \ {"live"} : a[f] = w[f]
    BY <1>1, <1>3 DEF Base, Typed, IsWorld, Fields
  <2> HIDE DEF a
  <2>2. /\ \A f \in Pillars : a[f] = w[f]
        /\ a.tmp = w.tmp /\ a.idles = w.idles /\ a.sco = w.sco /\ a.sdp = w.sdp
        /\ a.dc = w.dc /\ a.locks = w.locks /\ (a.pending_ring <=> w.pending_ring) /\ (a.ring <=> w.ring)
        /\ a.pending_ring \in BOOLEAN /\ a.ring \in BOOLEAN
    BY <1>3, <2>1 DEF Base, Typed, Fields, Pillars
  <2>3. Base(a)
    BY <1>3, <2>1, <2>2, BaseKept DEF Base, Typed
  <2>4. /\ w.state = h.state /\ w.rfcomm = h.rfcomm /\ w.tmp = "in" /\ w.sdp = h.sdp /\ w.sco = h.sco
        /\ (w.pending_ring <=> h.pending_ring) /\ (w.ring <=> h.ring) /\ w.pending = h.pending
    BY <1>1, <1>3 DEF Fields
  <2>5. h.state = "CONNECTING" /\ h.rfcomm = "none" /\ h.sdp = "none"
    BY <1>1 DEF Good, Base, Typed, Attempt, States, Up
  <2>6. a.state = "CONNECTING" /\ a.rfcomm = "none" /\ a.auths = 0 /\ a.pending = h.pending
    BY <1>3, <2>2, <2>4, <2>5 DEF Pillars
  <2>7. Good(a)
    BY <1>3, <2>1, <2>2, <2>3, <2>4, <2>5, <2>6 DEF Good, Attempt, Audio, Ends, Abandoned, Up
  <2> QED
    BY <1>5, <2>5, <2>6, <2>7 DEF Step, Moves
<1> QED
  BY <1>2, <1>4, <1>5

LEMMA ConfirmStep ==
  ASSUME Good(h), Quiet(h), NEW hfp \in BOOLEAN, NEW asked \in BOOLEAN, ag_confirm(hfp, asked)
  PROVE  Step(h, h')
<1> DEFINE w == [h EXCEPT !.hfp = hfp, !.tmp = "in"]
           v == headset_set_state(w, "CONNECTING")
           a == [v EXCEPT !.auths = @ + 1, !.preauth = TRUE]
<1>1. /\ h.state = "DISCONNECTED" /\ h.tmp = "none"
      /\ h' = a \/ h' = headset_set_state(v, "DISCONNECTED")
  BY DEF ag_confirm
<1>2. IsWorld(w) /\ w.tmp = "in" /\ \A f \in Fields \ {"hfp", "tmp"} : w[f] = h[f]
  BY DEF Good, Base, Typed, IsWorld, Fields
<1> HIDE DEF w
<1>3. Base(w) /\ w.state = "DISCONNECTED"
  <2>1. /\ \A f \in Pillars : w[f] = h[f]
        /\ w.live = h.live /\ w.idles = h.idles /\ w.sco = h.sco /\ w.sdp = h.sdp
        /\ w.dc = h.dc /\ w.locks = h.locks /\ w.pending_ring \in BOOLEAN /\ w.ring \in BOOLEAN
    BY <1>2 DEF Good, Base, Typed, Fields, Pillars
  <2> QED
    BY <1>1, <1>2, <2>1, BaseKept DEF Good, Base, Typed, Pillars, Channel
<1>4. Base(v)
  BY <1>3, SetStateBase DEF States
<1>5. v.state = "CONNECTING" /\ \A f \in Fields \ {"state", "told", "fault"} : v[f] = w[f]
  BY <1>3, SetState DEF Base, States, Fields
<1> HIDE DEF v
<1>6. ~h.pending.on /\ h.sdp = "none" /\ h.auths = 0 /\ h.rfcomm = "none" /\ h.live = {} /\ h.pending.svc = "none"
  BY <1>1 DEF Good, Base, Typed, Held, NoPending, Quiet, Attempt, Audio, Ends, Abandoned
<1>7. /\ v.tmp = "in" /\ v.live = {} /\ v.rfcomm = "none" /\ v.sdp = "none" /\ v.auths = 0
      /\ ~v.pending.on /\ v.pending.svc = "none" /\ v.idles = 0 /\ v.sco = h.sco
      /\ (v.pending_ring <=> h.pending_ring) /\ (v.ring <=> h.ring)
  BY <1>2, <1>5, <1>6 DEF Fields, Quiet
<1>8. CASE h' = a
  <2>0. IsWorld(v) /\ a = [v EXCEPT !.auths = 1, !.preauth = TRUE]
    BY <1>4, <1>7 DEF Base, Typed
  <2> HIDE DEF a
  <2>1. /\ IsWorld(a) /\ a.auths = 1 /\ a.preauth /\ a.preauth \in BOOLEAN
        /\ \A f \in Fields \ {"auths", "preauth"} : a[f] = v[f]
    BY <2>0 DEF IsWorld, Fields
  <2>2. Typed(a)
    BY <1>4, <2>1 DEF Base, Typed, Fields
  <2>3. Held(a)
    BY <1>4, <2>1 DEF Base, Held, Fields
  <2>4. Base(a)
    BY <1>4, <2>1, <2>2, <2>3 DEF Base, Fields
  <2>5. /\ a.state = "CONNECTING" /\ a.tmp = "in" /\ a.live = {} /\ a.rfcomm = "none" /\ a.sdp = "none"
        /\ a.pending = v.pending /\ a.idles = 0 /\ a.sco = v.sco
        /\ (a.pending_ring <=> v.pending_ring) /\ (a.ring <=> v.ring)
    BY <1>5, <1>7, <2>1 DEF Fields
  <2>6. Good(a)
    BY <1>1, <1>7, <2>1, <2>4, <2>5 DEF Good, Attempt, Audio, Ends, Abandoned, Up
  <2> QED
    BY <1>1, <1>8, <2>5, <2>6 DEF Step, Moves
<1>9. CASE h' = headset_set_state(v, "DISCONNECTED")
  <2> DEFINE u == headset_set_state(v, "DISCONNECTED")
  <2>1. u.pending = v.pending
    BY <1>4, <1>5, SetState DEF Base, States, Fields
  <2>2. ~Abandoned(u)
    BY <1>7, <2>1 DEF Abandoned
  <2>3. v.live \subseteq {v.tmp} /\ v.pending.svc = v.sdp /\ v.state # "DISCONNECTED"
    BY <1>5, <1>7
  <2>4. Good(u) /\ u.state = "DISCONNECTED"
    BY <1>4, <1>7, <2>2, <2>3, GoesDown
  <2> QED
    BY <1>9, <2>4 DEF Step, Moves
<1> QED
  BY <1>1, <1>8, <1>9

-----------------------------------------------------------------------------
(* Events of the channels.                                                 *)

LEMMA FeaturesStep ==
  ASSUME Good(h), Quiet(h), supported_features
  PROVE  Step(h, h')
<1>1. IsWorld(h') /\ h'.slc = "threeway" /\ h.rfcomm # "none" /\ \A f \in Fields \ {"slc"} : h'[f] = h[f]
  BY DEF supported_features, Good, Base, Typed, IsWorld, Fields
<1>2. Typed(h')
  BY <1>1 DEF Good, Base, Typed, Fields
<1>3. Held(h')
  BY <1>1 DEF Good, Base, Held, Fields
<1>4. Base(h')
  BY <1>1, <1>2, <1>3 DEF Good, Base, Fields
<1>5. Attempt(h') /\ Audio(h') /\ Ends(h') /\ h'.state = h.state
  BY <1>1 DEF Good, Attempt, Audio, Ends, Abandoned, Fields
<1> QED
  BY <1>4, <1>5 DEF Step, Moves, Good

\* The connect of a headset that is up ends, answered.
LEMMA AnsweredUp ==
  ASSUME NEW v, Base(v), Attempt(v), Audio(v), v.state \in Up, v.idles = 0
  PROVE  LET u == pending_connect_finalize(Reply(v))
         IN  Good(u) /\ u.state = v.state /\ u.rfcomm = v.rfcomm /\ u.idles = 0
<1> DEFINE u == pending_connect_finalize(Reply(v))
<1>1. v.pending.svc = v.sdp
  BY DEF Attempt
<1>2. /\ Base(u) /\ u.pending = NoPending /\ u.sdp = "none" /\ u.waiting = {}
      /\ \A f \in Fields \ {"call", "sdp", "waiting", "pending"} : u[f] = v[f]
  BY <1>1, AnsweredFields
<1> HIDE DEF u
<1>3. /\ u.state = v.state /\ u.tmp = v.tmp /\ u.live = v.live /\ u.rfcomm = v.rfcomm
      /\ u.auths = v.auths /\ u.sco = v.sco /\ u.idles = v.idles
      /\ (u.pending_ring <=> v.pending_ring) /\ (u.ring <=> v.ring)
  BY <1>2 DEF Fields
<1>4. Good(u)
  BY <1>2, <1>3 DEF Good, Attempt, Audio, Ends, Abandoned, NoPending, Up
<1> QED
  BY <1>3, <1>4 DEF u

LEMMA SlcComplete ==
  ASSUME Good(h), Quiet(h), h.state = "CONNECTING", h.rfcomm # "none", NEW io \in BOOLEAN
  PROVE  Step(h, hfp_slc_complete(h, io))
<1> DEFINE u == headset_set_state(h, "CONNECTED")
           sco == sco_connect(u, {}, io)
           w == hfp_slc_complete(h, io)
<1>1. w = IF ~u.pending.on THEN u
          ELSE IF u.pending.target = "CONNECTED" THEN pending_connect_finalize(Reply(u))
          ELSE IF sco.ok THEN sco.v ELSE pending_connect_finalize(Reply(sco.v))
  BY DEF hfp_slc_complete
<1>2. /\ h.tmp = "none" /\ h.live = {} /\ h.sdp = "none" /\ h.auths = 0 /\ h.pending.svc = "none"
      /\ ~h.pending_ring
  BY DEF Good, Attempt, Audio
<1>3. /\ Base(u) /\ Attempt(u) /\ Audio(u) /\ u.state = "CONNECTED"
      /\ \A f \in Fields \ {"state", "told", "fault", "sco"} : u[f] = h[f]
  BY <1>2, GoesConnected DEF Good
<1> HIDE DEF u
<1>4. u.idles = 0
  BY <1>3 DEF Quiet, Fields
<1>5. /\ sco.ok \in BOOLEAN
      /\ ~sco.ok => sco.v = u
      /\ sco.ok => Good(sco.v) /\ sco.v.state = "PLAY_IN_PROGRESS"
  BY <1>3, <1>4, ScoConnects
<1> HIDE DEF sco, w
<1>6. /\ Good(pending_connect_finalize(Reply(u)))
      /\ pending_connect_finalize(Reply(u)).state = "CONNECTED"
  BY <1>3, <1>4, AnsweredUp DEF Up
<1>7. ~u.pending.on => Good(u)
  BY <1>3, <1>4 DEF Good, Ends, Abandoned
<1>8. Good(w) /\ w.state \in {"CONNECTED", "PLAY_IN_PROGRESS"}
  BY <1>1, <1>3, <1>5, <1>6, <1>7
<1> QED
  BY <1>8 DEF Step, Moves, w

LEMMA ChannelStep ==
  ASSUME Good(h), Quiet(h), NEW channel \in {"out", "in"}, NEW ok \in BOOLEAN, NEW io \in BOOLEAN,
         headset_connect_cb(channel, ok, io)
  PROVE  Step(h, h')
<1> DEFINE v == [h EXCEPT !.live = @ \ {channel}]
           up == [v EXCEPT !.rfcomm = v.tmp, !.tmp = "none", !.slc = "plain",
                           !.auto_dc = @ /\ v.pending.on]
           connected == headset_set_state(up, "CONNECTED")
           sco == sco_connect(connected, {}, io)
           failed == pending_connect_finalize(Reply(v))
           done == pending_connect_finalize(Reply(connected))
<1>1. /\ channel \in h.live
      /\ h' = IF ~ok \/ (h.hfp /\ ~h.ready) THEN ConnectFailed(v)
              ELSE IF h.hfp THEN up
              ELSE IF ~(h.pending.on /\ h.pending.target = "PLAYING") THEN done
              ELSE IF sco.ok THEN sco.v ELSE ConnectFailed(sco.v)
  BY DEF headset_connect_cb
<1>2. /\ h.state = "CONNECTING" /\ h.tmp = channel /\ h.live = {channel} /\ h.rfcomm = "none"
      /\ h.sdp = "none" /\ h.auths = 0 /\ h.pending.svc = "none" /\ h.idles = 0
      /\ h.sco = "none" /\ ~h.pending_ring
  BY <1>1 DEF Good, Base, Typed, Attempt, Audio, Quiet, States, Up
<1>3. IsWorld(v) /\ v.live = {} /\ \A f \in Fields \ {"live"} : v[f] = h[f]
  BY <1>2 DEF Good, Base, Typed, IsWorld, Fields
<1> HIDE DEF v
<1>4. Base(v)
  <2>1. /\ \A f \in Pillars : v[f] = h[f]
        /\ v.tmp = h.tmp /\ v.idles = h.idles /\ v.sco = h.sco /\ v.sdp = h.sdp
        /\ v.dc = h.dc /\ v.locks = h.locks /\ v.pending_ring \in BOOLEAN /\ v.ring \in BOOLEAN
    BY <1>3 DEF Good, Base, Typed, Fields, Pillars
  <2> QED
    BY <1>3, <2>1, BaseKept DEF Good, Base, Typed
<1>5. /\ v.state = "CONNECTING" /\ v.tmp = channel /\ v.rfcomm = "none" /\ v.sdp = "none"
      /\ v.auths = 0 /\ v.pending.svc = "none" /\ v.idles = 0 /\ v.sco = "none" /\ ~v.pending_ring
  BY <1>2, <1>3 DEF Fields
<1>6. Good(ConnectFailed(v)) /\ ConnectFailed(v).state = "DISCONNECTED"
  <2>1. /\ Base(failed) /\ failed.pending = NoPending /\ failed.sdp = "none"
        /\ \A f \in Fields \ {"call", "sdp", "waiting", "pending"} : failed[f] = v[f]
    BY <1>4, <1>5, AnsweredFields
  <2> DEFINE u == headset_set_state(failed, "DISCONNECTED")
  <2>2. ConnectFailed(v) = IF failed.rfcomm # "none" THEN headset_set_state(failed, "CONNECTED") ELSE u
    BY DEF ConnectFailed
  <2> HIDE DEF failed
  <2>3. /\ failed.rfcomm = "none" /\ failed.state = "CONNECTING" /\ failed.idles = 0
        /\ failed.live \subseteq {failed.tmp} /\ failed.pending.svc = failed.sdp
    BY <1>3, <1>5, <2>1 DEF Fields, NoPending
  <2>4. u.pending = NoPending
    BY <2>1, <2>3, SetState DEF Base, States, Fields
  <2>5. ~Abandoned(u)
    BY <2>4 DEF Abandoned, NoPending
  <2>6. Good(u) /\ u.state = "DISCONNECTED"
    BY <2>1, <2>3, <2>5, GoesDown
  <2> QED
    BY <2>2, <2>3, <2>6
<1>7. /\ IsWorld(up) /\ up.rfcomm = channel /\ up.tmp = "none" /\ up.slc = "plain"
      /\ \A f \in Fields \ {"rfcomm", "tmp", "slc", "auto_dc"} : up[f] = v[f]
  BY <1>3, <1>5 DEF IsWorld, Fields
<1> HIDE DEF up
<1>8. Base(up)
  <2>1. Typed(up)
    BY <1>4, <1>7 DEF Base, Typed, Fields, Channel
  <2>2. Held(up)
    BY <1>4, <1>7 DEF Base, Held, Fields
  <2> QED
    BY <1>4, <1>7, <2>1, <2>2 DEF Base, Fields
<1>9. /\ up.state = "CONNECTING" /\ up.live = {} /\ up.sdp = "none" /\ up.auths = 0
      /\ up.pending.svc = "none" /\ up.idles = 0 /\ up.sco = "none" /\ ~up.pending_ring
      /\ up.rfcomm # "none" /\ up.tmp = "none"
  BY <1>3, <1>5, <1>7 DEF Fields
<1>10. Good(up)
  BY <1>8, <1>9 DEF Good, Attempt, Audio, Ends, Abandoned, Up
<1>11. /\ Base(connected) /\ Attempt(connected) /\ Audio(connected) /\ connected.state = "CONNECTED"
       /\ \A f \in Fields \ {"state", "told", "fault", "sco"} : connected[f] = up[f]
  BY <1>8, <1>9, GoesConnected
<1> HIDE DEF connected
<1>12. connected.idles = 0 /\ connected.rfcomm # "none"
  BY <1>9, <1>11 DEF Fields
<1>13. Good(done) /\ done.state = "CONNECTED" /\ done.rfcomm # "none"
  BY <1>11, <1>12, AnsweredUp DEF Up
<1>14. ConnectFailed(connected) = done
  BY <1>13 DEF ConnectFailed, headset_set_state
<1>15. /\ sco.ok \in BOOLEAN
       /\ ~sco.ok => sco.v = connected
       /\ sco.ok => Good(sco.v) /\ sco.v.state = "PLAY_IN_PROGRESS"
  BY <1>11, <1>12, ScoConnects
<1> HIDE DEF sco, done
<1>16. \/ h' = ConnectFailed(v) \/ h' = up \/ h' = done
       \/ sco.ok /\ h' = sco.v
  BY <1>1, <1>14, <1>15
<1> QED
  BY <1>2, <1>6, <1>9, <1>10, <1>13, <1>15, <1>16 DEF Step, Moves

\* A search ends in vain.
LEMMA SearchFails ==
  ASSUME NEW v, Base(v), v.state = "CONNECTING", v.live = {}, v.idles = 0
  PROVE  LET w == [v EXCEPT !.pending.svc = "none", !.sdp = "none"]
             u == headset_set_state(pending_connect_finalize(Reply(w)), "DISCONNECTED")
         IN  Good(u) /\ u.state = "DISCONNECTED"
<1> DEFINE w == [v EXCEPT !.pending.svc = "none", !.sdp = "none"]
           x == pending_connect_finalize(Reply(w))
           u == headset_set_state(x, "DISCONNECTED")
           q == [v.pending EXCEPT !.svc = "none"]
<1>1. /\ q \in Pendings /\ (q.on <=> v.pending.on) /\ q.svc = "none" /\ q.cbs = v.pending.cbs
      /\ v.pending = NoPending => q = NoPending
  BY DEF Base, Typed, Pendings, NoPending
<1>2. /\ IsWorld(w) /\ w.pending = q /\ w.sdp = "none"
      /\ \A f \in Fields \ {"pending", "sdp"} : w[f] = v[f]
  BY DEF Base, Typed, IsWorld, Fields
<1> HIDE DEF w, q
<1>3. Typed(w)
  BY <1>1, <1>2 DEF Base, Typed, Fields
<1>4. Held(w)
  BY <1>1, <1>2 DEF Base, Held, Fields
<1>5. Base(w) /\ w.pending.svc = w.sdp
  BY <1>1, <1>2, <1>3, <1>4 DEF Base, Fields
<1>6. /\ Base(x) /\ x.pending = NoPending /\ x.sdp = "none"
      /\ \A f \in Fields \ {"call", "sdp", "waiting", "pending"} : x[f] = w[f]
  BY <1>5, AnsweredFields
<1> HIDE DEF x
<1>7. /\ x.state = "CONNECTING" /\ x.idles = 0 /\ x.live \subseteq {x.tmp} /\ x.pending.svc = x.sdp
  BY <1>2, <1>6 DEF Fields, NoPending
<1>8. u.pending = NoPending
  BY <1>6, <1>7, SetState DEF Base, States, Fields
<1>9. ~Abandoned(u)
  BY <1>8 DEF Abandoned, NoPending
<1>10. Good(u) /\ u.state = "DISCONNECTED"
  BY <1>6, <1>7, <1>9, GoesDown
<1> QED
  BY <1>10 DEF u, x, w

LEMMA RecordStep ==
  ASSUME Expected, Good(h), Quiet(h), NEW result \in {"err", "none", "found"}, NEW io \in BOOLEAN,
         NEW allow \in BOOLEAN, get_record_cb(result, io, allow)
  PROVE  Step(h, h')
<1> DEFINE w == [h EXCEPT !.sdp = "none", !.ch = TRUE, !.pending.svc = "none",
                          !.handle = @ \/ h.sdp = "HFP"]
           found == rfcomm_connect(w, {}, io, allow)
           n == [h EXCEPT !.sdp = "none"]
           again == get_records(n, {}, io)
           Fails(v) == headset_set_state(pending_connect_finalize(Reply([v EXCEPT
                         !.pending.svc = "none", !.sdp = "none"])), "DISCONNECTED")
<1>1. /\ h.sdp # "none"
      /\ ~(io /\ allow) => h.pending.msg # "none"
      /\ h' = IF ~h.pending.on THEN [h EXCEPT !.fault = TRUE]
              ELSE IF result = "found" /\ found.ok THEN found.v
              ELSE IF result = "found"
              THEN [Fails(found.v) EXCEPT !.fault = @ \/ h.pending.msg = "none"]
              ELSE IF result = "none" /\ h.pending.svc = "HFP" /\ again.ok THEN again.v
              ELSE Fails(h)
  BY DEF get_record_cb, Expected
<1>2. /\ h.state = "CONNECTING" /\ h.pending.on /\ h.tmp = "none" /\ h.live = {} /\ h.rfcomm = "none"
      /\ h.auths = 0 /\ h.pending.svc = h.sdp /\ h.idles = 0 /\ h.sco = "none" /\ ~h.pending_ring
  BY <1>1 DEF Good, Base, Typed, Attempt, Audio, Quiet, States, Up
<1>3. Good(Fails(h)) /\ Fails(h).state = "DISCONNECTED"
  BY <1>2, SearchFails DEF Good
<1>4. CASE h' = Fails(h)
  BY <1>3, <1>4 DEF Step, Moves
<1>5. CASE h.pending.svc = "HFP" /\ again.ok /\ h' = again.v
  <2> DEFINE q == [h.pending EXCEPT !.svc = "HSP"]
             u == [n EXCEPT !.sdp = "HSP"]
             z == [u EXCEPT !.pending.svc = "HSP", !.waiting = @ \cup {}]
  <2>1. n.pending.on /\ n.pending.svc = "HFP"
    <3>1. n.pending = h.pending
      BY DEF Good, Base, Typed, IsWorld, Fields
    <3>2. h.pending.svc = "HFP"
      BY <1>5
    <3> QED
      BY <1>2, <3>1, <3>2
  <2>2. again = IF ~io THEN Failed(n) ELSE Done(z)
    <3> HIDE DEF n
    <3> QED
      BY <2>1 DEF get_records
  <2>3. h' = z
    <3> HIDE DEF again, z
    <3>1. again.ok /\ h' = again.v
      BY <1>5
    <3>2. CASE ~io
      BY <2>2, <3>1, <3>2 DEF Failed
    <3>3. CASE io
      BY <2>2, <3>1, <3>3 DEF Done
    <3> QED
      BY <3>2, <3>3
  <2>4. /\ q \in Pendings /\ q.on /\ q.svc = "HSP" /\ q.cbs = h.pending.cbs
    BY <1>2 DEF Good, Base, Typed, Pendings
  <2>5. /\ IsWorld(z) /\ z.pending = q /\ z.sdp = "HSP" /\ z.waiting = h.waiting
        /\ \A f \in Fields \ {"pending", "sdp", "waiting"} : z[f] = h[f]
    BY DEF Good, Base, Typed, IsWorld, Fields
  <2> HIDE DEF q, z
  <2>6. Typed(z)
    BY <2>4, <2>5 DEF Good, Base, Typed, Fields
  <2>7. Held(z)
    BY <2>4, <2>5 DEF Good, Base, Held, Fields
  <2>8. Base(z)
    BY <2>5, <2>6, <2>7 DEF Good, Base, Fields
  <2>9. /\ z.state = "CONNECTING" /\ z.tmp = "none" /\ z.live = {} /\ z.rfcomm = "none" /\ z.auths = 0
        /\ z.idles = 0 /\ z.sco = "none" /\ ~z.pending_ring
    BY <1>2, <2>5 DEF Fields
  <2>10. Good(z)
    BY <2>4, <2>5, <2>8, <2>9 DEF Good, Attempt, Audio, Ends, Abandoned, Up
  <2> QED
    BY <1>2, <2>3, <2>9, <2>10 DEF Step, Moves
<1> DEFINE q == [h.pending EXCEPT !.svc = "none"]
<1>6. /\ q \in Pendings /\ q.on /\ q.svc = "none" /\ q.cbs = h.pending.cbs
  BY <1>2 DEF Good, Base, Typed, Pendings
<1>7. /\ IsWorld(w) /\ w.pending = q /\ w.sdp = "none" /\ w.ch
      /\ \A f \in Fields \ {"pending", "sdp", "ch", "handle"} : w[f] = h[f]
  BY DEF Good, Base, Typed, IsWorld, Fields
<1> HIDE DEF w, q
<1>8. Base(w)
  <2>1. Typed(w)
    BY <1>6, <1>7 DEF Good, Base, Typed, Fields
  <2>2. Held(w)
    BY <1>6, <1>7 DEF Good, Base, Held, Fields
  <2> QED
    BY <1>7, <2>1, <2>2 DEF Good, Base, Fields
<1>9. /\ w.state = "CONNECTING" /\ w.tmp = "none" /\ w.live = {} /\ w.rfcomm = "none" /\ w.auths = 0
      /\ w.idles = 0 /\ w.sco = "none" /\ ~w.pending_ring
  BY <1>2, <1>7 DEF Fields
<1>10. CASE found.ok /\ h' = found.v
  <2> DEFINE x == [w EXCEPT !.ch = FALSE, !.tmp = "out", !.live = @ \cup {"out"}, !.hfp = w.handle]
             u == connect_cb_new(headset_set_state(x, "CONNECTING"), "CONNECTED", {})
  <2>1. h' = u
    BY <1>7, <1>10 DEF rfcomm_connect, Failed, Done
  <2>2. /\ IsWorld(x) /\ x.tmp = "out" /\ x.live = {"out"}
        /\ \A f \in Fields \ {"ch", "tmp", "live", "hfp"} : x[f] = w[f]
    BY <1>7, <1>9 DEF IsWorld, Fields
  <2> HIDE DEF x
  <2>3. Base(x)
    <3>1. /\ \A f \in Pillars : x[f] = w[f]
          /\ x.idles = w.idles /\ x.dc = w.dc /\ x.locks = w.locks
          /\ x.sco = w.sco /\ x.sdp = w.sdp /\ x.pending_ring \in BOOLEAN /\ x.ring \in BOOLEAN
      BY <1>8, <2>2 DEF Base, Typed, Fields, Pillars
    <3> QED
      BY <1>8, <2>2, <3>1, BaseKept DEF Base, Typed, Channel
  <2>4. x.state = "CONNECTING"
    BY <1>9, <2>2 DEF Fields
  <2>5. /\ Base(u) /\ u.state = "CONNECTING" /\ u.pending.on /\ u.pending.svc = x.pending.svc
        /\ \A f \in Fields \ {"state", "told", "fault", "pending", "waiting"} : u[f] = x[f]
    BY <2>3, <2>4, StartsConnecting
  <2> HIDE DEF u
  <2>6. /\ u.tmp = "out" /\ u.live = {"out"} /\ u.rfcomm = "none" /\ u.sdp = "none" /\ u.auths = 0
        /\ u.pending.svc = "none" /\ u.idles = 0 /\ u.sco = "none" /\ ~u.pending_ring
    BY <1>6, <1>7, <1>9, <2>2, <2>5 DEF Fields
  <2>7. Good(u)
    BY <2>5, <2>6 DEF Good, Attempt, Audio, Ends, Abandoned, Up
  <2> QED
    BY <1>2, <2>1, <2>5, <2>7 DEF Step, Moves
<1>11. CASE ~found.ok /\ h' = [Fails(found.v) EXCEPT !.fault = @ \/ h.pending.msg = "none"]
  <2> DEFINE m == [w EXCEPT !.ch = FALSE, !.tmp = "none"]
  <2>1. (~allow /\ found.v = w) \/ (~io /\ found.v = m)
    BY <1>7, <1>11 DEF rfcomm_connect, Failed, Done
  <2>2. h.pending.msg # "none"
    BY <1>1, <2>1
  <2>3. IsWorld(m) /\ m.tmp = "none" /\ \A f \in Fields \ {"ch", "tmp"} : m[f] = w[f]
    BY <1>7 DEF IsWorld, Fields
  <2> HIDE DEF m
  <2>4. Base(m) /\ m.state = "CONNECTING" /\ m.live = {} /\ m.idles = 0
    <3>1. /\ \A f \in Pillars : m[f] = w[f]
          /\ m.live = w.live /\ m.idles = w.idles /\ m.dc = w.dc /\ m.locks = w.locks
          /\ m.sco = w.sco /\ m.sdp = w.sdp /\ m.pending_ring \in BOOLEAN /\ m.ring \in BOOLEAN
      BY <1>8, <2>3 DEF Base, Typed, Fields, Pillars
    <3> QED
      BY <1>8, <1>9, <2>3, <3>1, BaseKept DEF Base, Typed, Channel, Pillars
  <2> DEFINE y == found.v
  <2>5. Base(y) /\ y.state = "CONNECTING" /\ y.live = {} /\ y.idles = 0
    BY <1>8, <1>9, <2>1, <2>4
  <2> HIDE DEF y
  <2>6. Good(Fails(y)) /\ Fails(y).state = "DISCONNECTED"
    BY <2>5, SearchFails
  <2> DEFINE z == Fails(y)
  <2>7. h' = [z EXCEPT !.fault = @ \/ h.pending.msg = "none"]
    BY <1>11 DEF y
  <2>8. Good(z) /\ z.state = "DISCONNECTED"
    BY <2>6
  <2> HIDE DEF z
  <2>9. IsWorld(z) /\ z.fault \in BOOLEAN /\ ~z.fault
    BY <2>8 DEF Good, Base, Typed
  <2>10. (z.fault \/ h.pending.msg = "none") = z.fault
    BY <2>2, <2>9, Zenon
  <2>11. h' = [z EXCEPT !.fault = z.fault]
    BY <2>7, <2>10
  <2>12. h' = z
    BY <2>9, <2>11 DEF IsWorld, Fields
  <2> QED
    BY <2>8, <2>12 DEF Step, Moves
<1> QED
  BY <1>1, <1>2, <1>4, <1>5, <1>10, <1>11

\* A ring that waited for the SCO channel begins.
LEMMA Rings ==
  ASSUME NEW v, Base(v), v.pending_ring => ~v.ring
  PROVE  LET u == RingPending(v)
         IN  /\ Base(u) /\ ~u.pending_ring /\ u.pending_ring \in BOOLEAN
             /\ \A f \in Fields \ {"ring", "pending_ring"} : u[f] = v[f]
<1> DEFINE u == RingPending(v)
<1>1. CASE ~v.pending_ring
  <2>1. u = v
    BY <1>1 DEF RingPending
  <2> QED
    BY <1>1, <2>1 DEF Base, Typed
<1>2. CASE v.pending_ring
  <2>1. ~v.ring /\ v.lost_ring \in BOOLEAN
    BY <1>2 DEF Base, Typed
  <2>2. (v.lost_ring \/ v.ring) = v.lost_ring
    BY <2>1, Zenon
  <2>3. u = [v EXCEPT !.ring = TRUE, !.pending_ring = FALSE, !.lost_ring = v.lost_ring]
    BY <1>2, <2>2 DEF RingPending
  <2> HIDE DEF u
  <2>4. /\ IsWorld(u) /\ u.ring \in BOOLEAN /\ ~u.pending_ring /\ u.pending_ring \in BOOLEAN
        /\ \A f \in Fields \ {"ring", "pending_ring"} : u[f] = v[f]
    BY <2>3 DEF Base, Typed, IsWorld, Fields
  <2>5. /\ \A f \in Pillars : u[f] = v[f]
        /\ u.tmp = v.tmp /\ u.live = v.live /\ u.idles = v.idles /\ u.sco = v.sco /\ u.sdp = v.sdp
        /\ u.dc = v.dc /\ u.locks = v.locks
    BY <2>4 DEF Fields, Pillars
  <2>6. Base(u)
    BY <2>4, <2>5, BaseKept DEF Base, Typed
  <2> QED
    BY <2>4, <2>6 DEF u
<1> QED
  BY <1>1, <1>2

\* The SCO channel is there.
LEMMA ScoUp ==
  ASSUME NEW v, Base(v)
  PROVE  LET u == [v EXCEPT !.sco = "up"]
         IN  Base(u) /\ u.sco = "up" /\ \A f \in Fields \ {"sco"} : u[f] = v[f]
<1> DEFINE u == [v EXCEPT !.sco = "up"]
<1>1. IsWorld(u) /\ u.sco = "up" /\ \A f \in Fields \ {"sco"} : u[f] = v[f]
  BY DEF Base, Typed, IsWorld, Fields
<1> HIDE DEF u
<1>2. /\ \A f \in Pillars : u[f] = v[f]
      /\ u.tmp = v.tmp /\ u.live = v.live /\ u.idles = v.idles /\ u.sdp = v.sdp
      /\ u.dc = v.dc /\ u.locks = v.locks /\ u.pending_ring \in BOOLEAN /\ u.ring \in BOOLEAN
  BY <1>1 DEF Base, Typed, Fields, Pillars
<1>3. Base(u)
  BY <1>1, <1>2, BaseKept DEF Base, Typed
<1> QED
  BY <1>1, <1>3 DEF u

LEMMA ScoConnectStep ==
  ASSUME Good(h), Quiet(h), NEW ok \in BOOLEAN, sco_connect_cb(ok)
  PROVE  Step(h, h')
<1> DEFINE v == pending_connect_finalize(Reply(h))
           w == [v EXCEPT !.sco = "up"]
           x == headset_set_state(w, "PLAYING")
<1>1. /\ h.state = "PLAY_IN_PROGRESS"
      /\ h' = IF ok THEN RingPending(x) ELSE ConnectFailed(h)
  BY DEF sco_connect_cb
<1>2. Base(v) /\ v.pending = NoPending /\ v.sdp = "none"
      /\ \A f \in Fields \ {"call", "sdp", "waiting", "pending"} : v[f] = h[f]
  BY LiveIsTmp, AnsweredFields DEF Good
<1>3. ConnectFailed(h) = headset_set_state(v, IF v.rfcomm # "none" THEN "CONNECTED" ELSE "DISCONNECTED")
  BY DEF ConnectFailed
<1> HIDE DEF v
<1>4. /\ v.state = "PLAY_IN_PROGRESS" /\ v.rfcomm # "none" /\ v.tmp = "none" /\ v.live = {}
      /\ v.auths = 0 /\ v.idles = 0 /\ v.pending.svc = "none"
      /\ v.pending_ring => InbandRing /\ ~v.ring
  BY <1>1, <1>2 DEF Good, Attempt, Audio, Quiet, Up, Fields, NoPending
<1>5. CASE ok
  <2>1. Base(w) /\ w.sco = "up" /\ \A f \in Fields \ {"sco"} : w[f] = v[f]
    BY <1>2, ScoUp
  <2> HIDE DEF w
  <2>2. w.state = "PLAY_IN_PROGRESS" /\ w.slc # "none"
    BY <1>2, <1>4, <2>1 DEF Base, Fields
  <2>3. Base(x)
    BY <2>1, <2>2, SetStateBase DEF States
  <2>4. /\ x.state = "PLAYING" /\ x.sco = "up"
        /\ \A f \in Fields \ {"state", "told", "fault", "sco"} : x[f] = w[f]
    BY <2>1, <2>2, SetState DEF Base, States, Fields
  <2> HIDE DEF x
  <2>5. x.pending_ring => ~x.ring
    BY <1>4, <2>1, <2>4 DEF Fields
  <2>6. /\ Base(h') /\ ~h'.pending_ring
        /\ \A f \in Fields \ {"ring", "pending_ring"} : h'[f] = x[f]
    BY <1>1, <1>5, <2>3, <2>5, Rings
  <2>7. /\ h'.state = "PLAYING" /\ h'.sco = "up" /\ h'.tmp = "none" /\ h'.live = {} /\ h'.rfcomm # "none"
        /\ h'.sdp = "none" /\ h'.auths = 0 /\ h'.pending = NoPending /\ h'.idles = 0
    BY <1>2, <1>4, <2>1, <2>4, <2>6 DEF Fields
  <2> QED
    BY <1>1, <2>6, <2>7 DEF Step, Moves, Good, Attempt, Audio, Ends, Abandoned, NoPending, Up
<1>6. CASE ~ok
  <2> DEFINE u == headset_set_state(v, "CONNECTED")
  <2>1. h' = u
    BY <1>1, <1>3, <1>4, <1>6
  <2>2. /\ Base(u) /\ Attempt(u) /\ Audio(u) /\ u.state = "CONNECTED"
        /\ \A f \in Fields \ {"state", "told", "fault", "sco"} : u[f] = v[f]
    BY <1>2, <1>4, GoesConnected
  <2> HIDE DEF u
  <2>3. u.pending = NoPending /\ u.idles = 0
    BY <1>2, <1>4, <2>2 DEF Fields
  <2> QED
    BY <1>1, <2>1, <2>2, <2>3 DEF Step, Moves, Good, Ends, Abandoned, NoPending, Up
<1> QED
  BY <1>5, <1>6

LEMMA ScoLostStep ==
  ASSUME Good(h), Quiet(h), sco_cb
  PROVE  Step(h, h')
<1> DEFINE v == pending_connect_finalize(h)
<1>1. h.state = "PLAYING" /\ h' = headset_set_state(v, "CONNECTED")
  BY DEF sco_cb
<1>2. Base(v) /\ v.pending = NoPending /\ v.sdp = "none"
      /\ \A f \in Fields \ {"sdp", "waiting", "pending"} : v[f] = h[f]
  BY LiveIsTmp, FinalizeFields DEF Good
<1> HIDE DEF v
<1>3. /\ v.state = "PLAYING" /\ v.rfcomm # "none" /\ v.tmp = "none" /\ v.live = {}
      /\ v.auths = 0 /\ v.idles = 0 /\ v.pending.svc = "none" /\ ~v.pending_ring
  BY <1>1, <1>2 DEF Good, Attempt, Audio, Quiet, Up, Fields, NoPending
<1>4. /\ Base(h') /\ Attempt(h') /\ Audio(h') /\ h'.state = "CONNECTED"
      /\ \A f \in Fields \ {"state", "told", "fault", "sco"} : h'[f] = v[f]
  BY <1>1, <1>2, <1>3, GoesConnected
<1>5. h'.pending = NoPending /\ h'.idles = 0
  BY <1>2, <1>3, <1>4 DEF Fields
<1> QED
  BY <1>1, <1>4, <1>5 DEF Step, Moves, Good, Ends, Abandoned, NoPending, Up

LEMMA ScoServerStep ==
  ASSUME Good(h), Quiet(h), ~Abandoned(h'), sco_server_cb
  PROVE  Step(h, h')
<1> DEFINE w == [h EXCEPT !.sco = "up"]
           x == RingPending(w)
<1>1. h.state = "CONNECTED" /\ h' = headset_set_state(x, "PLAYING")
  BY Ranks DEF sco_server_cb, Good, Base, Typed, Audio, Up
<1>2. Base(w) /\ w.sco = "up" /\ \A f \in Fields \ {"sco"} : w[f] = h[f]
  BY ScoUp DEF Good
<1> HIDE DEF w
<1>3. w.pending_ring => ~w.ring
  BY <1>2 DEF Fields, Good, Audio
<1>4. /\ Base(x) /\ ~x.pending_ring
      /\ \A f \in Fields \ {"ring", "pending_ring"} : x[f] = w[f]
  BY <1>2, <1>3, Rings
<1> HIDE DEF x
<1>5. /\ x.state = "CONNECTED" /\ x.sco = "up" /\ x.rfcomm # "none" /\ x.tmp = "none" /\ x.live = {}
      /\ x.sdp = "none" /\ x.pending.svc = "none" /\ x.auths = 0 /\ x.idles = 0
  BY <1>1, <1>2, <1>4 DEF Good, Attempt, Quiet, Up, Fields
<1>6. x.slc # "none"
  BY <1>4, <1>5 DEF Base
<1>7. Base(h')
  BY <1>1, <1>4, <1>5, <1>6, SetStateBase DEF States
<1>8. /\ h'.state = "PLAYING" /\ h'.sco = "up" /\ ~h'.pending_ring
      /\ h'.rfcomm # "none" /\ h'.tmp = "none" /\ h'.live = {} /\ h'.sdp = "none"
      /\ h'.pending.svc = "none" /\ h'.auths = 0 /\ h'.idles = 0
  BY <1>1, <1>4, <1>5, SetState DEF Base, States, Fields
<1> QED
  BY <1>1, <1>7, <1>8 DEF Step, Moves, Good, Attempt, Audio, Ends, Up

-----------------------------------------------------------------------------
(* The theorems.                                                           *)

LEMMA InitGood == Init => IInv
<1> SUFFICES ASSUME Init
             PROVE  Good(h)
  BY DEF IInv
<1>a. IsWorld(h)
  BY DEF Init, IsWorld, Fields
<1>b. /\ h.state \in States /\ h.tmp \in Channel /\ h.rfcomm \in Channel
      /\ h.live \subseteq {"out", "in"} /\ h.auths \in 0..1
      /\ h.slc \in {"none", "plain", "threeway"} /\ h.dc \in {"none", "live", "stale"}
      /\ h.sco \in {"none", "connecting", "up", "closed"} /\ h.sdp \in {"none", "HFP", "HSP"}
      /\ h.idles \in 0..1 /\ h.waiting \subseteq Users /\ h.locks \subseteq Users
  BY DEF Init, States, Channel
<1>c. /\ h.preauth \in BOOLEAN /\ h.pending_ring \in BOOLEAN /\ h.ring \in BOOLEAN
      /\ h.lost_ring \in BOOLEAN /\ h.fault \in BOOLEAN
  BY DEF Init
<1>d. h.pending \in Pendings
  BY DEF Init, Pendings, NoPending
<1>1. Typed(h)
  BY <1>a, <1>b, <1>c, <1>d DEF Typed
<1>2. Held(h)
  BY DEF Init, Held, NoPending
<1>3. Base(h)
  BY <1>1, <1>2, Names DEF Init, Base
<1> QED
  BY <1>3 DEF Init, Good, Attempt, Audio, Ends, Abandoned, NoPending, Up

LEMMA NextGood ==
  ASSUME Expected, IInv, Next
  PROVE  Step(h, h')
<1>1. Good(h) /\ ~Abandoned(h')
  BY DEF IInv, Next, Expected
<1>2. CASE hs_preauth_cb
  BY <1>1, <1>2, PreauthStep
<1>3. CASE dummy_connect_complete
  BY <1>1, <1>3, IdleStep
<1>4. CASE /\ Closed => "burst" \in Environment
           /\ h.idles > 0 => "busyloop" \in Environment
           /\ \/ ChannelEvents \/ Requests \/ Telephony
              \/ \E hfp, asked \in BOOLEAN : ag_confirm(hfp, asked)
              \/ \E ok, accepted \in BOOLEAN : headset_auth_cb(ok, accepted)
  <2>1. Quiet(h)
    BY <1>1, <1>4 DEF Closed, Expected, Quiet, Good, Base, Typed
  <2>2. CASE ChannelEvents
    <3>1. ASSUME NEW channel \in {"out", "in"}, NEW ok \in BOOLEAN, NEW io \in BOOLEAN,
                 headset_connect_cb(channel, ok, io)
          PROVE  Step(h, h')
      BY <1>1, <2>1, <3>1, ChannelStep
    <3>2. ASSUME NEW result \in {"err", "none", "found"}, NEW io \in BOOLEAN, NEW allow \in BOOLEAN,
                 get_record_cb(result, io, allow)
          PROVE  Step(h, h')
      BY <1>1, <2>1, <3>2, RecordStep
    <3>3. ASSUME NEW ok \in BOOLEAN, sco_connect_cb(ok)
          PROVE  Step(h, h')
      BY <1>1, <2>1, <3>3, ScoConnectStep
    <3>4. ASSUME NEW io \in BOOLEAN, event_reporting(io) \/ call_hold(io)
          PROVE  Step(h, h')
      BY <1>1, <2>1, <3>4, SlcComplete DEF event_reporting, call_hold
    <3>5. CASE rfcomm_io_cb
      BY <1>1, <2>1, <3>5, DownSteps
    <3>6. CASE supported_features
      BY <1>1, <2>1, <3>6, FeaturesStep
    <3>7. CASE AnswerOrReject
      BY <1>1, <2>1, <3>7, RingSteps
    <3>8. CASE sco_cb
      BY <1>1, <2>1, <3>8, ScoLostStep
    <3>9. CASE sco_server_cb
      BY <1>1, <2>1, <3>9, ScoServerStep
    <3> QED
      BY <2>2, <3>1, <3>2, <3>3, <3>4, <3>5, <3>6, <3>7, <3>8, <3>9 DEF ChannelEvents
  <2>3. CASE Requests
    <3>1. ASSUME NEW c \in Clients, NEW io \in BOOLEAN, hs_play(c, io)
          PROVE  Step(h, h')
      BY <1>1, <2>1, <3>1, PlayStep
    <3>2. ASSUME NEW c \in Clients, NEW io \in BOOLEAN, NEW allow \in BOOLEAN, hs_connect(c, io, allow)
          PROVE  Step(h, h')
      BY <1>1, <2>1, <3>2, ConnectStep
    <3>3. CASE hs_disconnect
      BY <1>1, <2>1, <3>3, DisconnectStep
    <3>4. CASE hs_stop
      BY <1>1, <2>1, <3>4, StopStep
    <3>5. CASE hs_ring \/ hs_cancel_call
      BY <1>1, <2>1, <3>5, RingSteps
    <3>6. ASSUME NEW x \in Users, UserLocks(x) \/ UserSuspends(x) \/ UserCloses(x)
          PROVE  Step(h, h')
      BY <1>1, <2>1, <3>6, StreamSteps
    <3>7. ASSUME NEW x \in Users, NEW io \in BOOLEAN, NEW allow \in BOOLEAN,
                 UserConfigures(x, io, allow) \/ UserResumes(x, io, allow)
          PROVE  Step(h, h')
      BY <1>1, <2>1, <3>7, StreamSteps
    <3>8. ASSUME NEW io \in BOOLEAN, NEW allow \in BOOLEAN, DeviceConnects(io, allow)
          PROVE  Step(h, h')
      BY <1>1, <2>1, <3>8, DeviceStep
    <3>9. CASE hs_dc_timeout
      BY <1>1, <2>1, <3>9, DownSteps
    <3> QED
      BY <2>3, <3>1, <3>2, <3>3, <3>4, <3>5, <3>6, <3>7, <3>8, <3>9 DEF Requests
  <2>4. CASE Telephony
    BY <1>1, <2>1, <2>4, RingSteps
  <2>5. ASSUME NEW hfp \in BOOLEAN, NEW asked \in BOOLEAN, ag_confirm(hfp, asked)
        PROVE  Step(h, h')
    BY <1>1, <2>1, <2>5, ConfirmStep
  <2>6. ASSUME NEW ok \in BOOLEAN, NEW accepted \in BOOLEAN, headset_auth_cb(ok, accepted)
        PROVE  Step(h, h')
    BY <1>1, <2>1, <2>6, AuthStep
  <2> QED
    BY <1>4, <2>2, <2>3, <2>4, <2>5, <2>6
<1> QED
  BY <1>2, <1>3, <1>4 DEF Next

LEMMA GoodShows == IInv => HeadsetSafe
<1> SUFFICES ASSUME Good(h)
             PROVE  HeadsetSafe
  BY DEF IInv
<1>1. /\ Rank(h.state) >= 2 <=> h.state \in Up
      /\ Rank(h.state) >= 3 <=> h.state \in {"PLAY_IN_PROGRESS", "PLAYING"}
  BY Ranks DEF Good, Base, Typed
<1>2. TypeOK
  BY DEF TypeOK, Good, Base, Typed, Held, Pendings, States, Channel
<1>3. NoFault /\ RingStops /\ UserHeld /\ Told
  BY DEF NoFault, RingStops, UserHeld, Told, Good, Base, Held
<1>4. ChannelsMatchState
  BY <1>1 DEF ChannelsMatchState, Good, Base, Attempt, Audio, Up
<1>5. OneAttempt
  BY LiveIsTmp DEF OneAttempt, Good, Attempt
<1>6. ConnectingUnderWay
  BY DEF ConnectingUnderWay, Good, Attempt
<1> QED
  BY <1>2, <1>3, <1>4, <1>5, <1>6 DEF HeadsetSafe, Safe, Channels

\* Whatever clients, stream users, the device, the remote end and the telephony
\* back end do and in whatever order, headset.c uses no null pointer, its
\* channels fit its state, one attempt to connect is made at a time and is under
\* way while the state says so, no stream user is forgotten, and no ring timer lost.
THEOREM HeadsetSafeTheorem ==
  ASSUME Expected
  PROVE  Spec => []HeadsetSafe
<1>1. IInv /\ [Next]_vars => IInv'
  <2>1. CASE Next
    BY <2>1, NextGood DEF Step, IInv
  <2>2. CASE UNCHANGED vars
    BY <2>2 DEF IInv, vars
  <2> QED
    BY <2>1, <2>2
<1> QED
  BY <1>1, InitGood, GoodShows, PTL DEF Spec

\* The State that headset_set_state signals takes no transition but those that
\* doc/audio-api.txt lists: Headset implements AudioState.
THEOREM HeadsetDocumentedTheorem ==
  ASSUME Expected
  PROVE  Spec => Documented
<1>1. Init => AS!Init
  BY DEF Init, AS!Init
<1>2. IInv /\ [Next]_vars => IInv' /\ [AS!Next]_(h.told)
  <2> SUFFICES ASSUME IInv, [Next]_vars
               PROVE  IInv' /\ [AS!Next]_(h.told)
    OBVIOUS
  <2>1. CASE Next
    <3>1. Good(h) /\ Good(h') /\ Moves(h.state, h'.state)
      BY <2>1, NextGood DEF Step, IInv
    <3>2. /\ h.told = state2str(h.state) /\ h'.told = state2str(h'.state)
          /\ h.state \in States /\ h'.state \in States
      BY <3>1 DEF Good, Base, Typed
    <3>3. h'.told = h.told \/ AS!Next
      BY <3>1, <3>2, Names
         DEF Moves, States, Up, AS!Next, AS!Connecting, AS!Connected, AS!Playing, AS!Stopped, AS!Disconnected
    <3> QED
      BY <3>1, <3>3 DEF IInv
  <2>2. CASE UNCHANGED vars
    BY <2>2 DEF IInv, vars
  <2> QED
    BY <2>1, <2>2
<1> QED
  BY <1>1, <1>2, InitGood, PTL DEF Spec, Documented, AS!Spec

=============================================================================
