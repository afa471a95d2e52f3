-------------------------------- MODULE Hdp ---------------------------------
(***************************************************************************)
(* health/hdp.c, with the searches of hdp_util.c: one health application    *)
(* and one health device, whose clients create, acquire, destroy and echo   *)
(* data channels in stages, each of which ends with a callback, while the   *)
(* remote side opens and deletes channels and the MCL comes and goes.       *)
(* Channels and applications are counted references; Mcap models what the   *)
(* calls of mcap.c promise.                                                 *)
(***************************************************************************)
EXTENDS Integers, FiniteSets

CONSTANTS
  Clients, Slots, \* callers, and channel objects
  Remote,         \* whether the remote side opens channels of its own
  Environment     \* what makes it go wrong: a device that goes while a call is under way
                  \* ("gone"), an application destroyed while a call uses it ("destroyed"), a
                  \* channel used before its data channel is there ("early"), one that is deleted
                  \* before its abort is answered ("abort"), a second request of the
                  \* remote side while the first is pending ("pending")

VARIABLE h

Idle == [op |-> "none", stage |-> "none", chan |-> 0]
NoChan == [refs |-> 0, listed |-> FALSE, mdl |-> FALSE, fd |-> FALSE, echo |-> FALSE]

\* sdp: sdp_present; tail: aborts and deletions under way for a channel, held when they have a
\* reference to it; serve: echo channels of the remote side that are watched; timer: Echo's.
Init == h = [dev |-> TRUE, sdp |-> TRUE, mcl |-> "none", ch |-> [s \in Slots |-> NoChan], fr |-> 0, ndc |-> 0,
             op |-> [c \in Clients |-> Idle], tail |-> {}, serve |-> {}, timer |-> {},
             app |-> [listed |-> FALSE, refs |-> 0, watch |-> FALSE], fault |-> FALSE]

-----------------------------------------------------------------------------
(* References.                                                             *)

hdp_application_ref(v) == [v EXCEPT !.app.refs = @ + 1]
hdp_application_unref(v) ==
  IF v.app.refs = 0 THEN [v EXCEPT !.fault = TRUE]
  ELSE [v EXCEPT !.app.refs = @ - 1, !.app.watch = @ /\ v.app.refs > 1]

hdp_channel_ref(v, s) == [v EXCEPT !.ch[s].refs = @ + 1]
free_health_channel(v, s) ==
  LET w == [v EXCEPT !.ch[s] = NoChan]
  IN IF v.ch[s].echo THEN w ELSE hdp_application_unref(w)
hdp_channel_unref(v, s) ==
  IF v.ch[s].refs = 0 THEN [v EXCEPT !.fault = TRUE]
  ELSE IF v.ch[s].refs > 1 THEN [v EXCEPT !.ch[s].refs = @ - 1] ELSE free_health_channel(v, s)

Listed(v) == {s \in Slots : v.ch[s].listed}
Free(v) == {s \in Slots : v.ch[s].refs = 0 /\ ~\E t \in v.tail : t.chan = s}
UnderWay(v) == {c \in Clients : v.op[c] # Idle}

\* A call is answered, and what it holds is given up.
Answer(v, c) ==
  LET o == v.op[c]
      w == [v EXCEPT !.op[c] = Idle]
  IN IF o.chan # 0 THEN hdp_channel_unref(w, o.chan)
     ELSE IF o.op = "create" THEN hdp_application_unref(w) ELSE w

health_channel_destroy(v, s) ==
  IF ~v.ch[s].listed THEN hdp_channel_unref(v, s)
  ELSE LET w == [v EXCEPT !.ch[s].listed = FALSE]
           x == IF v.fr = s THEN hdp_channel_unref([w EXCEPT !.fr = 0], s) ELSE w
       IN hdp_channel_unref(x, s)

remove_channels(v) ==
  LET step[S \in SUBSET Slots] ==
        IF S = {} THEN v
        ELSE LET s == CHOOSE z \in S : TRUE IN health_channel_destroy(step[S \ {s}], s)
  IN step[Listed(v)]

create_channel(v, s, echo, mdl) ==
  LET w == [v EXCEPT !.ch[s] = [refs |-> 2, listed |-> TRUE, mdl |-> mdl, fd |-> FALSE, echo |-> echo]]
  IN IF echo THEN w ELSE hdp_application_ref(w)

-----------------------------------------------------------------------------
(* The device, its MCL and the application.                                *)

Closed(v) == [v EXCEPT !.ch = [s \in Slots |-> [v.ch[s] EXCEPT !.fd = FALSE]]]
device_unref_mcl(v) == Closed([v EXCEPT !.mcl = "none"])

\* The interface is unregistered; the device is freed with its last reference.
health_device_destroy(v) ==
  LET w == remove_channels(v)
      x == IF w.ndc # 0 THEN hdp_channel_unref([w EXCEPT !.ndc = 0], w.ndc) ELSE w
      y == [x EXCEPT !.dev = FALSE, !.sdp = FALSE]
  IN IF \A s \in Slots : y.ch[s].refs = 0 THEN device_unref_mcl(y) ELSE y

Unannounced(v) == IF v.sdp \/ ~v.dev THEN v ELSE health_device_destroy(v)
close_device_con(v) == IF v.mcl = "none" THEN v ELSE Unannounced(remove_channels(device_unref_mcl(v)))

\* Without applications the instance is released, and with it the MCL.
check_devices_mcl(v) ==
  LET w == device_unref_mcl(v) IN IF v.sdp THEN remove_channels(w) ELSE Unannounced(w)
update_adapter(v) == IF v.app.listed \/ ~v.dev THEN v ELSE check_devices_mcl(v)

manager_create_application ==
  /\ h.app = [listed |-> FALSE, refs |-> 0, watch |-> FALSE]
  /\ h' = [h EXCEPT !.app = [listed |-> TRUE, refs |-> 1, watch |-> TRUE]]

MayLeave == h.app.refs = 1 \/ "destroyed" \in Environment
remove_application(v) == update_adapter(hdp_application_unref([v EXCEPT !.app.listed = FALSE]))
manager_destroy_application == h.app.listed /\ MayLeave /\ h' = remove_application(h)
client_disconnected ==
  h.app.watch /\ MayLeave /\ h' = remove_application([h EXCEPT !.app.watch = FALSE])

hdp_device_register == h.dev /\ ~h.sdp /\ h' = [h EXCEPT !.sdp = TRUE]
hdp_device_unregister ==
  h.dev /\ h' = health_device_destroy(h)

mcl_connected ==
  /\ h.mcl = "none" /\ h.app.listed /\ (h.dev \/ (UnderWay(h) = {} /\ h.ch = [s \in Slots |-> NoChan]))
  /\ h' = [h EXCEPT !.mcl = "up", !.dev = TRUE]
mcl_reconnected == h.mcl = "cached" /\ h.app.listed /\ h' = [h EXCEPT !.mcl = "up"]
mcl_disconnected == h.mcl = "up" /\ h' = Closed([h EXCEPT !.mcl = "cached"])
mcl_uncached == h.mcl = "cached" /\ h' = Unannounced(device_unref_mcl(h))

-----------------------------------------------------------------------------
(* Requests of mcap.c: one is under way at a time, and only over the MCL.  *)

Busy(v) == \/ \E c \in Clients : v.op[c].stage \in {"mdl", "reconnect", "delete"}
           \/ v.tail # {}
CanSend(v) == v.mcl = "up" /\ ~Busy(v)
Stage(v, c, stage) == [v EXCEPT !.op[c].stage = stage]

\* An abort for a channel that no reference protects, or with one.
mcap_mdl_abort(v, s, held) ==
  IF ~CanSend(v) THEN IF held THEN hdp_channel_unref(v, s) ELSE v
  ELSE [v EXCEPT !.tail = @ \union {[kind |-> "abort", chan |-> s, held |-> held]}]

delete_echo_channel(v, s) ==
  IF ~CanSend(v) THEN v
  ELSE hdp_channel_ref([v EXCEPT !.tail = @ \union {[kind |-> "delete", chan |-> s, held |-> TRUE]}], s)

\* abort_mdl_cb, abort_echo_channel_cb, delete_echo_channel_cb.
TailDone(t, ok) ==
  LET v == [h EXCEPT !.tail = @ \ {t}]
      done == CASE t.kind = "delete" /\ ok -> IF v.ch[t.chan].listed THEN health_channel_destroy(v, t.chan) ELSE v
                [] t.kind = "abort" /\ t.held /\ ok -> delete_echo_channel(v, t.chan)
                [] OTHER -> v
  IN /\ t \in h.tail
     /\ h' = IF t.held THEN hdp_channel_unref(done, t.chan)
             ELSE IF t.chan # 0 /\ h.ch[t.chan].refs = 0 THEN [v EXCEPT !.fault = TRUE] ELSE v

-----------------------------------------------------------------------------
(* Calls of the clients.                                                   *)

device_create_dc_cb(v, c) == IF CanSend(v) THEN Stage(v, c, "mdl") ELSE Answer(v, c)
Connected(v, c) == IF v.mcl = "up" THEN device_create_dc_cb(v, c) ELSE Stage(v, c, "mcl")

device_create_channel(c) ==
  /\ h.dev /\ h.app.listed /\ h.op[c] = Idle
  /\ h' = hdp_application_ref([h EXCEPT !.op[c] = [op |-> "create", stage |-> "mdep", chan |-> 0]])
device_get_mdep_cb(c, ok) ==
  /\ h.op[c].stage = "mdep" /\ h' = IF ok THEN Connected(h, c) ELSE Answer(h, c)

device_echo(c) ==
  /\ h.dev /\ h.op[c] = Idle
  /\ h' = Connected([h EXCEPT !.op[c] = [op |-> "echo", stage |-> "mcl", chan |-> 0]], c)

Usable(s) == h.ch[s].listed /\ ~h.ch[s].echo /\ (h.ch[s].mdl \/ "early" \in Environment)
NoMdl(v, s) == [v EXCEPT !.fault = @ \/ ~v.ch[s].mdl]

channel_acquire_continue(v, c) ==
  LET s == v.op[c].chan
  IN IF v.ch[s].fd THEN Answer(v, c)
     ELSE IF CanSend(v) THEN Stage(NoMdl(v, s), c, "reconnect") ELSE Answer(NoMdl(v, s), c)
hdp_continue_del_cb(v, c) ==
  LET w == NoMdl(v, v.op[c].chan) IN IF CanSend(v) THEN Stage(w, c, "delete") ELSE Answer(w, c)
Continue(v, c) == CASE v.op[c].op = "acquire" -> channel_acquire_continue(v, c)
                    [] v.op[c].op = "destroy" -> hdp_continue_del_cb(v, c)
                    [] OTHER -> device_create_dc_cb(v, c)

\* channel_acquire and device_destroy_channel.
CallChannel(c, op, s) ==
  LET v == hdp_channel_ref([h EXCEPT !.op[c] = [op |-> op, stage |-> "mcl", chan |-> s]], s)
  IN /\ h.dev /\ h.op[c] = Idle /\ Usable(s)
     /\ h' = IF h.mcl = "up" THEN Continue(v, c) ELSE v
channel_release(s) == h.ch[s].fd /\ ~h.ch[s].echo /\ h' = [h EXCEPT !.ch[s].fd = FALSE]

\* hdp_establish_mcl is answered: search_cb, create_mcl_cb.
create_mcl_cb(c, ok) ==
  /\ h.op[c].stage = "mcl"
  /\ h' = IF ok /\ h.app.listed THEN Continue([h EXCEPT !.mcl = "up"], c) ELSE Answer(h, c)

\* A first channel that is not reliable is aborted (conf).  psm: the search for the channel
\* starts.
device_create_mdl_cb(c, ok, conf, psm) ==
  \E s \in Free(h) :
    LET echo == h.op[c].op = "echo"
        v == create_channel(h, s, echo, TRUE)
        w == [Answer(v, c) EXCEPT !.op[c] = [op |-> h.op[c].op, stage |-> "psm", chan |-> s]]
    IN /\ h.op[c].stage = "mdl"
       /\ ok => h.mcl = "up"
       /\ h' = CASE ok /\ conf /\ psm -> w
                 [] ok /\ conf /\ ~psm -> mcap_mdl_abort(Answer(w, c), s, FALSE)
                 [] OTHER -> Answer(h, c)

device_reconnect_mdl_cb(c, ok, psm) ==
  /\ h.op[c].stage = "reconnect" /\ (ok => h.mcl = "up")
  /\ h' = CASE ok /\ psm -> Stage(h, c, "psm")
            [] ok /\ ~psm -> mcap_mdl_abort(Answer(h, c), 0, FALSE)
            [] OTHER -> Answer(h, c)

hdp_mdl_delete_cb(c, ok) ==
  LET s == h.op[c].chan
  IN /\ h.op[c].stage = "delete" /\ (ok => h.mcl = "up")
     /\ h' = Answer(IF ok /\ h.ch[s].listed THEN health_channel_destroy(h, s) ELSE h, c)

\* hdp_mdl_conn_cb, hdp_mdl_reconn_cb and hdp_echo_connect_cb; conf: check_channel_conf.
Main(v, s) == IF v.fr # 0 THEN v ELSE hdp_channel_ref([v EXCEPT !.fr = s], s)
ConnectFailed(v, c) ==
  LET s == v.op[c].chan
  IN CASE v.op[c].op = "create" -> mcap_mdl_abort(Answer(v, c), s, FALSE)
       [] v.op[c].op = "acquire" -> mcap_mdl_abort(Answer(v, c), 0, FALSE)
       [] OTHER -> Answer(mcap_mdl_abort(hdp_channel_ref(v, s), s, TRUE), c)
ConnectDone(v, c, conf) ==
  LET s == v.op[c].chan
      up == [v EXCEPT !.ch[s].fd = TRUE]
      deleted == ~v.ch[s].listed /\ v.dev
  IN CASE deleted -> Answer(v, c)
       [] ~deleted /\ v.op[c].op = "create" -> Answer(IF conf THEN Main(up, s) ELSE v, c)
       [] ~deleted /\ v.op[c].op = "acquire" -> Answer(up, c)
       [] OTHER -> hdp_channel_ref([Stage(up, c, "echo") EXCEPT !.timer = @ \union {c}], s)

hdp_get_dcpsm_cb(c, ok) ==
  /\ h.op[c].stage = "psm" /\ h' = IF ok THEN Stage(h, c, "connect") ELSE ConnectFailed(h, c)
ConnectCb(c, ok, conf) ==
  /\ h.op[c].stage = "connect" /\ (ok => h.mcl = "up")
  /\ h' = IF ok THEN ConnectDone(h, c, conf) ELSE ConnectFailed(h, c)

EndTimer(v, c) == IF c \in v.timer THEN hdp_channel_unref([v EXCEPT !.timer = @ \ {c}], v.op[c].chan) ELSE v
echo_timeout(c) ==
  c \in h.timer /\ h' = EndTimer([h EXCEPT !.ch[h.op[c].chan].fd = FALSE], c)
check_echo(c, same) ==
  LET s == h.op[c].chan
      v == EndTimer(h, c)
  IN /\ h.op[c].stage = "echo" /\ (same => h.ch[s].fd)
     /\ h' = Answer(IF same THEN delete_echo_channel(v, s) ELSE close_device_con(v), c)

-----------------------------------------------------------------------------
(* Channels of the remote side.                                            *)

\* One with the id of a channel that is known (old) replaces it.
hdp_mcap_mdl_conn_req_cb(s, echo, old) ==
  LET v == IF old # 0 THEN health_channel_destroy(h, old) ELSE h
  IN /\ Remote /\ h.mcl = "up" /\ h.dev /\ s \in Free(h) /\ (h.ndc = 0 \/ "pending" \in Environment)
     /\ echo \/ h.app.listed
     /\ old # 0 => ~echo /\ Usable(old) /\ h.ndc # old
     /\ h' = [create_channel(v, s, echo, FALSE) EXCEPT !.ndc = s]
Misconfigured == Remote /\ h.mcl = "up" /\ h.dev /\ h' = close_device_con(h)

hdp_mcap_mdl_reconn_req_cb(s) ==
  /\ Remote /\ h.mcl = "up" /\ h.ch[s].listed /\ h.ch[s].mdl /\ ~h.ch[s].fd /\ h.ndc = 0
  /\ h' = hdp_channel_ref([h EXCEPT !.ndc = s], s)

Taken(v) ==
  LET s == v.ndc
      w == [v EXCEPT !.ch[s].mdl = TRUE, !.ch[s].listed = TRUE]
  IN IF v.ch[s].listed THEN w ELSE hdp_channel_ref(w, s)
hdp_mcap_mdl_connected_cb(conf) ==
  LET s == h.ndc
      v == [Taken(h) EXCEPT !.ch[s].fd = conf]
      w == IF ~conf THEN v
           ELSE IF v.ch[s].echo THEN hdp_channel_ref([v EXCEPT !.serve = @ \union {s}], s)
           ELSE Main(v, s)
  IN h.ndc # 0 /\ h.mcl = "up" /\ h.ndc \notin h.serve /\ h' = hdp_channel_unref([w EXCEPT !.ndc = 0], s)
hdp_mcap_mdl_aborted_cb ==
  h.ndc # 0 /\ h.mcl = "up" /\ h' = hdp_channel_unref([Taken(h) EXCEPT !.ndc = 0], h.ndc)

hdp_mcap_mdl_deleted_cb(s) ==
  /\ h.mcl = "up" /\ h.ch[s].listed /\ h.ch[s].mdl
  /\ h' = health_channel_destroy([h EXCEPT !.ch[s].fd = FALSE], s)
hdp_mcap_mdl_closed_cb(s) == h.ch[s].fd /\ h' = [h EXCEPT !.ch[s].fd = FALSE]

\* The watch ends with the channel, or with an echo that is not the only one.
serve_echo(s, fail) ==
  LET v == [h EXCEPT !.serve = @ \ {s}]
  IN /\ s \in h.serve /\ (fail => h.ch[s].fd) /\ (~fail => ~h.ch[s].fd)
     /\ h' = hdp_channel_unref(IF fail THEN close_device_con(v) ELSE v, s)

-----------------------------------------------------------------------------

Steps ==
  \/ manager_create_application \/ manager_destroy_application \/ client_disconnected
  \/ hdp_device_register \/ hdp_device_unregister
  \/ mcl_connected \/ mcl_reconnected \/ mcl_disconnected \/ mcl_uncached
  \/ \E t \in h.tail, ok \in BOOLEAN : TailDone(t, ok)
  \/ \E c \in Clients : device_create_channel(c) \/ device_echo(c) \/ echo_timeout(c)
  \/ \E c \in Clients, ok \in BOOLEAN :
       \/ device_get_mdep_cb(c, ok) \/ create_mcl_cb(c, ok) \/ hdp_mdl_delete_cb(c, ok)
       \/ hdp_get_dcpsm_cb(c, ok) \/ check_echo(c, ok)
  \/ \E c \in Clients, ok, conf, psm \in BOOLEAN : device_create_mdl_cb(c, ok, conf, psm)
  \/ \E c \in Clients, ok, also \in BOOLEAN : device_reconnect_mdl_cb(c, ok, also) \/ ConnectCb(c, ok, also)
  \/ \E c \in Clients, op \in {"acquire", "destroy"}, s \in Slots : CallChannel(c, op, s)
  \/ \E s \in Slots, echo \in BOOLEAN, old \in Slots \union {0} : hdp_mcap_mdl_conn_req_cb(s, echo, old)
  \/ Misconfigured \/ hdp_mcap_mdl_aborted_cb \/ \E ok \in BOOLEAN : hdp_mcap_mdl_connected_cb(ok)
  \/ \E s \in Slots : \/ channel_release(s) \/ hdp_mcap_mdl_reconn_req_cb(s)
                      \/ hdp_mcap_mdl_deleted_cb(s) \/ hdp_mcap_mdl_closed_cb(s)
                      \/ \E fail \in BOOLEAN : serve_echo(s, fail)

\* What the environment does not do.
Assumed ==
  /\ h'.dev \/ UnderWay(h') = {} \/ "gone" \in Environment
  /\ "abort" \notin Environment => \A t \in {t \in h'.tail : ~t.held /\ t.chan # 0} : h'.ch[t.chan].refs > 0
Next == Steps /\ Assumed
Spec == Init /\ [][Next]_h

-----------------------------------------------------------------------------

Count(P) == Cardinality(P)

\* A channel is there exactly as long as the list, the device or something under way needs it.
ChannelsCounted ==
  \A s \in Slots :
    h.ch[s].refs = Count({z \in {"list"} : h.ch[s].listed}) + Count({z \in {"fr"} : h.fr = s})
                   + Count({z \in {"ndc"} : h.ndc = s}) + Count({c \in Clients : h.op[c].chan = s})
                   + Count({c \in h.timer : h.op[c].chan = s}) + Count({t \in h.tail : t.held /\ t.chan = s})
                   + Count(h.serve \intersect {s})

\* So is an application, with its watch for the client.
ApplicationCounted ==
  /\ h.app.refs = Count({z \in {"list"} : h.app.listed})
                  + Count({s \in Slots : h.ch[s].refs > 0 /\ ~h.ch[s].echo})
                  + Count({c \in Clients : h.op[c].op = "create" /\ h.op[c].chan = 0})
  /\ h.app.watch = h.app.listed

\* MainChannel is a channel of the device, and nothing but a call under way keeps channels of
\* a device that is gone.
MainListed == /\ h.fr # 0 => h.ch[h.fr].listed
              /\ ~h.dev => h.fr = 0 /\ Listed(h) = {} /\ h.ndc = 0

NoFault == ~h.fault

Safe == ChannelsCounted /\ ApplicationCounted /\ MainListed /\ NoFault
=============================================================================
