--------------------------------- MODULE Mcap ---------------------------------
(***************************************************************************)
(* MCAP, two parts: the MCL and its MDLs, in m, and the clock              *)
(* synchronisation over its control channel, in c.                         *)
(*                                                                         *)
(* health/mcap.c: one MCL (the control channel to a health device) with its *)
(* MDLs (data channels), and health/hdp.c as its user.  Either side makes   *)
(* requests, one at a time; the acceptor of the control channel gives way.  *)
(* A closed MCL is cached with its MDLs until the cache overflows.          *)
(*                                                                         *)
(* Callbacks of the user that make requests are actions of their own: the   *)
(* request that they are called for has been dealt with by then.            *)
(***************************************************************************)
EXTENDS FiniteSets, FiniteSetsExt, Integers

CONSTANTS Ids,        \* MDLIDs, numbers
          Environment \* which of these happen as well: "two" MDLs are set up at once,
                      \* a "wrong" abort or answer, a deletion while "busy", a connection
                      \* of the device is "crossing" ours, the user "abandon"s its own, a data channel ends "late"

VARIABLE m

\* listed: in mcl->mdls; by: which side sets it up (history).
NoMdl == [listed |-> FALSE, state |-> "closed", dc |-> "none", by |-> "us"]

\* refs counts all references but those of MDLs; con is the outgoing connection of
\* mcap_create_mcl; lcmd and op are empty or hold the request and its MDL; owed:
\* the user waits for the callback of a request (history).
Dead == [alive |-> FALSE, refs |-> 0, list |-> "none", ctrl |-> {}, state |-> "idle",
         role |-> "acceptor", req |-> "available", cc |-> "none", con |-> "none",
         wid |-> FALSE, tid |-> FALSE, lcmd |-> << >>, op |-> << >>,
         mdls |-> [i \in Ids |-> NoMdl], user |-> FALSE, other |-> FALSE,
         owed |-> FALSE, crash |-> FALSE]

MclInit == m = Dead

MclNew == [Dead EXCEPT !.alive = TRUE]

Listed(x) == {i \in Ids : x.mdls[i].listed}
Waiting(x) == {i \in Listed(x) : x.mdls[i].state = "waiting"}

-----------------------------------------------------------------------------
(* MDLs and the state of the MCL.                                          *)

update_mcl_state(x) ==
  IF x.state = "pending" THEN x
  ELSE [x EXCEPT !.state = IF \E i \in Listed(x) : x.mdls[i].state = "connected"
                           THEN "active" ELSE "connected"]

shutdown_mdl(d) == [d EXCEPT !.state = "closed", !.dc = "none"]

restore_mdl(d) ==
  IF d.listed /\ d.state = "deleting"
  THEN [d EXCEPT !.state = IF d.dc = "open" THEN "connected" ELSE "closed"] ELSE d

mcap_del_mdl(d) == [shutdown_mdl(d) EXCEPT !.listed = FALSE]

\* The request is given up.  The MDL is looked for by its state.
mcap_notify_error(x) ==
  LET kind == x.lcmd[1]
      first == Min(Waiting(x))
      told == [x EXCEPT
                 !.crash = @ \/ (kind # "delete" /\ Waiting(x) = {}),
                 !.mdls = IF kind = "delete" THEN [i \in Ids |-> restore_mdl(@[i])]
                          ELSE IF Waiting(x) = {} THEN @
                          ELSE IF kind = "create" THEN [@ EXCEPT ![first].listed = FALSE]
                          ELSE [@ EXCEPT ![first] = shutdown_mdl(@)],
                 !.lcmd = << >>, !.op = << >>, !.owed = FALSE]
  IN IF x.op = << >> \/ x.lcmd = << >> THEN x ELSE update_mcl_state(told)

-----------------------------------------------------------------------------
(* The life of an MCL.                                                     *)

\* The last reference frees it, unless its MDLs keep it.
mcap_mcl_unref(x) ==
  LET u == [x EXCEPT !.refs = @ - 1]
  IN IF u.refs = 0 /\ Listed(u) = {} THEN [Dead EXCEPT !.other = x.other, !.crash = x.crash]
     ELSE u

\* A connection attempt whose channel is closed ends silently.
CloseControl(x) ==
  [x EXCEPT !.cc = "none",
            !.con = IF x.cc = "out" /\ @ = "running" THEN "aborted" ELSE @]

\* Mutant: the watch of the control channel stays.
close_mcl_watched(x, cache) ==
  LET save == "free" \notin x.ctrl /\ cache
  IN [CloseControl(x) EXCEPT
        !.tid = FALSE, !.lcmd = << >>, !.op = << >>, !.state = "idle",
        !.mdls = [i \in Ids |-> IF save THEN shutdown_mdl(@[i]) ELSE NoMdl]]

close_mcl(x, cache) ==
  LET save == "free" \notin x.ctrl /\ cache
  IN [CloseControl(x) EXCEPT
        !.tid = FALSE, !.wid = FALSE, !.lcmd = << >>, !.op = << >>, !.state = "idle",
        !.refs = IF x.wid THEN @ - 1 ELSE @,
        !.mdls = [i \in Ids |-> IF save THEN shutdown_mdl(@[i]) ELSE NoMdl]]

mcap_cache_mcl(x) ==
  IF "cached" \in x.ctrl THEN x
  ELSE IF "nocache" \in x.ctrl
  THEN mcap_mcl_unref(close_mcl([x EXCEPT !.list = "none"], FALSE))
  ELSE close_mcl([x EXCEPT !.list = "cached", !.ctrl = @ \cup {"cached"}], TRUE)

mcap_close_mcl(x, cache) ==
  LET y == IF cache THEN x ELSE [x EXCEPT !.ctrl = @ \cup {"nocache"}]
  IN IF "free" \in x.ctrl THEN close_mcl(x, FALSE)
     ELSE IF x.cc # "none" THEN [CloseControl(y) EXCEPT !.state = "idle", !.owed = FALSE]
     ELSE IF {"cached", "nocache"} \subseteq y.ctrl
     THEN mcap_mcl_unref(close_mcl([y EXCEPT !.ctrl = @ \ {"cached"}, !.list = "none"], FALSE))
     ELSE y

\* hdp.c: the device forgets the MCL.
device_unref_mcl(x) ==
  IF x.user THEN mcap_mcl_unref([mcap_close_mcl(x, FALSE) EXCEPT !.user = FALSE]) ELSE x

\* On the lists of the instance, with a watch on the control channel.
Connected(x, role) ==
  [x EXCEPT !.state = "connected", !.role = role, !.req = "available", !.list = "mcls",
            !.refs = @ + (IF x.list = "cached" THEN 1 ELSE 2), !.wid = TRUE,
            !.ctrl = (@ \cup {"std"}) \ {"cached", "free"}]

HoldByUser(x) == IF x.user THEN x ELSE [x EXCEPT !.user = TRUE, !.refs = @ + 1]

\* hdp.c connects to a device, once at a time; a cached MCL is taken up again.
mcap_create_mcl ==
  /\ m.con = "none" /\ (m.alive => m.list = "cached")
  /\ ~m.other
  /\ m' = [(IF m.alive THEN m ELSE MclNew) EXCEPT !.ctrl = @ \cup {"conn"}, !.refs = @ + 1,
                                                  !.cc = "out", !.con = "running"]

mcap_connect_mcl_cb(ok) ==
  /\ m.con # "none"
  /\ m.con = "aborted" => ~ok
  /\ LET x == [m EXCEPT !.con = "none", !.ctrl = @ \ {"conn"}]
         uncached == device_unref_mcl(close_mcl(x, FALSE))
     IN m' = mcap_mcl_unref(
               IF m.con = "aborted" THEN [m EXCEPT !.con = "none"]
               ELSE IF ~ok THEN IF "free" \in x.ctrl THEN uncached ELSE x
               ELSE IF x.list = "mcls" \/ x.other THEN x
               ELSE HoldByUser(Connected(x, "initiator")))

\* The device connects.  A fresh or evicted MCL is found on no list: then there
\* is another one for the same device.
connect_mcl_event_cb ==
  /\ m.list # "mcls" /\ ~m.other
  /\ m.con # "none" /\ (m.list = "cached" \/ "free" \in m.ctrl) => "crossing" \in Environment
  /\ IF m.list = "cached" THEN m' = [Connected(m, "acceptor") EXCEPT !.cc = "in"]
     ELSE IF ~m.alive THEN m' = HoldByUser([Connected(MclNew, "acceptor") EXCEPT !.cc = "in"])
     ELSE m' = [m EXCEPT !.other = TRUE]

OtherGone == m.other /\ m' = [m EXCEPT !.other = FALSE]

\* Another MCL goes into the full cache, where this one is the last.
Evict ==
  /\ m.list = "cached"
  /\ LET x == [m EXCEPT !.list = "none", !.ctrl = @ \ {"cached"}]
     IN m' = mcap_mcl_unref(IF "conn" \in x.ctrl THEN [x EXCEPT !.ctrl = @ \cup {"free"}]
                            ELSE device_unref_mcl(close_mcl(x, FALSE)))

\* close_device_con, and the device that goes.
close_device_con(cache) ==
  /\ m.user
  /\ m.con # "none" => "abandon" \in Environment
  /\ m' = IF cache THEN mcap_close_mcl(m, TRUE) ELSE device_unref_mcl(m)

\* The watch sees the end of the channel, ours or the device's.
mcl_control_cb ==
  /\ m.wid
  /\ m' = mcap_cache_mcl(IF m.state # "idle" /\ m.req = "waiting" THEN mcap_notify_error(m)
                         ELSE m)

wait_response_timer == m.tid /\ m' = mcap_cache_mcl(mcap_notify_error([m EXCEPT !.tid = FALSE]))

-----------------------------------------------------------------------------
(* Requests of the user.                                                   *)

CanSend(x) ==
  x.state \notin {"idle", "pending"} /\ x.req = "available" /\ "std" \in x.ctrl

mcap_send_std_opcode(x, kind, i) ==
  [x EXCEPT !.lcmd = <<kind, i>>, !.op = <<i>>, !.req = "waiting", !.tid = TRUE,
            !.owed = TRUE, !.crash = @ \/ x.cc = "none"]

OneAtATime == Waiting(m) = {} \/ "two" \in Environment

mcap_create_mdl(i) ==
  /\ m.user /\ CanSend(m) /\ OneAtATime /\ ~m.mdls[i].listed
  /\ m' = [mcap_send_std_opcode(m, "create", i) EXCEPT
             !.state = "active", !.mdls[i] = [NoMdl EXCEPT !.listed = TRUE, !.state = "waiting"]]

mcap_reconnect_mdl(i) ==
  /\ m.user /\ CanSend(m) /\ OneAtATime
  /\ m.mdls[i].listed /\ m.mdls[i].state = "closed"
  /\ m' = [mcap_send_std_opcode(m, "reconnect", i) EXCEPT
             !.state = "active", !.mdls[i].state = "waiting", !.mdls[i].by = "us"]

\* The state changes before the request is known to go out.
mcap_delete_mdl(i) ==
  /\ m.user /\ m.mdls[i].listed /\ m.mdls[i].state # "waiting"
  /\ CanSend(m) \/ "busy" \in Environment
  /\ LET x == [m EXCEPT !.mdls[i].state = "deleting"]
     IN m' = IF CanSend(x) THEN mcap_send_std_opcode(x, "delete", i) ELSE x

mcap_delete_all_mdls ==
  /\ m.user /\ Listed(m) # {}
  /\ CanSend(m) \/ "busy" \in Environment
  /\ LET x == [m EXCEPT !.mdls = [i \in Ids |-> IF i \in Listed(m) \ Waiting(m)
                                                THEN [@[i] EXCEPT !.state = "deleting"]
                                                ELSE @[i]]]
     IN m' = IF CanSend(x) THEN mcap_send_std_opcode(x, "delete", 0) ELSE x

\* hdp.c gives up an MDL that it cannot connect.
mcap_mdl_abort(i) ==
  /\ m.user /\ CanSend(m) /\ i \in Waiting(m) /\ m.mdls[i].dc = "none"
  /\ m' = mcap_send_std_opcode(m, "abort", i)

-----------------------------------------------------------------------------
(* Responses: ok, refused, refused as the MDL is not known, not supported, or *)
(* such that the MCL is closed (check_err_rsp).                             *)

Results == {"ok", "refused", "invalid_mdl", "not_supported", "fatal"}

check_err_rsp(x, rc) ==
  [x EXCEPT !.ctrl = IF rc = "not_supported" THEN @ \ {"std"} ELSE @,
            !.lcmd = << >>, !.op = << >>, !.req = "available", !.owed = FALSE]

process_md_create_mdl_rsp(x, i, rc) ==
  LET y == check_err_rsp(x, rc)
  IN IF rc = "ok" THEN y ELSE update_mcl_state([y EXCEPT !.mdls[i].listed = FALSE])

process_md_reconnect_mdl_rsp(x, i, rc) ==
  LET y == check_err_rsp(x, rc)
      z == update_mcl_state([y EXCEPT !.mdls[i] = shutdown_mdl(@)])
  IN IF rc = "ok" THEN y ELSE IF rc = "invalid_mdl" THEN [z EXCEPT !.mdls[i].listed = FALSE]
     ELSE z

process_md_abort_mdl_rsp(x, i, rc) ==
  update_mcl_state([check_err_rsp(x, rc) EXCEPT
    !.mdls[i] = IF rc = "invalid_mdl" THEN mcap_del_mdl(@) ELSE shutdown_mdl(@)])

\* An MDL that the device does not know is forgotten, but its channel is not closed.
process_md_delete_mdl_rsp(x, i, rc) ==
  LET y == check_err_rsp(x, rc)
  IN IF rc = "ok"
     THEN IF i = 0 THEN [y EXCEPT !.mdls = [j \in Ids |-> mcap_del_mdl(@[j])],
                                  !.state = "connected"]
          ELSE update_mcl_state([y EXCEPT !.mdls[i] = mcap_del_mdl(@)])
     ELSE IF i = 0 THEN [y EXCEPT !.mdls = [j \in Ids |-> restore_mdl(@[j])]]
     ELSE [y EXCEPT !.mdls[i] = IF rc = "invalid_mdl" THEN [@ EXCEPT !.listed = FALSE]
                                ELSE restore_mdl(@)]

LinkUp == m.wid /\ m.cc # "none" /\ "std" \in m.ctrl

proc_response(rc) ==
  /\ LinkUp /\ m.req = "waiting"
  /\ rc = "invalid_mdl" /\ m.lcmd[2] # 0 /\ m.mdls[m.lcmd[2]].dc = "open" =>
       "wrong" \in Environment
  /\ LET x == [m EXCEPT !.tid = FALSE]
         kind == m.lcmd[1]
         i == m.lcmd[2]
         y == CASE kind = "create" -> process_md_create_mdl_rsp(x, i, rc)
                [] kind = "reconnect" -> process_md_reconnect_mdl_rsp(x, i, rc)
                [] kind = "abort" -> process_md_abort_mdl_rsp(x, i, rc)
                [] kind = "delete" -> process_md_delete_mdl_rsp(x, i, rc)
     IN m' = IF rc = "fatal" THEN mcap_cache_mcl(y) ELSE y

-----------------------------------------------------------------------------
(* Requests of the device.                                                 *)

\* While we wait for a response the initiator ignores a request; the acceptor
\* gives its own up.
GiveWay(x) ==
  IF x.req = "available" THEN x
  ELSE mcap_notify_error([x EXCEPT !.tid = FALSE, !.req = "available"])

MayRequest == LinkUp /\ (m.req = "waiting" => m.role = "acceptor")

\* To create an MDL, or to reconnect one; the user accepts or not.
process_md_create_mdl_req(i, again, accepted) ==
  /\ MayRequest
  /\ LET x == GiveWay(m)
         d == x.mdls[i]
     IN /\ Waiting(x) = {} \/ x.state = "pending" \/ "two" \in Environment
        /\ m' = IF \/ x.state = "pending" \/ ~accepted
                   \/ again /\ ~d.listed
                   \/ d.listed /\ d.state \in {"waiting", "deleting"}
                THEN x
                ELSE [x EXCEPT !.state = "pending",
                               !.mdls[i] = [shutdown_mdl(d) EXCEPT
                                              !.listed = TRUE, !.state = "waiting",
                                              !.by = "them"]]

process_md_abort_mdl_req(i) ==
  /\ MayRequest /\ m.state = "pending"
  /\ i \in Waiting(m) \/ "wrong" \in Environment
  /\ m' = update_mcl_state([m EXCEPT
            !.state = "connected",
            !.mdls[i].state = IF i \in Waiting(m) THEN "closed" ELSE @])

process_md_delete_mdl_req(i) ==
  /\ MayRequest
  /\ LET x == GiveWay(m)
     IN m' = IF x.state = "pending" THEN x
             ELSE IF i = 0 THEN [x EXCEPT !.mdls = [j \in Ids |-> mcap_del_mdl(@[j])],
                                          !.state = "connected"]
             ELSE IF i \notin Listed(x) \ Waiting(x) THEN x
             ELSE update_mcl_state([x EXCEPT !.mdls[i] = mcap_del_mdl(@)])

-----------------------------------------------------------------------------
(* Data channels.                                                          *)

\* The user connects the MDL that the device agreed to.
mcap_connect_mdl(i) ==
  /\ m.user /\ i \in Waiting(m) /\ m.mdls[i].by = "us" /\ m.mdls[i].dc = "none"
  /\ m.lcmd = << >>
  /\ m' = [m EXCEPT !.mdls[i].dc = "connecting"]

mcap_connect_mdl_cb(i, ok) ==
  /\ m.mdls[i].dc = "connecting"
  /\ m' = [m EXCEPT !.mdls[i].state = IF ok THEN "connected" ELSE "closed",
                    !.mdls[i].dc = IF ok THEN "open" ELSE "none"]

\* The device connects the MDL that we agreed to.
connect_dc_event_cb ==
  /\ m.list = "mcls" /\ m.state = "pending" /\ Waiting(m) # {}
  /\ m' = [m EXCEPT !.state = "active",
                    !.mdls[Min(Waiting(m))].state = "connected",
                    !.mdls[Min(Waiting(m))].dc = "open"]

\* Late: the control channel has been closed, the MCL not yet.
mdl_event_cb(i) ==
  /\ m.mdls[i].dc = "open"
  /\ m.cc = "none" => "late" \in Environment
  /\ m' = update_mcl_state([m EXCEPT !.mdls[i] = shutdown_mdl(@)])

-----------------------------------------------------------------------------

MclNext == \/ mcap_create_mcl \/ connect_mcl_event_cb \/ OtherGone \/ Evict
           \/ \E ok \in BOOLEAN : mcap_connect_mcl_cb(ok)
           \/ \E cache \in BOOLEAN : close_device_con(cache)
           \/ mcl_control_cb \/ wait_response_timer \/ mcap_delete_all_mdls
           \/ \E rc \in Results : proc_response(rc)
           \/ \E i \in Ids : \/ mcap_create_mdl(i) \/ mcap_reconnect_mdl(i)
                             \/ mcap_delete_mdl(i) \/ mcap_mdl_abort(i)
                             \/ mcap_connect_mdl(i) \/ mdl_event_cb(i)
                             \/ process_md_abort_mdl_req(i)
           \/ \E i \in Ids, ok \in BOOLEAN : mcap_connect_mdl_cb(i, ok)
           \/ \E i \in Ids, again, ok \in BOOLEAN : process_md_create_mdl_req(i, again, ok)
           \/ \E i \in Ids \cup {0} : process_md_delete_mdl_req(i)
           \/ connect_dc_event_cb

MclSpec == MclInit /\ [][MclNext]_m

-----------------------------------------------------------------------------

\* A request of the user is called back, unless the user closes the MCL itself
\* (mcap_close_mcl drops the request then): as long as it is owed an answer, the
\* request is known and either its response or its timer will come; and only
\* then does the MCL refuse others (mcap_send_std_opcode, mcap_notify_error).
MclAnswered ==
     /\ m.owed => m.lcmd # << >> /\ m.op # << >> /\ m.tid /\ m.req = "waiting" /\ m.wid
     /\ m.wid /\ m.cc # "none" /\ m.req = "waiting" => m.owed

\* The MCL waits for a data channel exactly while there is the one MDL that the
\* device asked for; an MDL is being deleted only while a request asks for it.
SetUp ==
  /\ m.cc # "none" /\ m.wid =>
       (m.state = "pending" <=> \E i \in Waiting(m) : m.mdls[i].by = "them")
  /\ m.state = "pending" => Cardinality(Waiting(m)) = 1
  /\ \A i \in Listed(m) : m.mdls[i].state = "deleting" /\ m.cc # "none" =>
                            m.owed /\ m.lcmd[1] = "delete" /\ m.lcmd[2] \in {0, i}

\* No data channel is open without an MDL that shows it, nor after the MCL.
DataChannels ==
  /\ \A i \in Ids : /\ m.mdls[i].dc = "open" => m.mdls[i].state \in {"connected", "deleting"}
                    /\ m.mdls[i].dc # "none" => m.mdls[i].listed /\ m.wid
                    /\ m.mdls[i].state = "connected" => m.mdls[i].dc = "open"

\* The references of the lists, the watch, a connection and the user are all
\* counted, an MCL is cached exactly when it is marked so, and none stays with
\* no reference but those of its MDLs.
References ==
  /\ m.refs = Cardinality({h \in {"list", "watch", "con", "user"} :
                             \/ h = "list" /\ m.list # "none"
                             \/ h = "watch" /\ m.wid
                             \/ h = "con" /\ m.con # "none"
                             \/ h = "user" /\ m.user})
  /\ m.alive => m.refs > 0
  /\ m.list = "cached" <=> "cached" \in m.ctrl
  /\ m.list = "cached" => m.state = "idle" /\ ~m.wid /\ ~m.tid

\* Neither a missing MDL nor a closed channel is used.
NoCrash == ~m.crash

-----------------------------------------------------------------------------
(***************************************************************************)
(* health/mcap_sync.c: clock synchronisation over the control channel of an *)
(* MCL.  The slave side (c.set, c.timers, c.base) answers a remote master   *)
(* who sets the timestamp at a time of the Bluetooth clock; the master side *)
(* (c.req, c.waiting) sends requests for a client.  One unit of time is one *)
(* tick of the Bluetooth clock; timestamps count the same units.            *)
(***************************************************************************)

CONSTANTS
  MCAP_BTCLOCK_FIELD, \* values of the Bluetooth clock
  StartClock,         \* its value at time 0
  TicksPerMs,         \* ticks in a millisecond, the unit of timers
  MaxLead, Latency,   \* milliseconds: the latest and the earliest a set may be scheduled
  SyncLead,           \* syncleadtime_ms
  Range64,            \* number of timestamps
  Timestamps,         \* what the remote master sets
  MaxTime,
  Sides              \* which sides are used: "slave", "master"

\* Environment, in this part: a set while another is scheduled ("again"), a clock that cannot be read
\* when a set is due ("unread"), a timestamp just below the largest
\* ("far"), a malformed answer ("corrupt"), a channel that ends while
\* somebody waits ("drop")

VARIABLE c

MCAP_BTCLOCK_HALF == MCAP_BTCLOCK_FIELD \div 2
MCAP_TMSTAMP_DONTSET == Range64 - 1
NoSet == [update |-> FALSE, sched |-> -1, ts |-> 0, role |-> "none", at |-> 0]

\* timers: phase 2 scheduled, by number, with its time; set_timer: the number that is kept;
\* set: set_data, sched -1 for at once, at the time it means; base: the timestamp at time 0;
\* meant: timestamp and time of the last set carried out; owed: set requests without an answer;
\* flight: requests of ours that the remote side has not answered; waiting: its caller waits.
CspNew == [up |-> TRUE, remote_caps |-> FALSE, ind |-> FALSE, timers |-> {}, set_timer |-> 0, set |-> NoSet,
           owed |-> 0, local_caps |-> FALSE, ind_expected |-> FALSE, req |-> "none", flight |-> {},
           waiting |-> FALSE]
\* What does not belong to the channel.
Outside == [now |-> 0, base |-> 0, meant |-> [ts |-> 0, at |-> 0], role |-> "master", fault |-> FALSE]
Blank(old) == [f \in DOMAIN CspNew \union DOMAIN Outside |-> IF f \in DOMAIN CspNew THEN CspNew[f] ELSE old[f]]
CspInit == c = Blank(Outside)

-----------------------------------------------------------------------------
(* Clocks.                                                                 *)

read_btclock(t) == (StartClock + t) % MCAP_BTCLOCK_FIELD
bt2ms(bt) == bt \div TicksPerMs
mcap_get_timestamp(v, t) == (v.base + t) % Range64

btoffset(btclk1, btclk2) ==
  LET offset == btclk2 - btclk1
  IN IF offset <= -MCAP_BTCLOCK_HALF THEN offset + MCAP_BTCLOCK_FIELD
     ELSE IF offset > MCAP_BTCLOCK_HALF THEN offset - MCAP_BTCLOCK_FIELD ELSE offset

reset_tmstamp(v, ts) == [v EXCEPT !.base = (ts - v.now) % Range64]
mcap_sync_init(v) == reset_tmstamp([Blank(v) EXCEPT !.meant = [ts |-> 0, at |-> v.now]], 0)

-----------------------------------------------------------------------------
(* Slave: capabilities, set in two phases, indications.                    *)

proc_sync_cap_req == c.up /\ "slave" \in Sides /\ c' = [c EXCEPT !.remote_caps = TRUE]

send_sync_set_rsp(v) == [v EXCEPT !.owed = @ - 1]

\* The timestamp to set now so that set.ts is met at the scheduled time.
Compensated(v) ==
  LET delay == btoffset(v.set.sched, read_btclock(v.now))
  IN IF v.set.sched # -1 /\ (delay >= 0 \/ (v.set.ts - delay) % Range64 > 0)
     THEN (v.set.ts + delay) % Range64 ELSE v.set.ts

\* get_all_clocks reports success although no read succeeded: any clock is taken then.
Phase2(v) ==
  LET reset == v.set.ts # MCAP_TMSTAMP_DONTSET
      done(w) == send_sync_set_rsp([w EXCEPT !.ind = v.set.update])
  IN IF v.role # v.set.role THEN {send_sync_set_rsp(v)}
     ELSE IF ~reset THEN {done(v)}
     ELSE LET meant == [v EXCEPT !.meant = [ts |-> v.set.ts, at |-> v.set.at]]
          IN {done(reset_tmstamp(meant, Compensated(v)))}
             \union IF "unread" \in Environment /\ v.set.sched # -1
                    THEN {done(reset_tmstamp(meant, ts)) : ts \in 0 .. Range64 - 1} ELSE {}

proc_sync_set_req_phase2 ==
  \E t \in c.timers :
    LET v == [c EXCEPT !.timers = @ \ {t}]
    IN /\ c.now >= t.at
       /\ c' \in IF c.up THEN Phase2(v) ELSE {[v EXCEPT !.fault = TRUE]}

\* at: the time the master means, none of it for at once.
proc_sync_set_req(immediate, at, ts, update) ==
  LET sched == read_btclock(at)
      ticks == IF immediate THEN 0 ELSE btoffset(read_btclock(c.now), sched)
      delay == bt2ms(ticks)
      asked == [c EXCEPT !.owed = @ + 1]
      n == IF c.timers = {} THEN 1 ELSE c.set_timer + 1
      set == [asked EXCEPT !.ind = FALSE,
                !.set = [update |-> update, sched |-> IF immediate THEN -1 ELSE sched, ts |-> ts,
                         role |-> c.role, at |-> at]]
      refused == \/ ~c.remote_caps
                 \/ ticks < 0
                 \/ ~immediate /\ (delay > MaxLead \/ delay < Latency)
  IN /\ c.up /\ (c.timers = {} \/ "again" \in Environment)
     /\ immediate => at = c.now
     /\ IF refused THEN c' = send_sync_set_rsp(asked)
        ELSE IF delay = 0 THEN c' \in Phase2(set)
        ELSE c' = [set EXCEPT !.set_timer = n,
                     !.timers = @ \union {[n |-> n, at |-> c.now + (delay + SyncLead) * TicksPerMs]}]

\* The periodic indication ends when it cannot be sent.
sync_send_indication(sent) == c.up /\ c.ind /\ c' = [c EXCEPT !.ind = sent]

-----------------------------------------------------------------------------
(* Master: requests of a client and their answers.                         *)

mcap_sync_cap_req ==
  /\ c.up /\ "master" \in Sides /\ c.req = "none"
  /\ c' = [c EXCEPT !.req = "cap", !.flight = @ \union {"cap"}, !.waiting = TRUE]

mcap_sync_set_req(update) ==
  /\ c.up /\ c.local_caps /\ c.req = "none"
  /\ c' = [c EXCEPT !.req = "set", !.flight = @ \union {"set"}, !.waiting = TRUE, !.ind_expected = update]

\* proc_sync_cap_rsp and proc_sync_set_rsp, for an answer of that kind.
proc_sync_rsp(kind, ok, whole) ==
  LET v == [c EXCEPT !.flight = @ \ {kind}]
      done == [v EXCEPT !.req = "none", !.waiting = @ /\ ~whole,
                        !.local_caps = @ \/ (kind = "cap" /\ whole /\ ok)]
  IN /\ c.up /\ kind \in c.flight /\ (whole \/ "corrupt" \in Environment)
     /\ c' = IF c.req # kind THEN v ELSE done

-----------------------------------------------------------------------------
(* The channel, time, and the roles of the two controllers.                *)

mcap_sync_stop ==
  /\ c.up /\ (~c.waiting \/ "drop" \in Environment)
  /\ c' = [Blank(c) EXCEPT !.up = FALSE, !.waiting = c.waiting,
                           !.timers = {t \in c.timers : t.n # c.set_timer}]
Reconnected == ~c.up /\ c.timers = {} /\ c' = mcap_sync_init(c)

Tick == c.now < MaxTime /\ (\A t \in c.timers : c.now < t.at + TicksPerMs) /\ c' = [c EXCEPT !.now = @ + 1]
\* The role matters only between the phases of a set.
SwitchRole == c.timers # {} /\ c' = [c EXCEPT !.role = IF @ = "master" THEN "slave" ELSE "master"]

Far == IF "far" \in Environment THEN {Range64 - 2} ELSE {}

CspNext ==
     \/ proc_sync_cap_req \/ proc_sync_set_req_phase2
     \/ \E immediate, update \in BOOLEAN, at \in c.now - 2 .. c.now + MCAP_BTCLOCK_HALF, ts \in Timestamps \union Far :
          proc_sync_set_req(immediate, at, ts, update)
     \/ \E ok \in BOOLEAN : sync_send_indication(ok) \/ mcap_sync_set_req(ok)
     \/ mcap_sync_cap_req
     \/ \E kind \in {"cap", "set"}, ok, whole \in BOOLEAN : proc_sync_rsp(kind, ok, whole)
     \/ mcap_sync_stop \/ Reconnected \/ Tick \/ SwitchRole
CspSpec == CspInit /\ [][CspNext]_c

-----------------------------------------------------------------------------

\* At the time the master meant the timestamp is, was or will be the one it set, although the
\* set is carried out earlier or later and the Bluetooth clock wraps.
SetAsMeant == mcap_get_timestamp(c, c.meant.at) = c.meant.ts

\* A set without an answer is scheduled, and a client waits only for an answer under way.
CspAnswered == (c.up => c.owed = Cardinality(c.timers)) /\ (c.waiting => c.req \in c.flight)

\* Nothing that is scheduled outlives the channel.
NoFault == ~c.fault

Safe == SetAsMeant /\ CspAnswered /\ NoFault
===============================================================================
