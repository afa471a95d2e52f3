-------------------------------- MODULE Device --------------------------------
(***************************************************************************)
(* src/device.c, two parts: the lookup of a device's services, in dev, and the*)
(* devices that an adapter has, in s.                                      *)
(*                                                                         *)
(* src/device.c and the searches of src/glib-helper.c: how the services of  *)
(* a device are looked up, by SDP or by GATT, and how its drivers, the      *)
(* UUIDs that clients see and those in storage follow.                     *)
(***************************************************************************)
EXTENDS Integers, Sequences, SequencesExt, FiniteSets, FiniteSetsExt

CONSTANTS
  LE,         \* the device is an LE device, browsed by GATT
  Records,    \* the records it may have
  Classes,    \* Classes[r]: the UUIDs of the service classes of a record
  Pattern,    \* Pattern[u]: the UUIDs in the record of a service
  Drivers,    \* Drivers[d]: the UUIDs of a driver
  Audio,      \* the UUIDs of is_audio_driver
  Environment \* what makes it go wrong: another search of the same device while a request is under
              \* way ("overlap"), a link lost in a search ("hangup"), no socket for a further
              \* search ("nosocket"), a driver that loses one of its services ("two"), a UUID added
              \* during a request ("race"), the kernel refusing to block ("refused"), a temporary
              \* device whose services are known blocked or paired ("unsaved"), a request cancelled
              \* while GATT connects or uses the device's channel ("cancel"), that channel
              \* lost ("lost") or there when a device is created ("attrib"), the write after the end
              \* of a request that timed out ("corrupt")

VARIABLE dev

\* ctx: context_list, in order, with who waits: the request, a request that is gone, or another
\* caller; reused: its session is one that was cached.  idle: the sessions that are cached.
\* req: device->browse; idx: search_uuid; timer: sdp_timer_id.  gatt: what GATT does, and for
\* whom.  has: the records that the device has; lost: services that were removed although it
\* has them.  drivers: those in device->drivers; probed[d]: the services that d was probed
\* with and that are still there.
NoReq == [mode |-> "none", msg |-> "none", idx |-> 0, added |-> {}, removed |-> {}, records |-> {},
          retry |-> FALSE, timer |-> FALSE]
BrowseNoDevice == [dev |-> FALSE, temp |-> FALSE, blocked |-> FALSE, attrib |-> FALSE, uuids |-> {}, told |-> {},
                   drivers |-> {}, probed |-> [d \in DOMAIN Drivers |-> {}], req |-> NoReq, gatt |-> "none"]
BrowseInit == dev = BrowseNoDevice @@ [ctx |-> <<>>, idle |-> 0, other |-> FALSE, client |-> FALSE, has |-> Records,
                                       stored |-> {}, lost |-> {}, fault |-> FALSE]

Browsing(v) == v.req.mode # "none"
Reply(v) == IF v.req.msg # "none" THEN [v EXCEPT !.client = FALSE] ELSE v
Uuids(R) == UNION {Classes[r] : r \in R}

-----------------------------------------------------------------------------
(* Searches.                                                               *)

get_sdp_session(v) == v.idle > 0
CanSearch(v, socket) == get_sdp_session(v) \/ socket
bt_search_service(v, who) ==
  LET c == [who |-> who, reused |-> get_sdp_session(v), stage |-> "connecting"]
  IN [v EXCEPT !.ctx = Append(@, c), !.idle = IF c.reused THEN @ - 1 ELSE @]

\* The first search of the device, whoever it is for; nobody is told.
bt_cancel_discovery(v) == IF v.ctx = <<>> THEN v ELSE [v EXCEPT !.ctx = Tail(@)]

cache_sdp_session(v) == [v EXCEPT !.idle = @ + 1]
cached_session_expired == dev.idle > 0 /\ dev' = [dev EXCEPT !.idle = @ - 1]

-----------------------------------------------------------------------------
(* Drivers and UUIDs.                                                      *)

\* By a UUID of the driver, or one that is in the record.
device_match_driver(d, profiles) == {p \in profiles : ({p} \union Pattern[p]) \intersect Drivers[d] # {}}

device_probe_drivers(v, profiles) ==
  LET match == [d \in DOMAIN Drivers |-> IF v.blocked THEN {} ELSE device_match_driver(d, profiles)]
  IN [v EXCEPT !.uuids = @ \union profiles,
               !.drivers = @ \union {d \in DOMAIN Drivers : match[d] # {}},
               !.probed = [d \in DOMAIN Drivers |-> @[d] \union match[d]],
               !.fault = @ \/ \E d \in DOMAIN Drivers : match[d] \intersect v.probed[d] # {}]

RemoveDrivers(v, gone) ==
  [v EXCEPT !.drivers = @ \ gone, !.probed = [d \in DOMAIN Drivers |-> IF d \in gone THEN {} ELSE @[d]]]

all_audio_drivers_removed(v, removed) == v.uuids \intersect Audio \subseteq removed

\* Mutant: an audio driver goes with the first of its services.
GoesWith_any(v, d, removed) == Drivers[d] \intersect removed # {}

\* A driver is removed with any of its services, an audio driver with the last audio service.
GoesWith(v, d, removed) ==
  \E u \in Drivers[d] \intersect removed : u \notin Audio \/ all_audio_drivers_removed(v, removed)

device_remove_drivers(v, removed) ==
  [RemoveDrivers(v, {d \in v.drivers : GoesWith(v, d, removed)}) EXCEPT
     !.uuids = @ \ removed, !.probed = [d \in DOMAIN Drivers |-> @[d] \ removed],
     !.lost = @ \union (removed \intersect Uuids(v.has))]

services_changed(v) == [v EXCEPT !.told = v.uuids]
store_profiles(v) == [v EXCEPT !.stored = v.uuids]

update_services(v, recs) ==
  LET new == Uuids(recs \ v.req.records)
  IN [v EXCEPT !.req.records = @ \union recs, !.req.added = @ \union (new \ v.uuids), !.req.removed = @ \ new]

btd_device_add_uuid(u) ==
  /\ dev.dev /\ ~LE /\ u \in Uuids(dev.has) \ dev.uuids
  /\ ~Browsing(dev) \/ "race" \in Environment
  /\ dev' = services_changed(store_profiles(device_probe_drivers(dev, {u})))

-----------------------------------------------------------------------------
(* Requests that use SDP.                                                  *)

\* Searches of this request that are left call back into what is freed.
browse_request_free(v) ==
  [v EXCEPT !.req = NoReq, !.gatt = IF @ \in {"connecting", "shared"} THEN "stale" ELSE "none",
            !.ctx = [i \in DOMAIN @ |-> IF @[i].who = "req" THEN [@[i] EXCEPT !.who = "old"] ELSE @[i]]]

device_is_creating(v) == v.req.msg \in {"create", "paired"}
browse_request_cancel(v) ==
  browse_request_free(bt_cancel_discovery([v EXCEPT !.temp = @ \/ device_is_creating(v)]))

search_cb(v, recs, err) ==
  LET got == update_services([v EXCEPT !.req.timer = FALSE], recs)
      probed == IF got.req.added = {} THEN got ELSE device_probe_drivers(got, got.req.added)
      removed == IF got.req.removed = {} THEN probed ELSE device_remove_drivers(probed, got.req.removed)
      changed == got.req.added \union got.req.removed # {}
      w == Reply(IF err THEN v ELSE IF changed THEN services_changed(removed) ELSE got)
      done == [w EXCEPT !.temp = @ /\ (err \/ v.req.msg # "create")]
  IN browse_request_free(IF done.temp THEN done ELSE store_profiles(done))

\* The answers to a search for L2CAP, for PnP information and for the public browse group.
Answer(v) == IF v.req.mode = "one" THEN v.has \intersect {CHOOSE r \in Records : TRUE}
             ELSE IF v.req.idx = 2 THEN v.has \intersect {"pnp"} ELSE v.has

browse_cb(v, recs, err, socket) ==
  LET timed == [v EXCEPT !.req.timer = FALSE]
      again == err = "reset" /\ ~v.req.retry
      enough == v.req.idx = 2 /\ v.req.records # {}
      back == IF again THEN [timed EXCEPT !.req.idx = @ - 1, !.req.retry = TRUE] ELSE timed
      w == update_services(back, recs)
      searching == [w EXCEPT !.req.idx = @ + 1]
  IN IF ((err # "none" \/ enough) /\ ~again) \/ back.req.idx = 3 THEN search_cb(timed, recs, err # "none")
     ELSE IF CanSearch(w, socket) THEN bt_search_service(searching, "req") ELSE searching

init_browse(v, reverse) == IF reverse THEN {} ELSE v.uuids

Msgs == {"none", "discover", "create", "paired"}
\* Without a socket the request fails at once.
device_browse_sdp(v, one, msg, reverse, socket) ==
  LET req == [NoReq EXCEPT !.mode = IF one THEN "one" ELSE "all", !.msg = msg, !.idx = IF one THEN 0 ELSE 1,
                           !.removed = IF one THEN {} ELSE init_browse(v, reverse), !.timer = TRUE]
  IN IF CanSearch(v, socket) THEN bt_search_service([v EXCEPT !.req = req, !.client = msg # "none"], "req") ELSE v

discover_services(one, socket) ==
  /\ dev.dev /\ ~LE /\ ~Browsing(dev) /\ ~dev.client
  /\ dev.ctx = <<>> \/ "overlap" \in Environment
  /\ dev' = device_browse_sdp(dev, one, "discover", FALSE, socket)

\* The services of a device that ceases to be temporary are not stored with it.
MayKeep == dev.temp => dev.uuids = dev.stored \/ "unsaved" \in Environment

\* After pairing, at once for the client or later for an incoming one.
start_discovery(msg, socket) ==
  /\ dev.dev /\ ~LE /\ ~Browsing(dev) /\ msg \in {"none", "paired"} /\ (msg = "none" \/ ~dev.client) /\ MayKeep
  /\ dev.ctx = <<>> \/ "overlap" \in Environment
  /\ dev' = [device_browse_sdp(dev, FALSE, msg, msg = "none", socket) EXCEPT !.temp = FALSE]

cancel_discover == /\ dev.dev /\ dev.req.msg = "discover"
                   /\ dev' = browse_request_cancel(Reply(dev))

MayCancel(v) == "cancel" \in Environment \/ v.gatt \notin {"connecting", "shared"}
discover_services_req_exit ==
  /\ dev.dev /\ dev.req.msg # "none" /\ MayCancel(dev)
  /\ dev' = browse_request_cancel([dev EXCEPT !.client = FALSE])

\* The request is over; what was freed is then written to.
sdp_timeout ==
  /\ dev.dev /\ dev.req.timer
  /\ LET v == search_cb(bt_cancel_discovery([dev EXCEPT !.req.timer = FALSE]), {}, TRUE)
     IN dev' = [v EXCEPT !.fault = @ \/ "corrupt" \in Environment]

-----------------------------------------------------------------------------
(* Searches come back.                                                     *)

Without(v, i) == [v EXCEPT !.ctx = RemoveAt(@, i)]
CalledBack(v, who, recs, err, socket) ==
  CASE who = "req" -> IF v.req.mode = "one" THEN search_cb(v, recs, err # "none") ELSE browse_cb(v, recs, err, socket)
    [] who = "old" -> [v EXCEPT !.fault = TRUE]
    [] who = "other" -> [v EXCEPT !.other = FALSE]

\* A session that was cached may have been closed by the other side.
connect_watch(i, err, socket) ==
  LET c == dev.ctx[i]
  IN /\ c.stage = "connecting" /\ (err = "reset" => c.reused)
     /\ socket \/ "nosocket" \in Environment \/ err # "reset"
     /\ dev' = IF err = "none" THEN [dev EXCEPT !.ctx[i].stage = "searching"]
               ELSE CalledBack(Without(dev, i), c.who, {}, err, socket)

\* Also an answer that is an error.
search_completed_cb(i, err) ==
  LET c == dev.ctx[i]
  IN /\ c.stage = "searching"
     /\ dev' = CalledBack(cache_sdp_session(Without(dev, i)), c.who, IF err = "none" THEN Answer(dev) ELSE {}, err, TRUE)

\* When the link is lost, the error is positive: the callbacks take it for an answer without
\* records.
search_process_cb(i, socket) ==
  LET c == dev.ctx[i]
  IN /\ c.stage = "searching" /\ "hangup" \in Environment /\ (socket \/ "nosocket" \in Environment)
     /\ dev' = CalledBack(Without(dev, i), c.who, {}, "none", socket)

Others == /\ dev.dev /\ ~LE /\ ~dev.other
          /\ dev.ctx = <<>> \/ "overlap" \in Environment
          /\ dev' = [bt_search_service(dev, "other") EXCEPT !.other = TRUE]
OthersCancel == dev.other /\ dev' = [bt_cancel_discovery(dev) EXCEPT !.other = FALSE]

-----------------------------------------------------------------------------
(* Requests that use GATT.                                                 *)

\* On the device's channel the message is not kept.
device_browse_primary(v, msg, io) ==
  CASE v.attrib -> [v EXCEPT !.req = [NoReq EXCEPT !.mode = "gatt"], !.gatt = "shared", !.client = msg # "none"]
    [] ~v.attrib /\ io -> [v EXCEPT !.req = [NoReq EXCEPT !.mode = "gatt", !.msg = msg], !.gatt = "connecting",
                                    !.client = msg # "none"]
    [] OTHER -> v

le_discover_primary_services(io) ==
  /\ dev.dev /\ LE /\ ~Browsing(dev) /\ dev.gatt = "none"
  /\ dev' = device_browse_primary(dev, "none", io)

\* The device that was created for this is removed.
gatt_connect_cb(ok) ==
  \/ /\ dev.gatt = "connecting"
     /\ dev' = IF ok THEN [dev EXCEPT !.gatt = "own"]
               ELSE LET v == [Reply(dev) EXCEPT !.gatt = "none"]
                    IN IF device_is_creating(dev) THEN BrowseNoDevice @@ v ELSE browse_request_free(v)
  \/ dev.gatt = "stale" /\ dev' = [dev EXCEPT !.gatt = "none", !.fault = TRUE]

primary_cb(ok) ==
  /\ dev.gatt \in {"own", "shared"}
  /\ LET v == [Reply(dev) EXCEPT !.gatt = "none"]
         new == Uuids(dev.has) \ dev.uuids
     IN dev' = browse_request_free(IF ok THEN [device_probe_drivers(v, new) EXCEPT !.temp = FALSE] ELSE v)

Attached == dev.dev /\ LE /\ ~dev.attrib /\ dev' = [dev EXCEPT !.attrib = TRUE]
Detached == /\ dev.attrib /\ (dev.gatt # "shared" \/ "lost" \in Environment)
            /\ dev' = [dev EXCEPT !.attrib = FALSE, !.gatt = IF @ = "shared" THEN "none" ELSE @]

-----------------------------------------------------------------------------
(* Devices.                                                                *)

\* Devices that are stored have been created when the adapter started.
create_device(socket) ==
  LET new == [BrowseNoDevice EXCEPT !.dev = TRUE, !.temp = TRUE, !.attrib = LE /\ "attrib" \in Environment] @@ dev
  IN /\ ~dev.dev /\ dev.stored = {} /\ ~dev.client /\ dev.gatt = "none"
     /\ dev.ctx = <<>> \/ "overlap" \in Environment
     /\ socket \/ dev.idle > 0
     /\ dev' = IF LE THEN device_browse_primary(new, "create", TRUE)
               ELSE device_browse_sdp(new, FALSE, "create", FALSE, socket)

\* A device that is removed keeps what is stored when the daemon only stops.
browse_device_remove(remove_stored) ==
         /\ dev.dev /\ MayCancel(dev) /\ (dev.temp => remove_stored)
         /\ LET v == IF Browsing(dev) THEN browse_request_cancel(Reply(dev)) ELSE dev
            IN dev' = [BrowseNoDevice EXCEPT !.gatt = v.gatt]
                      @@ [v EXCEPT !.stored = IF remove_stored THEN {} ELSE @]

create_stored_device_from_profiles ==
  /\ ~dev.dev /\ ~LE /\ dev.stored # {}
  /\ dev' = services_changed(device_probe_drivers([BrowseNoDevice EXCEPT !.dev = TRUE] @@ dev, dev.stored))

browse_device_request_disconnect ==
         /\ dev.dev /\ Browsing(dev) /\ MayCancel(dev)
         /\ dev' = browse_request_cancel(Reply(dev))

\* The drivers are removed before the kernel is asked.
browse_device_block(ok) ==
         /\ dev.dev /\ ~dev.blocked /\ (ok \/ "refused" \in Environment) /\ MayKeep
         /\ LET v == RemoveDrivers(dev, dev.drivers)
            IN dev' = IF ok THEN [v EXCEPT !.blocked = TRUE, !.temp = FALSE] ELSE v
browse_device_unblock(ok) ==
         /\ dev.dev /\ dev.blocked
         /\ dev' = IF ok THEN device_probe_drivers([dev EXCEPT !.blocked = FALSE], dev.uuids) ELSE dev

\* The device offers a service more or less; while it is browsed it does not.
Offers(r) ==
  LET now == IF r \in dev.has THEN dev.has \ {r} ELSE dev.has \union {r}
  IN /\ ~Browsing(dev)
     /\ dev' = [dev EXCEPT !.has = now]

-----------------------------------------------------------------------------

BrowseNext ==
        \/ cached_session_expired \/ cancel_discover \/ discover_services_req_exit \/ sdp_timeout
        \/ (\E u \in Uuids(Records) : btd_device_add_uuid(u)) \/ (\E r \in Records : Offers(r))
        \/ \E socket \in BOOLEAN : \/ create_device(socket) \/ le_discover_primary_services(socket)
                                   \/ \E one \in BOOLEAN : discover_services(one, socket)
                                   \/ \E msg \in Msgs : start_discovery(msg, socket)
        \/ \E i \in DOMAIN dev.ctx, socket \in BOOLEAN :
             search_process_cb(i, socket) \/ \E err \in {"none", "failed", "reset"} : connect_watch(i, err, socket)
        \/ \E i \in DOMAIN dev.ctx, err \in {"none", "failed"} : search_completed_cb(i, err)
        \/ Others \/ OthersCancel \/ Attached \/ Detached
        \/ \E ok \in BOOLEAN : \/ gatt_connect_cb(ok) \/ primary_cb(ok) \/ browse_device_remove(ok)
                               \/ browse_device_block(ok) \/ browse_device_unblock(ok)
        \/ create_stored_device_from_profiles \/ browse_device_request_disconnect
BrowseSpec == BrowseInit /\ [][BrowseNext]_dev

-----------------------------------------------------------------------------

\* A client that waits for services has a request under way that knows of it, a request has a
\* search, a timer or GATT under way, and another caller's search is not cancelled by it.
BrowseAnswered ==
        /\ dev.client => dev.req.msg # "none"
        /\ dev.req.mode \in {"one", "all"} => dev.req.timer \/ \E i \in DOMAIN dev.ctx : dev.ctx[i].who = "req"
        /\ dev.req.mode = "gatt" => dev.gatt \in {"connecting", "own", "shared"}
        /\ dev.other => \E i \in DOMAIN dev.ctx : dev.ctx[i].who = "other"

\* Nothing calls back into a request that is over, and no driver is probed twice with one
\* service.
NoFault == /\ ~dev.fault /\ dev.gatt # "stale"
           /\ \A i \in DOMAIN dev.ctx : dev.ctx[i].who # "old"

\* A service is removed only when the device has it no more.
Kept == dev.lost = {}

\* The drivers of a device that is not blocked are those of its services; a client sees
\* the UUIDs that are known, and those are in storage as soon as the device is kept.
BrowseFits ==
        /\ \A d \in DOMAIN Drivers :
             d \in dev.drivers <=> dev.dev /\ ~dev.blocked /\ device_match_driver(d, dev.uuids) # {}
        /\ dev.dev /\ ~LE => /\ dev.told = dev.uuids
                             /\ ~dev.temp /\ ~Browsing(dev) => dev.stored = dev.uuids

BrowseSafe == BrowseAnswered /\ NoFault /\ Kept /\ BrowseFits

-----------------------------------------------------------------------------
(***************************************************************************)
(* src/adapter.c and src/device.c: the devices of an adapter.  A device is  *)
(* created by a connection or a client, kept when something about it is     *)
(* stored, disconnected and removed at a client's request, and created      *)
(* again from storage when the adapter is.                                 *)
(***************************************************************************)

CONSTANTS
  Callers,    \* clients of Disconnect and RemoveDevice
  Watchers   \* users of device_add_disconnect_watch

\* Environment, in this part: what makes it go wrong: RemoveDevice while the services are looked up ("busy"), blocking
\* or the adapter's removal while a disconnect is put off ("direct"), a kernel
\* that does not unblock ("refused"), a key stored before its pairing is over
\* ("between"), an agent for pairing while the other is asked ("agent"), something
\* stored about a device while RemoveDevice waits for its disconnection ("kept")

VARIABLE s

Files == {"profiles", "primary", "linkkeys", "lekeys", "blocked", "types"}
Keys == {"linkkeys", "lekeys"}

\* listed: in adapter->connections; timer: disconn_timer, with stray timers that it no longer
\* names; calls: device->disconnects; watches: those that will be called.  asked: the agent that is
\* asked to authorize a service of the device; own: device->agent is there.
RegistryNoDevice == [dev |-> FALSE, temp |-> FALSE, connected |-> FALSE, listed |-> FALSE, paired |-> FALSE,
                     blocked |-> FALSE, busy |-> FALSE, timer |-> FALSE, calls |-> {}, watches |-> {}, authorizing |-> FALSE,
                     own |-> FALSE]

\* up: the adapter is there; link, closing: the kernel's link, and whether it was asked to end it;
\* banned: the kernel blocks the device; wrong: RemoveDevice has returned, but the device is still known.
World == [up |-> TRUE, link |-> FALSE, closing |-> FALSE, banned |-> FALSE, file |-> {}, stray |-> 0, asked |-> "none",
          waiting |-> {}, wrong |-> FALSE]
Join(a, b) == [f \in DOMAIN a \union DOMAIN b |-> IF f \in DOMAIN a THEN a[f] ELSE b[f]]
RegistryInit == s = Join(RegistryNoDevice, World)

-----------------------------------------------------------------------------
(* Creating devices.                                                       *)

device_create(v, temporary) ==
  [v EXCEPT !.dev = TRUE, !.temp = temporary, !.paired = v.file \intersect Keys # {},
            !.blocked = "blocked" \in v.file, !.banned = @ \/ "blocked" \in v.file]

\* A mouse need not be paired and is kept.
adapter_create_device(v, mouse) == device_create(v, ~mouse)
adapter_get_device(v, mouse) == IF v.dev THEN v ELSE adapter_create_device(v, mouse)

adapter_add_connection(v) == IF v.listed THEN v ELSE [v EXCEPT !.connected = TRUE, !.listed = TRUE]

btd_event_conn_complete(mouse) ==
  /\ s.up /\ ~s.link /\ ~s.banned
  /\ s' = adapter_add_connection([adapter_get_device(s, mouse) EXCEPT !.link = TRUE])

\* A request for a PIN code, which comes before the connection is complete, creates the device as well.
get_adapter_and_device(mouse) ==
  /\ s.up /\ ~s.link /\ ~s.banned
  /\ s' = adapter_get_device(s, mouse)

CreateDevice(mouse) == s.up /\ ~s.dev /\ ~s.link /\ s' = adapter_create_device(s, mouse)

NoRemoval == "kept" \in Environment \/ \A c \in s.calls : c.op # "remove"

\* What makes a device known: services that were found, a key, a type.
Stores(f) ==
  /\ s.up /\ s.dev /\ NoRemoval /\ f \in {"profiles", "primary", "types"} \ s.file
  /\ s' = [s EXCEPT !.file = @ \union {f}, !.temp = FALSE]
btd_event_link_key_notify(k) ==
  /\ s.up /\ s.dev /\ s.connected /\ NoRemoval /\ k \in Keys /\ s.file \intersect Keys = {}
  /\ s' = [s EXCEPT !.file = @ \union {k}, !.temp = FALSE, !.paired = @ \/ "between" \notin Environment]
\* A key that is not to be stored: the device goes with its connection, whatever is known about it.
btd_event_device_set_temporary == s.up /\ s.dev /\ s.connected /\ s' = [s EXCEPT !.temp = TRUE]
BondingComplete == /\ s.dev /\ ~s.paired /\ s.file \intersect Keys # {}
                   /\ s' = [s EXCEPT !.paired = TRUE]

Browse == s.dev /\ ~s.busy /\ s' = [s EXCEPT !.busy = TRUE]
BrowseEnds == s.busy /\ s' = [s EXCEPT !.busy = FALSE]

-----------------------------------------------------------------------------
(* Disconnecting.                                                          *)

\* Called by its timer or directly; then a timer that runs is forgotten.
do_disconnect(v) == [v EXCEPT !.closing = @ \/ v.link, !.timer = FALSE, !.stray = IF v.timer THEN @ + 1 ELSE @]
Timer == s.timer /\ s' = [do_disconnect([s EXCEPT !.timer = FALSE]) EXCEPT !.stray = s.stray]

registry_device_request_disconnect(v, call) ==
           LET w == [v EXCEPT !.calls = @ \union {call}, !.waiting = @ \union {call}, !.busy = FALSE]
           IN IF v.timer THEN w ELSE [w EXCEPT !.watches = {}, !.timer = TRUE]

Calls(op) == {[client |-> c, op |-> op] : c \in Callers}
Free(c) == \A w \in s.waiting : w.client # c.client

disconnect(call) ==
  /\ call \in Calls("disconnect") /\ Free(call) /\ s.up /\ s.dev /\ s.connected
  /\ s' = registry_device_request_disconnect(s, call)

Watch(w) == s.connected /\ ~s.timer /\ s' = [s EXCEPT !.watches = @ \union {w}]
device_remove_disconnect_watch(w) == w \in s.watches /\ s' = [s EXCEPT !.watches = @ \ {w}]

-----------------------------------------------------------------------------
(* Removing.                                                               *)

\* A link key goes if the device is paired, the entry of a blocked device if the kernel unblocks it.
device_remove_stored(v) ==
  LET ok == "refused" \notin Environment
      kept == (IF v.paired THEN {} ELSE {"linkkeys"}) \union (IF v.blocked /\ ok THEN {} ELSE {"blocked"})
  IN [v EXCEPT !.file = @ \intersect kept, !.banned = @ /\ ~(v.blocked /\ ok)]

\* The last reference goes: the timer that is known goes too.
registry_device_remove(v, remove_stored) ==
           LET w == IF v.connected THEN do_disconnect(v) ELSE v
           IN Join(RegistryNoDevice, IF remove_stored THEN device_remove_stored(w) ELSE w)

\* Only the agent that the device has now is told.
adapter_remove_device(v) ==
  LET agent == IF v.own THEN "device" ELSE "adapter"
  IN registry_device_remove([v EXCEPT !.asked = IF v.authorizing /\ @ = agent THEN "none" ELSE @], TRUE)

\* Whoever waits is answered, and a temporary device goes.
adapter_remove_connection(v) ==
  LET w == [v EXCEPT !.connected = FALSE, !.listed = FALSE, !.timer = FALSE, !.calls = {}, !.waiting = @ \ v.calls]
      gone == IF v.temp THEN adapter_remove_device(w) ELSE w
  IN [gone EXCEPT !.wrong = @ \/ ((\E c \in v.calls : c.op = "remove") /\ (gone.dev \/ gone.file # {}))]

btd_event_disconn_complete ==
  LET v == [s EXCEPT !.link = FALSE, !.closing = FALSE]
  IN s.link /\ s' = IF s.dev /\ s.listed THEN adapter_remove_connection(v) ELSE v

\* A device that is temporary or busy is not removed, only disconnected.
remove_device(call) ==
  /\ call \in Calls("remove") /\ Free(call) /\ s.up /\ s.dev
  /\ ~s.busy \/ s.temp \/ "busy" \in Environment
  /\ s' = CASE (s.temp \/ s.busy) /\ s.connected -> registry_device_request_disconnect(s, call)
            [] (s.temp \/ s.busy) /\ ~s.connected -> s
            [] ~(s.temp \/ s.busy) /\ s.connected -> registry_device_request_disconnect([s EXCEPT !.temp = TRUE], call)
            [] OTHER -> LET v == adapter_remove_device([s EXCEPT !.temp = TRUE])
                        IN [v EXCEPT !.wrong = @ \/ v.file # {}]

registry_device_block ==
           /\ s.up /\ s.dev /\ ~s.blocked /\ ~s.temp /\ (~s.timer \/ "direct" \in Environment)
           /\ LET v == IF s.connected THEN do_disconnect(s) ELSE s
              IN s' = [v EXCEPT !.blocked = TRUE, !.banned = TRUE, !.file = @ \union {"blocked"}]
registry_device_unblock == /\ s.up /\ s.blocked
                           /\ s' = [s EXCEPT !.blocked = FALSE, !.banned = FALSE, !.file = @ \ {"blocked"}]

-----------------------------------------------------------------------------
(* Authorizing services.                                                   *)

device_get_agent == IF s.own THEN "device" ELSE "adapter"
adapter_authorize == /\ s.up /\ s.listed /\ s.asked = "none"
                     /\ s' = [s EXCEPT !.asked = device_get_agent, !.authorizing = TRUE]
agent_auth_cb == s.asked # "none" /\ s' = [s EXCEPT !.asked = "none", !.authorizing = FALSE]
btd_cancel_authorization ==
  /\ s.dev /\ s.authorizing
  /\ s' = IF s.asked = device_get_agent THEN [s EXCEPT !.asked = "none", !.authorizing = FALSE] ELSE s

\* CreatePairedDevice registers an agent for the device.
OwnAgent == /\ s.dev /\ ~s.own /\ (s.asked = "none" \/ "agent" \in Environment)
            /\ s' = [s EXCEPT !.own = TRUE]
OwnAgentEnds == /\ s.own /\ s.asked # "device"
                /\ s' = [s EXCEPT !.own = FALSE]

-----------------------------------------------------------------------------
(* The adapter goes and comes.                                             *)

\* The callers lose their answer with the daemon's objects.
adapter_remove ==
  /\ s.up /\ (~s.timer \/ "direct" \in Environment)
  /\ s' = [IF s.dev THEN registry_device_remove(s, FALSE) ELSE s EXCEPT !.up = FALSE, !.asked = "none", !.waiting = {}]

\* Every file that names the device creates it, if it is not there yet.
load_devices(v) == IF v.file = {} THEN v ELSE device_create(v, FALSE)
load_connections(v, mouse) == IF v.link THEN adapter_add_connection(adapter_get_device(v, mouse)) ELSE v
adapter_init(mouse) ==
  /\ ~s.up /\ s.stray = 0 /\ ~(s.link /\ "blocked" \in s.file)
  /\ s' = load_connections(load_devices([s EXCEPT !.up = TRUE, !.banned = FALSE]), mouse)

-----------------------------------------------------------------------------

RegistryNext ==
          \/ \E mouse \in BOOLEAN : \/ btd_event_conn_complete(mouse) \/ get_adapter_and_device(mouse)
                                    \/ CreateDevice(mouse) \/ adapter_init(mouse)
          \/ \E f \in Files : Stores(f) \/ btd_event_link_key_notify(f)
          \/ BondingComplete \/ btd_event_device_set_temporary \/ Browse \/ BrowseEnds \/ Timer
          \/ \E call \in Calls("disconnect") \union Calls("remove") : disconnect(call) \/ remove_device(call)
          \/ \E w \in Watchers : Watch(w) \/ device_remove_disconnect_watch(w)
          \/ btd_event_disconn_complete \/ registry_device_block \/ registry_device_unblock
          \/ adapter_authorize \/ agent_auth_cb \/ btd_cancel_authorization \/ OwnAgent \/ OwnAgentEnds
          \/ adapter_remove
RegistrySpec == RegistryInit /\ [][RegistryNext]_s

-----------------------------------------------------------------------------

\* When RemoveDevice returns, the device is not there and nothing is stored that creates it again.
Removed == ~s.wrong /\ (s.up /\ ~s.dev => s.file = {})

\* A client that waits is answered when the link ends: its device is connected, and a
\* disconnect was asked for or will be.
RegistryAnswered == \A c \in s.waiting : c \in s.calls /\ s.connected /\ (s.timer \/ s.closing)

\* No timer runs that the device does not know of: it would use a device that is gone, or end its
\* next connection.  The agent is asked only about devices that are there.
NoStray == s.stray = 0 /\ (s.asked # "none" => s.dev)

\* Connected devices are those that have a link, unless a device was removed under its own;
\* the kernel blocks those that are blocked.
RegistryFits == /\ s.up => /\ s.connected = s.listed
                           /\ s.dev => s.connected = s.link /\ s.banned = s.blocked
                           /\ s.link /\ ~s.dev => s.closing
                /\ s.up /\ s.dev => s.temp \/ s.file # {} \/ ~s.paired

RegistrySafe == Removed /\ RegistryAnswered /\ NoStray /\ RegistryFits
===============================================================================
