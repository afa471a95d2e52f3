----------------------------- MODULE GattClient -----------------------------
(***************************************************************************)
(* attrib/client.c: the GATT services of a remote low energy device, as D-Bus  *)
(* clients use them.  All of them share one GAttrib of the device, which       *)
(* closes its socket when the last reference goes: one belongs to the         *)
(* connection, one to every operation, and one to every packet that is not     *)
(* written yet.  The socket, the events of the controller and the timers come  *)
(* in any order.                                                           *)
(***************************************************************************)
EXTENDS Integers, Sequences, FiniteSets, SequencesExt, FiniteSetsExt

CONSTANTS
  CharsOf,     \* the characteristics of every primary service, in order
  Watchers,    \* D-Bus clients that watch values
  MaxDesc,     \* descriptors of a characteristic that are read
  MaxQueue,    \* write commands are only queued below it
  Environment  \* what makes it go wrong: a discovery that fails ("failed"), a value asked for while its
               \* service is discovered ("mixed"), a service left while it is used ("left"), or discovered
               \* again before the timer of the last time is gone ("stale"), one slower than its timer ("slow"), a
               \* second client that disconnects ("again"), one of two watchers that exits ("exit"), a watcher that comes when
               \* the link is up ("listen"), a connection that fails or ends with packets unsent ("unsent"), one made
               \* before the end of the last was told ("reconnect"), a device that is not paired ("unpaired"), a response
               \* for which security is raised ("elevate")

VARIABLE g

Primaries == DOMAIN CharsOf
Chars == UNION {ToSet(CharsOf[p]) : p \in Primaries}
Prim(c) == CHOOSE p \in Primaries : c \in ToSet(CharsOf[p])

NoPrimary == [msg |-> "none",        \* of a discovery; "answered": a stale pointer
              timer |-> FALSE, stale |-> FALSE, \* a timer, and one that no variable knows of any more
              connected |-> FALSE, chars |-> {}]

\* attrib: device_get_attrib is not NULL.  disc: its disconnect function is set.  handlers: of notifications.
\* wake: the write watch.  sent: the head of the queue was written.  sock, acl: of the kernel, and told its events.  gaveup: somebody
\* wanted the connection closed.
NoAttrib == [attrib |-> FALSE, refs |-> 0, disc |-> FALSE, handlers |-> FALSE, queue |-> <<>>, wake |-> FALSE, sent |-> FALSE,
             sock |-> "none"]
Init == g = NoAttrib @@ [listen |-> FALSE, acl |-> FALSE, connected |-> FALSE, told |-> <<>>,
                         prim |-> [p \in Primaries |-> NoPrimary], chr |-> [c \in Chars |-> FALSE],
                         stored |-> {}, watchers |-> {}, gaveup |-> FALSE, wrong |-> {}]

Wrong(v, what) == [v EXCEPT !.wrong = @ \union {what}]
ReplyDiscovery(v, p) ==
  CASE v.prim[p].msg = "none" -> Wrong(v, "null")
    [] v.prim[p].msg = "pending" -> v
    [] v.prim[p].msg = "answered" -> Wrong(v, "twice")

-----------------------------------------------------------------------------
(* References                                                              *)

g_attrib_ref(v) == IF v.attrib THEN [v EXCEPT !.refs = @ + 1] ELSE v

\* Every method call that waits is answered; a timer is not removed.
primary_attrib_destroy(v, p) ==
  LET u == IF v.prim[p].msg = "none" THEN v ELSE ReplyDiscovery(v, p)
  IN [u EXCEPT !.prim[p].msg = "none", !.prim[p].connected = FALSE,
               !.chr = [c \in Chars |-> @[c] /\ Prim(c) # p]]

attrib_destroy(v) ==
  NoAttrib @@ FoldSet(LAMBDA p, u : primary_attrib_destroy(u, p), v, Primaries)

g_attrib_unref(v) ==
  CASE ~v.attrib -> v
    [] v.attrib /\ v.refs > 1 -> [v EXCEPT !.refs = @ - 1]
    [] v.attrib /\ v.refs <= 1 -> attrib_destroy(v)

Cmd(cb, p, c, last) == [cb |-> cb, p |-> p, c |-> c, last |-> last]
g_attrib_send(v, cmd) == g_attrib_ref([v EXCEPT !.queue = Append(@, cmd), !.wake = @ \/ v.queue = <<>>])

\* A characteristic whose call is answered gives its reference back.
characteristic_clean(v, c) == IF v.chr[c] THEN g_attrib_unref([v EXCEPT !.chr[c] = FALSE]) ELSE v

primary_clean(v, p) ==
  LET u == FoldSet(LAMBDA c, x : characteristic_clean(x, c), v, ToSet(CharsOf[p]))
  IN [u EXCEPT !.prim[p].msg = "none", !.prim[p].connected = FALSE]

\* The timer is forgotten, not removed.
stop_discovery(v, p) ==
  LET u == [v EXCEPT !.prim[p].stale = @ \/ v.prim[p].timer, !.prim[p].timer = FALSE]
  IN IF v.prim[p].msg = "none" THEN u
     ELSE g_attrib_unref([ReplyDiscovery(u, p) EXCEPT !.prim[p].msg = "none"])

attrib_disconnect(v) ==
  LET stopped == FoldSet(LAMBDA p, u : stop_discovery(u, p), v, Primaries)
      cleaned == FoldSet(LAMBDA p, u : primary_clean(u, p), [stopped EXCEPT !.disc = FALSE], Primaries)
  IN g_attrib_unref(cleaned)

-----------------------------------------------------------------------------
(* The connection                                                          *)

NewAttrib(v) ==
  [attrib |-> TRUE, refs |-> 1, disc |-> TRUE, sock |-> "connecting", gaveup |-> FALSE] @@ v

l2cap_connect(v, p) ==
  [g_attrib_ref(IF v.attrib THEN v ELSE NewAttrib(v)) EXCEPT !.listen = TRUE, !.prim[p].connected = TRUE]

MayConnect ==
  /\ \/ g.attrib /\ (g.sock \in {"connecting", "refused"} => "disconnected" \notin ToSet(g.told))
     \/ ~g.attrib /\ g.told = <<>> /\ ~g.acl
     \/ "reconnect" \in Environment
  /\ g.sock \in {"refused", "hup", "dead"} /\ g.queue # <<>> => "unsent" \in Environment
Unsent == ~g.sent /\ (Len(g.queue) > 1 \/ \E k \in DOMAIN g.queue : g.queue[k].cb \in {"info", "desc"})
GiveUp(v) == [v EXCEPT !.gaveup = TRUE]
MayGiveUp == ~g.gaveup \/ "again" \in Environment

le_connect_request ==
  /\ ~g.connected /\ ~g.attrib /\ MayConnect
  /\ g' = NewAttrib(g)

le_connect_request_cancel ==
  /\ ~g.connected /\ g.attrib /\ MayGiveUp
  /\ g' = g_attrib_unref(GiveUp(g))

le_disconnect_request ==
  /\ g.connected /\ g.attrib /\ MayGiveUp
  /\ g' = g_attrib_unref(GiveUp(g))

disconnect_service(p) ==
  LET left == primary_clean(stop_discovery(g, p), p)
  IN /\ g.prim[p].msg # "none" \/ (\E c \in ToSet(CharsOf[p]) : g.chr[c]) => "left" \in Environment
     /\ (\A q \in Primaries : ~left.prim[q].connected) => MayGiveUp
     /\ g' = IF \E q \in Primaries : left.prim[q].connected THEN left ELSE g_attrib_unref(GiveUp(left))

\* Its link may be there already.
connect_cb ==
  /\ g.attrib /\ g.sock = "connecting" /\ (g.acl \/ Len(g.told) < 2)
  /\ "disconnected" \in ToSet(g.told) => "reconnect" \in Environment
  /\ g' = [g EXCEPT !.sock = "up", !.handlers = g.listen, !.acl = TRUE,
                    !.told = IF g.acl THEN @ ELSE Append(@, "connected")]

\* connect_cb with an error, then the end of the socket that received_data sees.
ConnectFails ==
  LET u == g_attrib_unref(GiveUp(g))
  IN /\ g.attrib /\ g.sock \in {"refused", "connecting"} /\ ~g.acl
     /\ Unsent => "unsent" \in Environment
     /\ g' = CASE ~u.attrib -> u
               [] u.attrib /\ u.disc -> LET w == attrib_disconnect(u) IN IF w.attrib THEN [w EXCEPT !.sock = "dead"] ELSE w
               [] u.attrib /\ ~u.disc -> [u EXCEPT !.sock = "dead"]

\* The controller: a device connects by itself, and a link ends.
Incoming ==
  /\ ~g.acl /\ g.sock \in {"none", "dead"} /\ g.told = <<>>
  /\ g' = [g EXCEPT !.acl = TRUE, !.told = Append(@, "incoming")]

LinkEnds ==
  /\ g.acl /\ Len(g.told) < 2 /\ (Unsent => "unsent" \in Environment)
  /\ g' = [g EXCEPT !.acl = FALSE, !.told = Append(@, "disconnected"), 
                    !.sock = CASE @ = "up" -> "hup" [] @ = "connecting" -> "refused" [] OTHER -> @]

\* received_data with G_IO_HUP.
HangUp ==
  LET v == GiveUp([g EXCEPT !.sock = "dead"])
  IN /\ g.attrib /\ g.sock = "hup"
     /\ g' = IF g.disc THEN attrib_disconnect(v) ELSE v

\* client_create_le_io_connect: a socket for a link that the device opened.
device_add_connection ==
  /\ g.told # <<>> /\ Head(g.told) \in {"connected", "incoming"}
  /\ LET v == [g EXCEPT !.told = Tail(@)]
     IN g' = [(IF Head(g.told) = "incoming" /\ ~g.connected /\ ~g.attrib THEN NewAttrib(v) ELSE v)
              EXCEPT !.connected = TRUE]

\* Everything of the service is freed and what waits is lost, the packets in the queue remember it.
gatt_service_free(v) ==
  LET lost == v.attrib /\ v.refs > 1
      waits == (\E c \in Chars : v.chr[c]) \/ (\E p \in Primaries : v.prim[p].msg = "pending")
      timers == \E p \in Primaries : v.prim[p].timer \/ v.prim[p].stale
      u == g_attrib_unref([v EXCEPT !.prim = [p \in Primaries |-> NoPrimary], !.chr = [c \in Chars |-> FALSE],
                                    !.watchers = {}, !.listen = FALSE])
  IN [u EXCEPT !.wrong = @ \union (IF lost \/ timers THEN {"freed"} ELSE {}) \union
                                  (IF waits THEN {"unanswered"} ELSE {})]

\* attrib_client_register, when the services were found again: what was stored is loaded.
load_characteristics(v) ==
  [v EXCEPT !.prim = [p \in Primaries |-> [@[p] EXCEPT !.chars = IF p \in v.stored THEN ToSet(CharsOf[p]) ELSE @]]]

device_remove_connection ==
  /\ g.told # <<>> /\ Head(g.told) = "disconnected"
  /\ LET v == GiveUp([g EXCEPT !.told = Tail(@), !.connected = FALSE])
     IN \E paired \in {TRUE} \union {"unpaired" \notin Environment} :
          g' = IF paired THEN attrib_disconnect(v) ELSE load_characteristics(gatt_service_free(v))

\* The device goes, and comes back with what is stored.
attrib_client_unregister ==
  /\ ~g.attrib /\ ~g.acl /\ g.told = <<>>
  /\ \A p \in Primaries : ~g.prim[p].timer /\ ~g.prim[p].stale
  /\ g' = load_characteristics(gatt_service_free(g))

-----------------------------------------------------------------------------
(* Operations of clients                                                   *)

MayDiscover(p) ==
  /\ \A c \in ToSet(CharsOf[p]) : g.chr[c] => "mixed" \in Environment
  /\ g.prim[p].timer \/ g.prim[p].stale => "stale" \in Environment

discover_char(p) ==
  /\ g.prim[p].msg = "none" /\ MayConnect /\ MayDiscover(p)
  /\ g' = g_attrib_send([l2cap_connect(g, p) EXCEPT !.prim[p].msg = "pending"], Cmd("discover", p, 0, FALSE))

MayUse(c) == ~g.chr[c] /\ c \in g.prim[Prim(c)].chars /\ MayConnect
fetch_value(c) ==
  /\ MayUse(c) /\ (g.prim[Prim(c)].msg # "none" => "mixed" \in Environment)
  /\ g' = g_attrib_send([l2cap_connect(g, Prim(c)) EXCEPT !.chr[c] = TRUE], Cmd("value", Prim(c), c, FALSE))

\* With a response, of a value or of the client configuration.
set_value(c) ==
  /\ MayUse(c) /\ (g.prim[Prim(c)].msg # "none" => "mixed" \in Environment)
  /\ g' = g_attrib_send([l2cap_connect(g, Prim(c)) EXCEPT !.chr[c] = TRUE], Cmd("write", Prim(c), c, FALSE))

set_property_command(c) ==
  /\ MayUse(c) /\ Len(g.queue) < MaxQueue
  /\ g' = g_attrib_unref(g_attrib_send(l2cap_connect(g, Prim(c)), Cmd("command", Prim(c), c, FALSE)))

register_watcher(w, p) ==
  /\ w \notin g.watchers /\ MayConnect
  /\ g.sock = "up" /\ ~g.handlers => "listen" \in Environment
  /\ g' = g_attrib_unref([l2cap_connect(g, p) EXCEPT !.watchers = @ \union {w}])

unregister_watcher(w) == w \in g.watchers /\ g' = [g EXCEPT !.watchers = @ \ {w}]

watcher_exit(w) ==
  LET v == [g EXCEPT !.watchers = @ \ {w}]
  IN /\ w \in g.watchers /\ (g.attrib => MayGiveUp)
     /\ v.watchers # {} => "exit" \in Environment
     /\ g' = g_attrib_unref(IF v.watchers = {} THEN GiveUp(v) ELSE v)

-----------------------------------------------------------------------------
(* The queue                                                               *)

\* A command needs no response and leaves the queue.
can_write_data ==
  /\ g.attrib /\ g.sock = "up" /\ g.wake
  /\ g' = CASE g.queue = <<>> -> [g EXCEPT !.wake = FALSE]
            [] g.queue # <<>> /\ Head(g.queue).cb = "command" -> g_attrib_unref([g EXCEPT !.queue = Tail(@)])
            [] g.queue # <<>> /\ Head(g.queue).cb # "command" -> g_attrib_unref([g EXCEPT !.sent = TRUE, !.wake = FALSE])

\* The socket is closed: the reference of the packet goes, the packet stays.
WriteFails ==
  /\ g.attrib /\ g.sock \in {"hup", "dead"} /\ g.wake
  /\ g' = IF g.queue = <<>> THEN [g EXCEPT !.wake = FALSE] ELSE g_attrib_unref([g EXCEPT !.wake = FALSE])

update_all_chars(v, p) ==
  LET chars == SelectSeq(CharsOf[p], LAMBDA c : c \in v.prim[p].chars)
      queued == FoldLeft(LAMBDA u, c :
                  g_attrib_send(g_attrib_ref(
                    g_attrib_send(g_attrib_ref(u), Cmd("info", p, c, FALSE))), Cmd("value", p, c, c = Last(chars))), v, chars)
  IN [queued EXCEPT !.prim[p].stale = @ \/ v.prim[p].timer, !.prim[p].timer = TRUE]

\* attrib/client.c, then discover_char_free of attrib/gatt.c.
char_discovered_cb(v, p, ok) ==
  LET found == update_all_chars([v EXCEPT !.prim[p].chars = ToSet(CharsOf[p])], p)
      failed == [ReplyDiscovery(v, p) EXCEPT !.prim[p].msg = IF @ = "none" THEN @ ELSE "answered"]
      called == IF ok THEN found ELSE g_attrib_unref(failed)
  IN g_attrib_unref(IF called.attrib THEN called ELSE Wrong(called, "freed"))

descriptor_cb(v, cmd, ok, n) ==
  LET more == FoldLeft(LAMBDA u, k : g_attrib_send(g_attrib_ref(u), Cmd("desc", cmd.p, cmd.c, FALSE)), v, [k \in 1..n |-> k])
  IN g_attrib_unref(IF ok THEN [more EXCEPT !.stored = @ \union {cmd.p}] ELSE v)

update_char_value(v, cmd) ==
  LET u == IF cmd.last /\ v.prim[cmd.p].msg # "none" THEN ReplyDiscovery(v, cmd.p) ELSE v
  IN CASE v.prim[cmd.p].msg # "none" ->
            g_attrib_unref([u EXCEPT !.prim[cmd.p].msg = IF cmd.last THEN "none" ELSE @,
                                     !.prim[cmd.p].timer = ~cmd.last])
       [] v.prim[cmd.p].msg = "none" /\ v.chr[cmd.c] -> g_attrib_unref([v EXCEPT !.chr[cmd.c] = FALSE])
       [] v.prim[cmd.p].msg = "none" /\ ~v.chr[cmd.c] -> v

gatt_write_char_resp(v, cmd) == characteristic_clean(v, cmd.c)

Called(v, cmd, ok, n) ==
  CASE cmd.cb = "discover" -> char_discovered_cb(v, cmd.p, ok)
    [] cmd.cb = "info" -> descriptor_cb(v, cmd, ok, n)
    [] cmd.cb = "desc" -> g_attrib_unref(v)
    [] cmd.cb = "value" -> update_char_value(v, cmd)
    [] cmd.cb = "write" -> gatt_write_char_resp(v, cmd)

Answerable == g.attrib /\ g.sock = "up" /\ g.sent

\* After the callback the sender of the rest is woken up.
received_data(ok, n) ==
  LET cmd == Head(g.queue)
      u == Called([g EXCEPT !.queue = Tail(@), !.sent = FALSE], cmd, ok, n)
      rest == Tail(g.queue) # <<>>
  IN /\ Answerable
     /\ n > 0 => ok /\ cmd.cb = "info"
     /\ ~ok => cmd.cb # "discover" \/ "failed" \in Environment
     /\ g' = IF u.attrib THEN [u EXCEPT !.wake = @ \/ rest] ELSE IF rest THEN Wrong(u, "freed") ELSE u

\* There is more: a discovery goes on at the end of the queue, a long value at its head.
Continues ==
  LET cmd == Head(g.queue)
      v == g_attrib_ref([g EXCEPT !.sent = FALSE, !.wake = TRUE])
  IN /\ Answerable /\ cmd.cb \in {"discover", "value", "desc"}
     /\ g' = IF cmd.cb = "discover" THEN [v EXCEPT !.queue = Append(Tail(@), cmd)] ELSE v

\* The request is written again once the link is encrypted: a packet holds one reference.
Elevated ==
  LET resend == [g EXCEPT !.sent = FALSE, !.wake = TRUE]
  IN /\ Answerable
     /\ g' = IF "elevate" \in Environment THEN resend ELSE g

\* GATT_TIMEOUT of attrib/gattrib.c: without a look at the references.
disconnect_timeout ==
  /\ g.attrib /\ g.sent
  /\ g' = attrib_destroy(GiveUp(g))

stop_discovery_timeout(p) ==
  \/ /\ g.prim[p].timer /\ (g.prim[p].msg # "none" => "slow" \in Environment)
     /\ g' = stop_discovery([g EXCEPT !.prim[p].timer = FALSE], p)
  \/ /\ g.prim[p].stale
     /\ g' = stop_discovery([g EXCEPT !.prim[p].stale = FALSE], p)

-----------------------------------------------------------------------------

Next ==
  \/ le_connect_request \/ le_connect_request_cancel \/ le_disconnect_request
  \/ connect_cb \/ ConnectFails \/ Incoming \/ LinkEnds \/ HangUp
  \/ device_add_connection \/ device_remove_connection \/ attrib_client_unregister
  \/ can_write_data \/ WriteFails \/ Continues \/ Elevated \/ disconnect_timeout
  \/ \E ok \in BOOLEAN, n \in 0..MaxDesc : received_data(ok, n)
  \/ \E p \in Primaries : disconnect_service(p) \/ discover_char(p) \/ stop_discovery_timeout(p)
  \/ \E c \in Chars : fetch_value(c) \/ set_value(c) \/ set_property_command(c)
  \/ \E w \in Watchers : (\E p \in Primaries : register_watcher(w, p)) \/ unregister_watcher(w) \/ watcher_exit(w)

Spec == Init /\ [][Next]_g

-----------------------------------------------------------------------------

Queued(cbs) == {k \in DOMAIN g.queue : g.queue[k].cb \in cbs}

\* Whoever waits on D-Bus is answered once: what answers is in the queue of a channel that still moves (it
\* connects, is up, or its timeout runs), or a timer of the discovery runs; no reply is sent twice.
Answered ==
  /\ g.wrong \intersect {"null", "twice", "unanswered"} = {}
  /\ \A c \in Chars : g.chr[c] => g.attrib /\ \E k \in Queued({"value", "write"}) : g.queue[k].c = c
  /\ \A p \in Primaries : g.prim[p].msg = "pending" => g.attrib /\ (g.prim[p].timer \/ \E k \in Queued({"discover"}) : g.queue[k].p = p)
  /\ g.attrib /\ g.queue # <<>> => g.sock \in {"connecting", "refused", "up", "hup"} \/ g.sent \/ g.wake \/ "disconnected" \in ToSet(g.told)

Quiet == g.queue = <<>> /\ (\A c \in Chars : ~g.chr[c]) /\ (\A p \in Primaries : g.prim[p].msg = "none")

\* References: with nothing under way only that of the connection is left, and none when somebody wanted it
\* closed; nothing that was freed is used.
Balanced ==
  /\ "freed" \notin g.wrong
  /\ g.attrib /\ Quiet => g.refs = 1 /\ ~g.gaveup
  /\ g.attrib /\ g.sock = "up" => g.refs >= Cardinality({k \in DOMAIN g.queue : k > 1})

\* A watcher hears values on a connection, and has one until it ends or somebody closes it.
Heard ==
  g.watchers # {} => /\ (g.attrib /\ g.sock = "up" => g.handlers)
                     /\ (g.attrib \/ g.gaveup)

Safe == Answered /\ Balanced /\ Heard
=============================================================================
