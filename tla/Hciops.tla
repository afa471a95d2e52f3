-------------------------------- MODULE Hciops --------------------------------
(***************************************************************************)
(* plugins/hciops.c, three parts: initialisation and settings of an adapter,*)
(* in a; discovery, in disc; connections and pairing, in pair.             *)
(*                                                                         *)
(* plugins/hciops.c: an adapter that is run over a raw HCI socket.  It comes, *)
(* goes, is brought up by the kernel and initialised once the answers to    *)
(* the kernel's own commands were seen; then its name, class, extended       *)
(* inquiry response and scan mode are written by commands whose completions  *)
(* come later.                                                             *)
(***************************************************************************)
EXTENDS Sequences, FiniteSets, Integers

CONSTANTS
  Uuids,      \* services, each with its bit of the class
  Names,      \* names of the adapter
  MaxCommands,\* clients wait while so many commands are on their way
  Restarts,   \* how often the daemon may start again
  Environment \* what makes it go wrong: a class of zero ("zero"), a class the controller refuses
              \* ("rejected"), an answer about the address that is missed ("missed"), an adapter that
              \* goes down in the limited mode ("limited"), or is left there by a daemon that ended ("crash")

VARIABLE a

\* A class of device: bits of the services, the limited discoverable bit, major and minor class.
Class(svc, limited, device) == [svc |-> svc, limited |-> limited, device |-> device]
Zero == Class({}, FALSE, 0)
DeviceClasses == {1, 2} \union {d \in {0} : "zero" \in Environment}

PENDING == {"bdaddr", "version", "features", "name"}
Reset == [cls |-> Zero, limited |-> FALSE, eir |-> <<>>, scan |-> "off"]

\* dev_info of an adapter that is not there.
init_dev_info(v) ==
  [v EXCEPT !.sk = FALSE, !.up = FALSE, !.pending = {}, !.cache = TRUE, !.wanted = Zero, !.pending_cod = Zero,
            !.current_cod = Zero, !.ssp = FALSE, !.tx = FALSE, !.eir = <<>>, !.uuids = {}]

\* kernel: what the kernel makes of the adapter, with events about it in stack and commands with their
\* completions in cmds; ctl: the controller's settings.  adapter: struct btd_adapter has been started,
\* with the mode it was told; twice: it was started without having been stopped.
AdapterInit ==
         \E up \in BOOLEAN : a =
           [sk |-> FALSE, registered |-> FALSE, up |-> FALSE, pending |-> {}, cache |-> TRUE, wanted |-> Zero,
            pending_cod |-> Zero, current_cod |-> Zero, ssp |-> FALSE, tx |-> FALSE, eir |-> <<>>, uuids |-> {},
            name |-> "none", kernel |-> IF up THEN "up" ELSE "gone", stack |-> IF up THEN <<"known">> ELSE <<>>, cmds |-> <<>>,
            ctl |-> Reset, chip |-> "none", adapter |-> FALSE, told |-> "off", twice |-> FALSE, starts |-> 0]

adapter_hci_send_cmd(v, op, arg) == [v EXCEPT !.cmds = Append(@, <<op, arg>>)]

-----------------------------------------------------------------------------
(* The class and the extended inquiry response.                            *)

Eir(v) == <<v.name, v.tx, v.uuids>>
update_ext_inquiry_response(v) ==
  IF ~v.ssp \/ v.cache \/ Eir(v) = v.eir THEN v
  ELSE adapter_hci_send_cmd([v EXCEPT !.eir = Eir(v)], "eir", Eir(v))

write_class(v) == [adapter_hci_send_cmd(v, "class", v.wanted) EXCEPT !.pending_cod = v.wanted]

hciops_set_limited_discoverable(v, limited) ==
  LET w == [v EXCEPT !.wanted.limited = limited]
  IN IF w.pending_cod # Zero \/ w.wanted = w.current_cod THEN w
     ELSE write_class(adapter_hci_send_cmd(w, "iac", limited))

\* Mutant: the other bits of a class that was changed meanwhile are not written.
write_class_complete_once(v) ==
  IF v.pending_cod = Zero THEN v
  ELSE update_ext_inquiry_response([v EXCEPT !.current_cod = v.pending_cod, !.pending_cod = Zero])

\* Zero means that no class is being written.
write_class_complete(v) ==
  LET w == update_ext_inquiry_response([v EXCEPT !.current_cod = v.pending_cod, !.pending_cod = Zero])
  IN CASE v.pending_cod = Zero -> v
       [] v.pending_cod # Zero /\ w.wanted = w.current_cod -> w
       [] v.pending_cod # Zero /\ w.wanted.limited # w.current_cod.limited ->
            hciops_set_limited_discoverable(w, w.wanted.limited)
       [] OTHER -> write_class(w)

hciops_set_dev_class(v, d) ==
  LET w == [v EXCEPT !.wanted.device = d]
  IN IF w.wanted = w.current_cod \/ w.cache \/ w.pending_cod # Zero THEN w ELSE write_class(w)

update_service_classes(v) ==
  LET w == [v EXCEPT !.wanted.svc = v.uuids]
  IN CASE w.cache \/ w.pending_cod # Zero -> w
       [] ~w.cache /\ w.pending_cod = Zero /\ w.current_cod = w.wanted -> update_ext_inquiry_response(w)
       [] OTHER -> write_class(w)

hciops_add_uuid(v, u) == update_service_classes([v EXCEPT !.uuids = @ \union {u}])
hciops_remove_uuid(v, u) == update_service_classes([v EXCEPT !.uuids = @ \ {u}])

hciops_disable_cod_cache(v) ==
  LET w == [v EXCEPT !.cache = FALSE]
  IN CASE ~v.cache -> v
       [] v.cache /\ w.current_cod = w.wanted -> update_ext_inquiry_response(w)
       [] OTHER -> write_class(w)

hciops_set_name(v, n) == update_ext_inquiry_response([adapter_hci_send_cmd(v, "name", n) EXCEPT !.name = n])
hciops_set_discoverable(v, discoverable) ==
  adapter_hci_send_cmd(v, "scan", IF discoverable THEN "discoverable" ELSE "connectable")

-----------------------------------------------------------------------------
(* Up and down.                                                            *)

\* The kernel gives up the commands, and the controller forgets its settings.
HCIDEVDOWN(v) ==
  IF v.kernel # "up" THEN v
  ELSE [v EXCEPT !.kernel = "down", !.cmds = <<>>, !.ctl = Reset, !.stack = Append(@, "down")]
hciops_power_off(v) == HCIDEVDOWN(adapter_hci_send_cmd(v, "scan", "off"))

start_adapter(v) ==
  [adapter_hci_send_cmd(adapter_hci_send_cmd(v, "ssp", TRUE), "readtx", TRUE) EXCEPT !.current_cod = Zero, !.eir = <<>>]

btd_adapter_start(v, n, d) ==
  hciops_disable_cod_cache([hciops_set_dev_class(hciops_set_name(v, n), d)
                            EXCEPT !.adapter = TRUE, !.told = "connectable", !.twice = @ \/ v.adapter])

\* A new adapter may have been off when it was last used.
init_adapter(v) ==
  {hciops_set_discoverable(btd_adapter_start(start_adapter([v EXCEPT !.registered = TRUE]), n, d), discoverable)
     : n \in Names, d \in DeviceClasses, discoverable \in BOOLEAN}
  \union (IF v.registered THEN {} ELSE {hciops_power_off([v EXCEPT !.registered = TRUE])})

Answered(v, what) ==
  LET w == [v EXCEPT !.pending = @ \ {what}]
  IN IF v.pending # {} /\ w.pending = {} /\ w.up THEN init_adapter(w) ELSE {w}

\* Of the first answers some may have been missed; they are asked for again.
read_local_name_complete(v, n) ==
  LET w == [v EXCEPT !.name = n, !.pending = @ \ {"name"}]
      f == IF "features" \in w.pending THEN adapter_hci_send_cmd(w, "features", TRUE) ELSE w
      r == IF "version" \in w.pending THEN adapter_hci_send_cmd(f, "version", TRUE) ELSE f
  IN IF v.pending = {} THEN {update_ext_inquiry_response(w)}
     ELSE IF r.pending = {} /\ r.up THEN init_adapter(r) ELSE {r}

\* The settings of the controller change and the completion is handled.
cmd_complete(v, op, arg) ==
  CASE op = "class" -> {write_class_complete([v EXCEPT !.ctl.cls = arg])}
                       \union {v : r \in {1} \intersect (IF "rejected" \in Environment THEN {1} ELSE {})}
    [] op = "iac" -> {[v EXCEPT !.ctl.limited = arg]}
    [] op = "eir" -> {[v EXCEPT !.ctl.eir = arg]}
    [] op = "scan" -> {adapter_hci_send_cmd([v EXCEPT !.ctl.scan = arg], "readscan", TRUE)}
    [] op = "readscan" -> {IF v.registered THEN [v EXCEPT !.told = v.ctl.scan] ELSE v}
    [] op = "name" -> {adapter_hci_send_cmd([v EXCEPT !.chip = arg], "readname", TRUE)}
    [] op = "readname" -> read_local_name_complete(v, v.chip)
    [] op = "ssp" -> {adapter_hci_send_cmd(v, "readssp", TRUE)}
    [] op = "readssp" -> {update_ext_inquiry_response([v EXCEPT !.ssp = TRUE])}
    [] op = "readtx" -> {update_ext_inquiry_response([v EXCEPT !.tx = TRUE])}
    [] op \in {"features", "version", "bdaddr"} -> Answered(v, op)

adapter_io_security_event ==
          /\ a.sk /\ a.cmds # <<>>
          /\ a' \in cmd_complete([a EXCEPT !.cmds = Tail(@)], Head(a.cmds)[1], Head(a.cmds)[2])

stop_hci_dev(v) == IF v.sk THEN init_dev_info([v EXCEPT !.cmds = <<>>]) ELSE v

device_devup_setup(v) == IF v.pending = {} THEN init_adapter(v) ELSE {v}

init_device(v) == [init_dev_info(v) EXCEPT !.sk = TRUE, !.registered = FALSE, !.pending = PENDING, !.name = "none"]

device_event(v, event) ==
  CASE event = "reg" -> {init_device(v)}
    [] event = "unreg" -> {[stop_hci_dev(v) EXCEPT !.adapter = FALSE, !.told = "off", !.registered = FALSE]}
    [] event = "up" -> device_devup_setup([v EXCEPT !.up = TRUE])
    [] event = "down" ->
         LET w == [v EXCEPT !.up = FALSE, !.pending_cod = Zero, !.cache = TRUE]
         IN {IF w.pending # {} THEN w ELSE [w EXCEPT !.adapter = FALSE, !.told = "off", !.pending = PENDING]}

\* An adapter that is up when the daemon starts is only asked for its version.
init_known_adapters(v) ==
  device_event(adapter_hci_send_cmd([init_device(v) EXCEPT !.pending = {"version"}], "version", TRUE), "up")

io_stack_event ==
  /\ a.stack # <<>>
  /\ LET v == [a EXCEPT !.stack = Tail(@)]
     IN a' \in IF Head(a.stack) = "known" THEN init_known_adapters(v) ELSE device_event(v, Head(a.stack))

-----------------------------------------------------------------------------
(* The kernel, the hardware and the daemon's other parts.                   *)

Plugged == /\ a.kernel = "gone" /\ a.stack = <<>>
           /\ a' = [a EXCEPT !.kernel = "down", !.stack = <<"reg">>]
Unplugged ==
  /\ a.kernel # "gone" /\ a.stack = <<>>
  /\ a' = [HCIDEVDOWN(a) EXCEPT !.kernel = "gone", !.stack = Append(@, "unreg")]

\* HCIDEVUP: the answers to the kernel's commands are seen, or some are missed.
HCIDEVUP ==
  /\ a.kernel = "down" /\ a.sk /\ a.stack = <<>>
  /\ \E seen \in {PENDING, {"bdaddr", "name"}} \union {PENDING \ {"bdaddr"} : m \in Environment \intersect {"missed"}} :
       a' = [a EXCEPT !.kernel = "up", !.stack = <<"up">>,
                      !.cmds = SelectSeq(<<<<"features", TRUE>>, <<"version", TRUE>>, <<"bdaddr", TRUE>>, <<"readname", TRUE>>>>,
                                         LAMBDA c : c[1] \in seen \/ (c[1] = "readname" /\ "name" \in seen))]

\* Somebody else, or a client, turns the adapter off.
Down == /\ a.kernel = "up" /\ a.stack = <<>>
        /\ ~a.wanted.limited \/ "limited" \in Environment
        /\ a' = hciops_power_off(a)

\* The daemon ends and starts again; the controller keeps its settings.
Restart ==
  /\ a.starts < Restarts /\ a.kernel = "up" /\ a.stack = <<>> /\ (~a.ctl.limited \/ "crash" \in Environment)
  /\ \A i \in DOMAIN a.cmds : a.cmds[i][1] # "iac" \/ "crash" \in Environment
  /\ a' = [init_dev_info(a) EXCEPT !.cmds = <<>>, !.registered = FALSE, !.adapter = FALSE, !.told = "off", !.name = "none",
                                   !.stack = <<"known">>, !.starts = @ + 1]

ClientSteps ==
  /\ a.adapter /\ a.stack = <<>> /\ Len(a.cmds) < MaxCommands
  /\ \/ \E b \in BOOLEAN \ {a.wanted.limited} : a' = hciops_set_limited_discoverable(a, b)
     \/ \E d \in DeviceClasses \ {a.wanted.device} : a' = hciops_set_dev_class(a, d)
     \/ \E u \in Uuids : a' = IF u \in a.uuids THEN hciops_remove_uuid(a, u) ELSE hciops_add_uuid(a, u)
     \/ \E n \in Names \ {a.name} : a' = hciops_set_name(a, n)
     \/ \E b \in BOOLEAN : a' = hciops_set_discoverable(a, b)

AdapterNext == adapter_io_security_event \/ io_stack_event \/ Plugged \/ Unplugged \/ HCIDEVUP \/ Down \/ Restart \/ ClientSteps
AdapterSpec == AdapterInit /\ [][AdapterNext]_a

-----------------------------------------------------------------------------

Quiet == a.cmds = <<>> /\ a.stack = <<>>

\* An adapter that is up is started, once, as soon as every answer has come.
Initialised == ~a.twice /\ (Quiet /\ a.kernel = "up" => a.adapter)

\* When every command is complete, the controller has the class, the inquiry access codes, the
\* response and the name that are wanted, and the adapter knows its mode.
Written ==
  Quiet /\ a.adapter =>
    /\ a.ctl.cls = a.wanted /\ a.current_cod = a.wanted /\ a.pending_cod = Zero
    /\ a.ctl.limited = a.wanted.limited
    /\ a.ctl.eir = Eir(a) /\ a.eir = Eir(a) /\ a.name = a.chip
    /\ a.told = a.ctl.scan

AdapterSafe == Initialised /\ Written

-----------------------------------------------------------------------------
(***************************************************************************)
(* plugins/hciops.c: device discovery over a raw HCI socket.  An inquiry is   *)
(* followed, on a controller that has both radios, by a scan for LE devices  *)
(* that a timer ends; the state follows the events of the controller, and   *)
(* the commands are chosen by the state.  The discovery sessions are those    *)
(* of src/adapter.c.                                                       *)
(***************************************************************************)

CONSTANTS
  Types      \* what get_adapter_type returns

\* Environment, in this part: what makes it go wrong: discovery stopped or suspended while a command is on its way
\* ("early"), while the timer's is ("late"), between inquiry and scan ("between"), or started
\* again at once ("again"), power off in the middle ("down")

VARIABLE disc

\* discov: discov_state; timer: stop_scan_id, with stray timers that it no longer names; state and
\* scheduler: those of struct btd_adapter.  cmds and evts: what is on its way to the controller and from it;
\* inq and scan: what the controller does.
DiscoveryInit == \E type \in Types :
           disc = [type |-> type, discov |-> "halted", timer |-> FALSE, stray |-> 0, up |-> TRUE, state |-> "idle", scheduler |-> FALSE,
                   sessions |-> FALSE, cmds |-> <<>>, evts |-> <<>>, inq |-> FALSE, scan |-> FALSE]

discovery_hci_send_cmd(v, c) == IF v.up THEN [v EXCEPT !.cmds = Append(@, c)] ELSE v

\* The timer of a scan that runs already is forgotten.
hciops_start_scanning(v) ==
  [discovery_hci_send_cmd(v, "scan on") EXCEPT !.timer = TRUE, !.stray = IF v.timer THEN @ + 1 ELSE @]
hciops_stop_scanning(v) == discovery_hci_send_cmd([v EXCEPT !.timer = FALSE], "scan off")

hciops_start_discovery(v) ==
  IF v.type = "LE_ONLY" THEN hciops_start_scanning(v) ELSE discovery_hci_send_cmd(v, "inquiry")

hciops_stop_discovery(v) ==
  CASE v.discov = "inq" -> discovery_hci_send_cmd(v, "cancel")
    [] v.discov = "scan" -> hciops_stop_scanning(v)
    [] v.discov = "halted" -> v

-----------------------------------------------------------------------------
(* src/adapter.c                                                           *)

adapter_set_state(v, state) ==
  LET w == [v EXCEPT !.state = state]
  IN CASE v.state = state -> v
       [] v.state # state /\ state = "idle" -> [w EXCEPT !.scheduler = @ \/ v.sessions]
       [] v.state # state /\ state = "suspended" -> hciops_stop_discovery([w EXCEPT !.scheduler = FALSE])
       [] OTHER -> w

set_state(v, discov) ==
  LET w == [v EXCEPT !.discov = discov]
  IN CASE v.discov = discov \/ (discov = "halted" /\ v.state = "suspended") -> w
       [] v.discov # discov /\ discov = "halted" /\ v.state # "suspended" ->
            adapter_set_state(w, IF v.sessions THEN "resolvname" ELSE "idle")
       [] OTHER -> adapter_set_state(w, "discov")

Settled == disc.cmds = <<>> /\ disc.evts = <<>>

\* A session stops or is suspended when the state tells what to cancel: not before the first event, not
\* after the inquiry while the scan is being started, not while the scan is being ended.  An inquiry that
\* is suspended does not end by itself meanwhile.
MayStop ==
  CASE Settled -> TRUE
    [] ~Settled /\ disc.discov = "halted" -> "early" \in Environment
    [] ~Settled /\ disc.discov = "inq" ->
         (disc.cmds # <<"scan on">> /\ disc.evts # <<"scan enable">>) \/ "between" \in Environment
    [] ~Settled /\ disc.discov = "scan" -> "late" \in Environment

start_discovery(v) == IF v.state \in {"suspended", "resolvname"} THEN v ELSE hciops_start_discovery(v)

StartDiscovery == /\ disc.up /\ ~disc.sessions /\ (Settled \/ "again" \in Environment)
                  /\ disc.state = "discov" => "again" \in Environment
                  /\ disc' = [start_discovery(disc) EXCEPT !.sessions = TRUE]

discovery_cb == /\ disc.scheduler /\ Settled /\ disc.state = "idle"
                /\ disc' = [start_discovery(disc) EXCEPT !.scheduler = FALSE]

stop_discovery(v) ==
  IF v.state = "suspended" THEN adapter_set_state(v, "idle")
  ELSE hciops_stop_discovery([v EXCEPT !.scheduler = FALSE])

StopDiscovery == disc.up /\ disc.sessions /\ MayStop /\ disc' = stop_discovery([disc EXCEPT !.sessions = FALSE])

adapter_suspend_discovery == /\ disc.sessions /\ disc.state # "suspended" /\ MayStop
                             /\ disc.evts = <<>> \/ disc.type = "BR_EDR" \/ "between" \in Environment
                             /\ disc' = adapter_set_state(disc, "suspended")
adapter_resume_discovery == disc.state = "suspended" /\ Settled /\ disc' = adapter_set_state(disc, "idle")
NamesResolved == disc.state = "resolvname" /\ disc' = adapter_set_state(disc, "idle")

\* HCI_DEV_DOWN: discov_state and the timer are left as they are.
HCI_DEV_DOWN ==
  /\ disc.up /\ ((Settled /\ disc.discov = "halted" /\ ~disc.timer) \/ "down" \in Environment)
  /\ disc' = [disc EXCEPT !.up = FALSE, !.cmds = <<>>, !.evts = <<>>, !.inq = FALSE, !.scan = FALSE, !.sessions = FALSE,
                          !.scheduler = FALSE, !.state = "idle"]
HCI_DEV_UP == ~disc.up /\ disc' = [disc EXCEPT !.up = TRUE]

-----------------------------------------------------------------------------
(* Events of the controller.                                               *)

\* Mutant: every completion of the command means that the scan runs.
cc_le_set_scan_enable_on(v) == set_state(v, "scan")

\* The completion does not say what was asked for: it is taken to be the other state.
cc_le_set_scan_enable(v) == set_state(v, IF v.discov = "scan" THEN "halted" ELSE "scan")

inquiry_complete_evt(v) ==
  IF v.type = "BR_EDR_LE" /\ v.sessions THEN hciops_start_scanning(v) ELSE set_state(v, "halted")

discovery_io_security_event ==
            /\ disc.evts # <<>>
            /\ LET v == [disc EXCEPT !.evts = Tail(@)]
                   e == Head(disc.evts)
               IN disc' = CASE e = "inquiry status" -> set_state(v, "inq")
                            [] e = "inquiry complete" -> inquiry_complete_evt(v)
                            [] e = "cancelled" -> set_state(v, "halted")
                            [] e = "scan enable" -> cc_le_set_scan_enable(v)
                            [] e = "refused" -> v

stop_le_scan_cb == disc.timer /\ disc.up /\ disc' = discovery_hci_send_cmd([disc EXCEPT !.timer = FALSE], "scan off")

\* The controller carries out a command; it refuses what it is doing or not doing already.
Controller ==
  /\ disc.cmds # <<>>
  /\ LET v == [disc EXCEPT !.cmds = Tail(@)]
         Says(w, e) == [w EXCEPT !.evts = Append(@, e)]
         c == Head(disc.cmds)
     IN disc' = CASE c = "inquiry" -> IF v.inq THEN Says(v, "refused") ELSE Says([v EXCEPT !.inq = TRUE], "inquiry status")
                  [] c = "cancel" -> IF v.inq THEN Says([v EXCEPT !.inq = FALSE], "cancelled") ELSE Says(v, "refused")
                  [] c = "scan on" -> Says([v EXCEPT !.scan = TRUE], "scan enable")
                  [] c = "scan off" -> Says([v EXCEPT !.scan = FALSE], "scan enable")
InquiryEnds == /\ disc.inq /\ (disc.state # "suspended" \/ disc.type = "BR_EDR" \/ "between" \in Environment)
               /\ disc' = [disc EXCEPT !.inq = FALSE, !.evts = Append(@, "inquiry complete")]

DiscoveryNext == \/ StartDiscovery \/ discovery_cb \/ StopDiscovery \/ adapter_suspend_discovery
                 \/ adapter_resume_discovery \/ NamesResolved \/ HCI_DEV_DOWN \/ HCI_DEV_UP
                 \/ discovery_io_security_event \/ stop_le_scan_cb \/ Controller \/ InquiryEnds
DiscoverySpec == DiscoveryInit /\ [][DiscoveryNext]_disc

-----------------------------------------------------------------------------

\* When nothing is on its way, the state is what the controller does, and a session knows it.
Agrees == Settled => /\ (disc.discov = "inq") = disc.inq
                     /\ (disc.discov = "scan") = disc.scan
                     /\ disc.state = "discov" <=> disc.discov # "halted" /\ disc.state # "suspended"

\* Without a session the controller is idle, and so it is while discovery is suspended.
Stopped == Settled /\ (~disc.sessions \/ disc.state = "suspended") => ~disc.inq /\ ~disc.scan

\* A scan ends: its timer runs or the command is on its way; no other timer runs.
ScanEnds == /\ disc.scan => disc.timer \/ \E i \in DOMAIN disc.cmds : disc.cmds[i] = "scan off"
            /\ disc.stray = 0

DiscoverySafe == Agrees /\ Stopped /\ ScanEnds

-----------------------------------------------------------------------------
(***************************************************************************)
(* plugins/hciops.c: connections, link keys and pairing over a raw HCI       *)
(* socket, where the daemon answers the requests of the controller itself:  *)
(* for a link key, a PIN code, the IO capabilities, out of band data and a    *)
(* confirmation.                                                           *)
(***************************************************************************)

CONSTANTS
  Devices, Legacy, \* remote devices, and those of them without Simple Pairing
  Remote,          \* what a device answers: records with cap, auth and oob
  Kernel          \* authentication requirements that the kernel may have

\* Environment, in this part: what makes it go wrong: a bonding that is cancelled after its connection ("cancel"), that
\* is connected before the event about it is read ("priority"), a link lost while it
\* authenticates ("lost"), PIN codes of two devices at once ("two"), out of band data given
\* twice or withdrawn ("oob"), a kernel that does not know the connection ("unknown"), a
\* bonding that starts while the device connects or fails to ("race")

VARIABLE pair

Unknown == 255
Mitm(auth) == auth % 2 = 1
NoBonding == {0, 1}
Dedicated == {2, 3}
NoInputNoOutput == 3
DisplayYesNo == 1

NoConn == [there |-> FALSE, handle |-> FALSE, loc_cap |-> NoInputNoOutput, loc_auth |-> Unknown, rem_cap |-> 0,
           rem_auth |-> Unknown, rem_oob |-> FALSE, initiator |-> FALSE, secmode3 |-> FALSE, io |-> FALSE]

\* Of the daemon: conn, keys, oob (how often there are data) and pin_length.  Of its users: waits (somebody
\* waits for btd_event_bonding_complete), stored (type and length of PIN code in storage), temporary, given (out of band
\* data are known).  Of kernel and controller: link, sock (an L2CAP socket connects), asks (what the
\* controller asks), ours (we asked for the authentication), high, kauth, used (the PIN code), enc.
PairingInit ==
         \E pairable \in BOOLEAN, cap \in {DisplayYesNo, NoInputNoOutput} : pair =
           [pairable |-> pairable, io_capability |-> cap, pin_length |-> 0,
            conn |-> [d \in Devices |-> NoConn], key |-> [d \in Devices |-> <<>>], oob |-> [d \in Devices |-> 0],
            waits |-> {}, stored |-> [d \in Devices |-> <<>>], temporary |-> {}, given |-> {}, paired |-> {},
            link |-> {}, sock |-> {}, asks |-> [d \in Devices |-> "none"], ours |-> {}, high |-> {},
            kauth |-> [d \in Devices |-> Unknown], used |-> [d \in Devices |-> 0], enc |-> [d \in Devices |-> "none"],
            wrong |-> {}]

Asks(v, d, what) == [v EXCEPT !.asks[d] = what]
Wrong(v, what, isSo) == IF isSo THEN [v EXCEPT !.wrong = @ \union {what}] ELSE v

get_connection(v, d) ==
  IF v.conn[d].there THEN v ELSE [v EXCEPT !.conn[d] = [NoConn EXCEPT !.there = TRUE, !.loc_cap = v.io_capability]]

bonding_complete(v, d, status) ==
  [v EXCEPT !.conn[d].io = FALSE, !.conn[d].initiator = FALSE, !.waits = @ \ {d},
            !.sock = IF v.conn[d].io /\ status # 0 THEN @ \ {d} ELSE @,
            !.paired = IF status = 0 THEN @ \union {d} ELSE @]

conn_free(v, d) == [v EXCEPT !.conn[d] = NoConn, !.sock = IF v.conn[d].io THEN @ \ {d} ELSE @]

-----------------------------------------------------------------------------
(* Connections.                                                            *)

hciops_create_bonding(d, cap) ==
  /\ d \notin pair.waits /\ pair.key[d] = <<>> /\ ~pair.conn[d].io /\ pair.asks[d] = "none" /\ d \notin pair.sock
  /\ pair.conn[d].there => pair.conn[d].handle \/ "race" \in Environment
  /\ LET v == get_connection(pair, d)
     IN pair' = [v EXCEPT !.conn[d].loc_cap = cap, !.conn[d].io = TRUE, !.conn[d].initiator = TRUE, !.sock = @ \union {d},
                          !.waits = @ \union {d}, !.high = IF d \in Legacy \/ cap = NoInputNoOutput THEN @ \ {d} ELSE @ \union {d}]

\* The user does not wait any longer.
hciops_cancel_bonding(d) ==
  /\ d \in pair.waits /\ pair.conn[d].io /\ ((d \notin pair.link /\ pair.asks[d] = "none") \/ "cancel" \in Environment)
  /\ pair' = [pair EXCEPT !.conn[d].io = FALSE, !.sock = @ \ {d}, !.waits = @ \ {d}]

\* The authentication that request_authentication asks for; without a handle the command fails unseen.
bonding_connect_cb(d) ==
  /\ d \in pair.sock /\ d \in pair.link /\ (pair.conn[d].handle \/ "priority" \in Environment)
  /\ LET v == [pair EXCEPT !.sock = @ \ {d}]
     IN pair' = CASE ~v.conn[d].io -> v
                  [] v.conn[d].io /\ ~v.conn[d].handle -> v
                  [] OTHER -> IF v.asks[d] # "none" THEN [v EXCEPT !.ours = @ \union {d}]
                              ELSE Asks([v EXCEPT !.ours = @ \union {d}], d, "link key")

\* The kernel gives up a connection whose socket is closed, unless the device comes first.
Comes(d) == d \in pair.link \/ ~pair.conn[d].there \/ d \in pair.sock \/ "cancel" \in Environment

\* A device in security mode 3 authenticates before the connection is complete.
RemoteAuthenticates(d) ==
  /\ pair.asks[d] = "none" /\ (d \in pair.link => pair.conn[d].handle) /\ (d \notin pair.link => d \in Legacy)
  /\ d \notin pair.waits /\ d \notin pair.sock /\ pair.enc[d] = "none" /\ Comes(d)
  /\ \E h \in BOOLEAN, k \in Kernel :
       pair' = Asks([pair EXCEPT !.link = @ \union {d}, !.high = IF h THEN @ \union {d} ELSE @ \ {d}, !.kauth[d] = k], d, "link key")

LinkUp(d) == /\ d \notin pair.link /\ pair.asks[d] = "none" /\ Comes(d)
             /\ \E k \in Kernel : pair' = [pair EXCEPT !.link = @ \union {d}, !.kauth[d] = k]

conn_complete(d) ==
  /\ d \in pair.link /\ ~pair.conn[d].handle /\ pair.asks[d] = "none"
  /\ LET v == [get_connection(pair, d) EXCEPT !.conn[d].handle = TRUE]
     IN pair' = IF v.conn[d].secmode3 THEN bonding_complete(v, d, 0) ELSE v

\* The connection fails, or what was asked before it was complete.
conn_failed(d) ==
  /\ pair.conn[d].there /\ ~pair.conn[d].handle /\ d \notin pair.link /\ pair.asks[d] = "none"
  /\ pair' = conn_free(bonding_complete(pair, d, 1), d)

\* A temporary device goes, and a paired device's key with it, from storage too.
disconn_complete(d) ==
  /\ d \in pair.link /\ pair.conn[d].handle /\ ((pair.asks[d] = "none" /\ d \notin pair.waits /\ pair.enc[d] = "none") \/ "lost" \in Environment)
  /\ LET v == conn_free([pair EXCEPT !.link = @ \ {d}, !.asks[d] = "none", !.ours = @ \ {d}], d)
         gone == d \in v.temporary
     IN pair' = [v EXCEPT !.key[d] = IF gone /\ d \in v.paired THEN <<>> ELSE @, !.stored[d] = IF gone /\ d \in v.paired THEN <<>> ELSE @,
                          !.temporary = @ \ {d}, !.paired = IF gone THEN @ \ {d} ELSE @, !.kauth[d] = Unknown]

\* An authentication ends: bad luck for us, nothing is said when the device has asked for it.
auth_complete(v, d, status) ==
  LET w == [v EXCEPT !.asks[d] = "none", !.ours = @ \ {d}, !.high = @ \ {d},
                     !.link = IF status # 0 /\ ~v.conn[d].handle THEN @ \ {d} ELSE @]
      e == [w EXCEPT !.enc[d] = IF @ = "auth" THEN (IF status = 0 THEN "encrypt" ELSE "none") ELSE @]
  IN IF d \in v.ours /\ v.conn[d].there THEN bonding_complete(e, d, status) ELSE e

hciops_encrypt_link(d) ==
  /\ d \in pair.link /\ pair.conn[d].handle /\ pair.enc[d] = "none" /\ pair.asks[d] = "none" /\ d \notin pair.waits
  /\ \E k \in Kernel : pair' = Asks([pair EXCEPT !.enc[d] = "auth", !.ours = @ \union {d}, !.kauth[d] = k], d, "link key")
hci_event_watch(d) == pair.enc[d] = "encrypt" /\ pair' = [pair EXCEPT !.enc[d] = "none"]

-----------------------------------------------------------------------------
(* Link keys.                                                              *)

\* Nothing is answered if the kernel does not know the connection.
link_key_request(d) ==
  /\ pair.asks[d] = "link key"
  /\ LET c == get_connection(pair, d)
         v == [c EXCEPT !.conn[d].secmode3 = @ \/ ~c.conn[d].handle, !.conn[d].loc_auth = c.kauth[d]]
         k == v.key[d]
         usable == /\ k # <<>> /\ ~(d \in Legacy /\ d \in v.high /\ k[2] # 16)
                   /\ ~(k[1] = 4 /\ v.conn[d].loc_auth # Unknown /\ Mitm(v.conn[d].loc_auth))
     IN \E known \in {TRUE} \union {"unknown" \notin Environment} :
          pair' = CASE ~known -> Asks(pair, d, "unanswered")
                    [] known /\ usable -> auth_complete(v, d, 0)
                    [] known /\ ~usable /\ d \in Legacy -> Asks(v, d, "pin")
                    [] OTHER -> Asks(v, d, IF d \in v.ours THEN "io cap" ELSE "io cap first")

\* Mutant: a key that neither side wants to keep is stored.
MayStore_all(c, type) == TRUE

\* Which keys are kept: of legacy pairing, and when a bonding was wanted.
MayStore(c, type) ==
  \/ type < 3
  \/ c.loc_auth > 1 /\ c.rem_auth > 1
  \/ c.loc_auth \in Dedicated \/ c.rem_auth \in Dedicated

\* err: the key cannot be stored.
link_key_notify(d, err) ==
  /\ pair.asks[d] = "key"
  /\ LET v == [pair EXCEPT !.pin_length = 0]
         c == v.conn[d]
         type == IF d \in Legacy THEN 0 ELSE IF Mitm(c.loc_auth) /\ c.rem_cap # NoInputNoOutput THEN 5 ELSE 4
         key == <<type, pair.pin_length>>
         store == MayStore(c, type)
         kept == [v EXCEPT !.key[d] = key, !.stored[d] = IF store THEN key ELSE @,
                           !.temporary = IF store THEN @ \ {d} ELSE @ \union {d}]
         done == IF ~c.initiator /\ c.handle THEN bonding_complete(kept, d, 0) ELSE kept
         checked == Wrong(Wrong(done, "pin length", d \in Legacy /\ pair.pin_length # pair.used[d]),
                          "kept", store /\ d \notin Legacy /\ c.rem_auth \in NoBonding /\ c.loc_auth \in NoBonding)
     IN IF store /\ err
        THEN pair' = [auth_complete(bonding_complete([v EXCEPT !.key[d] = <<>>], d, 1), d, 1) EXCEPT !.stored[d] = <<>>]
        ELSE ~err /\ pair' = auth_complete(checked, d, 0)

\* device.c removes the key from storage too; the device is no longer paired.
hciops_remove_bonding(d) ==
  /\ pair.key[d] # <<>> /\ pair.asks[d] = "none"
  /\ pair' = [pair EXCEPT !.key[d] = <<>>, !.stored[d] = <<>>, !.paired = @ \ {d}]

-----------------------------------------------------------------------------
(* PIN codes, IO capabilities and confirmation.                            *)

Refused(v, d) == v.pairable = FALSE /\ ~v.conn[d].initiator
\* Nobody asked for it, and nobody may.
Intruder(v, d) == ~v.pairable /\ d \notin v.waits

pin_code_request(d) ==
  /\ pair.asks[d] = "pin"
  /\ LET v == [pair EXCEPT !.conn[d].secmode3 = @ \/ ~pair.conn[d].handle]
     IN \/ pair' = auth_complete(v, d, 1) \* refused here, or by the agent
        \/ /\ ~Refused(v, d) /\ ("two" \in Environment \/ \A e \in Devices \ {d} : pair.asks[e] \notin {"agent pin", "key"})
           /\ pair' = Wrong(Asks(v, d, "agent pin"), "pairable", Intruder(v, d))

hciops_pincode_reply(d, length) ==
  /\ pair.asks[d] = "agent pin"
  /\ pair' = IF length = 0 THEN auth_complete(pair, d, 1)
             ELSE Asks([pair EXCEPT !.pin_length = length, !.used[d] = length], d, "key")

\* A device that we authenticate answers after our capabilities.
io_capa_response(d, r) ==
  /\ pair.asks[d] \in {"io cap first", "io response"}
  /\ LET v == [pair EXCEPT !.conn[d].rem_cap = r.cap, !.conn[d].rem_auth = r.auth, !.conn[d].rem_oob = r.oob,
                           !.kauth[d] = IF Mitm(r.auth) \/ @ = Unknown THEN @ ELSE @ - (@ % 2)]
     IN pair' = Asks(v, d, CASE pair.asks[d] = "io cap first" -> "io cap"
                             [] pair.asks[d] = "io response" /\ r.oob /\ v.oob[d] > 0 -> "oob"
                             [] OTHER -> "confirm")

\* What is asked for after the kernel's requirement and the device's were compared; the kernel is then told
\* what was in the caller's variable.
LocalAuth(c, kauth) ==
  LET auth == IF kauth = Unknown THEN c.rem_auth ELSE kauth
      lead == CASE auth \in {0, 4} /\ c.rem_auth \in Dedicated ->
                     IF c.rem_cap = NoInputNoOutput \/ c.loc_cap = NoInputNoOutput THEN 2 ELSE 3
                [] auth \in {0, 4} /\ c.rem_auth \in NoBonding -> 0
                [] OTHER -> auth
      strict == auth \in {0, 4} /\ c.rem_auth # Unknown /\ Mitm(c.rem_auth) /\ c.loc_cap # NoInputNoOutput
  IN IF strict /\ ~Mitm(lead) THEN lead + 1 ELSE lead

io_capa_request(d) ==
  /\ pair.asks[d] = "io cap"
  /\ LET c == [pair.conn[d] EXCEPT !.loc_auth = pair.kauth[d]]
         auth == IF Refused(pair, d) THEN c.rem_auth ELSE LocalAuth(c, pair.kauth[d])
         told == ~Refused(pair, d) /\ (IF pair.kauth[d] = Unknown THEN c.rem_auth ELSE pair.kauth[d]) \in {0, 4}
         v == [pair EXCEPT !.conn[d].loc_auth = auth, !.kauth[d] = IF told THEN Unknown ELSE @]
         first == d \notin pair.ours
     IN pair' = CASE Refused(pair, d) /\ c.rem_auth > 1 -> auth_complete(pair, d, 1)
                  [] ~(Refused(pair, d) /\ c.rem_auth > 1) /\ first ->
                       Wrong(Asks(v, d, IF v.conn[d].rem_oob /\ v.oob[d] > 0 THEN "oob" ELSE "confirm"),
                             "pairable", Intruder(pair, d) /\ c.rem_auth > 1)
                  [] OTHER -> Asks(v, d, "io response")

remote_oob_data_request(d) ==
  /\ pair.asks[d] = "oob" /\ pair.oob[d] > 0
  /\ pair' = Wrong(Asks([pair EXCEPT !.oob[d] = @ - 1, !.given = IF pair.oob[d] = 1 THEN @ \ {d} ELSE @], d, "confirm"),
                   "stale oob", d \notin pair.given)

\* The entry of the device is looked for by the address of a pointer, and not found.
hciops_add_remote_oob_data(d) ==
  /\ d \notin pair.given /\ (pair.oob[d] = 0 \/ ("oob" \in Environment /\ pair.oob[d] < 2)) /\ pair.asks[d] = "none" /\ d \notin Legacy
  /\ pair' = [pair EXCEPT !.oob[d] = @ + 1, !.given = @ \union {d}]
hciops_remove_remote_oob_data(d) ==
  /\ d \in pair.given => "oob" \in Environment
  /\ pair.asks[d] = "none" /\ pair' = [pair EXCEPT !.given = @ \ {d}]

\* "accept": at once; "agent": a user is asked; "reject".
Confirmation(c) ==
  CASE ~c.initiator /\ Mitm(c.loc_auth) /\ c.rem_cap = NoInputNoOutput -> "reject"
    [] ~c.initiator /\ ~(Mitm(c.loc_auth) /\ c.rem_cap = NoInputNoOutput)
       /\ c.loc_cap = DisplayYesNo /\ c.rem_cap \in {0, NoInputNoOutput} -> "agent"
    [] OTHER -> IF /\ c.loc_auth = Unknown \/ ~Mitm(c.loc_auth) \/ c.rem_cap = NoInputNoOutput
                   /\ ~Mitm(c.rem_auth) \/ c.loc_cap = NoInputNoOutput
                THEN "accept" ELSE "agent"

user_confirm_request(d) ==
  /\ pair.asks[d] = "confirm"
  /\ LET c == pair.conn[d]
         answer == Confirmation(c)
         \* Both could show a number, and one of them wants it.
         able == c.loc_cap # NoInputNoOutput /\ c.rem_cap # NoInputNoOutput
     IN pair' = CASE answer = "reject" -> auth_complete(pair, d, 1)
                  [] answer = "agent" -> Asks(pair, d, "agent confirm")
                  [] answer = "accept" ->
                       Wrong(Asks(pair, d, "key"), "unasked", able /\ (Mitm(c.rem_auth) \/ (c.loc_auth # Unknown /\ Mitm(c.loc_auth))))

hciops_confirm_reply(d, success) ==
  /\ pair.asks[d] = "agent confirm"
  /\ pair' = IF success THEN Asks(pair, d, "key") ELSE auth_complete(pair, d, 1)

hciops_set_pairable == /\ \A d \in Devices : pair.asks[d] = "none"
                       /\ pair' = [pair EXCEPT !.pairable = ~@]

PairingNext ==
         \/ \E d \in Devices :
              \/ \E cap \in {DisplayYesNo, NoInputNoOutput} : hciops_create_bonding(d, cap)
              \/ hciops_cancel_bonding(d) \/ bonding_connect_cb(d) \/ RemoteAuthenticates(d) \/ LinkUp(d) \/ conn_complete(d)
              \/ conn_failed(d) \/ disconn_complete(d) \/ hciops_encrypt_link(d) \/ hci_event_watch(d) \/ link_key_request(d)
              \/ \E err \in BOOLEAN : link_key_notify(d, err)
              \/ hciops_remove_bonding(d) \/ pin_code_request(d) \/ io_capa_request(d)
              \/ \E length \in {0, 4, 16} : hciops_pincode_reply(d, length)
              \/ \E r \in Remote : io_capa_response(d, r)
              \/ remote_oob_data_request(d) \/ hciops_add_remote_oob_data(d) \/ hciops_remove_remote_oob_data(d)
              \/ user_confirm_request(d) \/ \E b \in BOOLEAN : hciops_confirm_reply(d, b)
         \/ hciops_set_pairable
PairingSpec == PairingInit /\ [][PairingNext]_pair

-----------------------------------------------------------------------------

\* Whoever waits for a bonding or for encryption is answered: something is under way that ends it.
BondingAnswered ==
  \A d \in Devices :
    /\ d \in pair.waits => d \in pair.sock \/ (d \in pair.ours /\ pair.asks[d] # "none")
    /\ pair.enc[d] = "auth" => d \in pair.ours /\ pair.asks[d] # "none"
    /\ pair.asks[d] # "unanswered"

\* No key is made with a device that nobody wants to pair, nor with one that could have been
\* checked and had to be; the key that is kept says how long its PIN code was; out of band data are used
\* only as long as they hold; a key is kept only if either side wants it.
NothingWrong == pair.wrong = {}

\* A key that is known is stored, or goes with the connection; no callback has lost its connection.
KeysFit ==
  \A d \in Devices :
    /\ pair.key[d] # <<>> => pair.key[d] = pair.stored[d] \/ (d \in pair.temporary /\ d \in pair.link)
    /\ pair.key[d] = <<>> => pair.stored[d] = <<>>
    /\ d \in pair.sock => pair.conn[d].there

PairingSafe == BondingAnswered /\ NothingWrong /\ KeysFit
===============================================================================
