----------------------------- MODULE MCProfiles -----------------------------
(***************************************************************************)
(* One run for the parts that share no state: Headset, with the constants of*)
(* the configuration; and, in x, Gateway; Mcap and Hdp; MediaTransport,    *)
(* AudioClients; Input, Network and Serial; Telephony; Ubcsp;              *)
(* Device and GattClient; Hciops and MgmtBackend; SdpServer and SdpLib;    *)
(* Helpers and Btio; AdapterMode.                                          *)
(***************************************************************************)
EXTENDS Headset

VARIABLES part, \* which of them runs
          x     \* its variable, when it is not Headset

Mcap(S) == INSTANCE Mcap WITH
  m <- x, Ids <- {1, 2}, c <- x, MCAP_BTCLOCK_FIELD <- 32, StartClock <- 28, TicksPerMs <- 3, MaxLead <- 2,
  Latency <- 0, SyncLead <- 0, Range64 <- 16, Timestamps <- {5, 15}, MaxTime <- 5, Sides <- S, Environment <- {}

Transport == INSTANCE MediaTransport WITH
  t <- x, Clients <- {"c1", "c2", "c3"}, Environment <- {}

\* A session's change may be pending when another command is caused.
Mode == INSTANCE AdapterMode WITH
  a <- x, Clients <- {"c1"}, Environment <- {"power", "agent"}, MaxRefs <- 2, MaxCommands <- 1

Input == INSTANCE Input WITH i <- x, Environment <- {}

Net == INSTANCE Network WITH n <- x, s <- x, Devices <- {"d1", "d2"}, Environment <- {}

Serial == INSTANCE Serial WITH
  p <- x, r <- x, Ports <- {"p1", "p2", "p3"}, Services <- {"p1", "p2"}, MAX_OPEN_TRIES <- 2,
  Environment <- {}

Sdp == INSTANCE SdpServer WITH
  d <- x, Locals <- {"s1"}, Remotes <- {"r1", "r2"}, Adapters <- {"a1"},
  Registered <- {[adapter |-> "a2", persist |-> FALSE], [adapter |-> "any", persist |-> FALSE],
                 [adapter |-> "any", persist |-> TRUE]},
  MaxHandle <- 2, Attributes <- 2, Room <- 1, MaxTime <- 2, Environment <- {}

Helpers == INSTANCE Helpers WITH
  w <- x, Unique <- {":1.1"}, Names <- {"org.name"}, Signals <- {"signal"},
  Sender <- [signal |-> "org.name"], Ids <- {"i1", "i2", "i3"},
  text <- x, Processes <- {"bluetoothd", "tool"}, Keys <- {"k1", "k2", "k3"},
  Values <- {"v1", "v2"}, Shorter <- {}, Environment <- {}

Phone(C, M, I, E) == INSTANCE Telephony WITH
  t <- x, o <- x, Calls <- C, Levels <- {0, 4, 10}, Modems <- M, Ids <- I, MaxQueue <- 2, Environment <- E

Bcsp(P, R, E) == INSTANCE Ubcsp WITH
  b <- x, Modulus <- 2, MaxPackets <- P, MaxLine <- 1, Restarts <- R, Environment <- E

Gateway == INSTANCE Gateway WITH g <- x, Clients <- {"c1", "c2"}, Environment <- {}

Hdp(C, R) == INSTANCE Hdp WITH h <- x, Clients <- C, Slots <- {1, 2}, Remote <- R, Environment <- {}

Found == {"hsp", "a2dp", "hid"}
ClassesOf == [r \in Found |-> CASE r = "hsp" -> {"hs", "generic"} [] r = "a2dp" -> {"sink"} [] r = "hid" -> {r}]
Device(L) == INSTANCE Device WITH
  dev <- x, LE <- L, Records <- Found, Classes <- ClassesOf,
  Pattern <- [u \in {"hs", "generic", "sink", "hid"} |-> {u}],
  Drivers <- [audio |-> {"hs", "sink"}, input |-> {"hid"}], Audio <- {"hs", "sink"},
  s <- x, Callers <- {1, 2}, Watchers <- {1}, Environment <- {}

Answer(cap, auth, oob) == [cap |-> cap, auth |-> auth, oob |-> oob]
Hci(L) == INSTANCE Hciops WITH
  a <- x, Uuids <- {1}, Names <- {"n1", "n2"}, MaxCommands <- 2, Restarts <- 1,
  disc <- x, Types <- {"BR_EDR", "LE_ONLY", "BR_EDR_LE"},
  pair <- x, Devices <- {"d1"}, Legacy <- L, Kernel <- {255, 4, 5}, Environment <- {},
  Remote <- {Answer(1, 0, FALSE), Answer(1, 3, FALSE), Answer(3, 2, FALSE), Answer(1, 5, TRUE), Answer(0, 4, FALSE)}

Mgmt(I, A) == INSTANCE MgmtBackend WITH
  w <- x, Indices <- I, Devices <- {"d1"}, ANDROID <- A, MaxMessages <- 2, Environment <- {}

Gatt(C, W, D) == INSTANCE GattClient WITH
  g <- x, CharsOf <- C, Watchers <- W, MaxDesc <- D, MaxQueue <- 2, Environment <- {}

SdpLib == INSTANCE SdpLib WITH
  srec <- x, Byte <- 80, MaxAttrs <- 2, Strings <- {1, 60},
  Uuids <- {[w |-> 2, v |-> 4360], [w |-> 4, v |-> 80 ^ 3 + 5],
            [w |-> 16, v |-> [i \in 1..16 |-> i + 1]]},
  q <- x, TidMod <- 2, Base <- 3, MaxSize <- 2, Room <- 2, Handles <- {1}, Environment <- {}

\* Levels, roles and MTUs are asked for, with and without the server's user being asked.
Sockets == INSTANCE Btio WITH
  s <- x, Types <- {"l2cap", "rfcomm", "sco", "l2raw"},
  Args <- {[sec |-> 3], [master |-> 1, imtu |-> 48]}, Environment <- {}

\* Every mixture of capabilities is chosen from; with two of them a stream is played.
Players(C, S) == INSTANCE AudioClients WITH
  u <- x, Clients <- {"c1", "c2"},
  s <- x, Choosers <- {"daemon", "lib", "alsa"}, Capabilities <- C, Mtus <- {672}, Sizes <- S, Environment <- {}
Sink(f, m, b, u, r) ==
  [freq |-> f, mode |-> m, block |-> b, subbands |-> u, alloc |-> {"loudness", "snr"}, min |-> r[1], max |-> r[2]]
Sinks == {Sink(f, m, b, u, r) : f \in {{44}, {16, 44}, {44, 48}}, m \in SUBSET {"mono", "dual", "joint"} \ {{}},
                                b \in {{4}, {4, 8, 16}, {8, 12}}, u \in {{8}, {4, 8}}, r \in {<<2, 53>>, <<10, 18>>}}
Speakers == {Sink({44}, {"joint", "mono"}, {16}, {8}, <<2, 53>>), Sink({48}, {"mono"}, {4}, {4}, <<2, 30>>)}

OtherInit ==
  \/ part = "mcap" /\ Mcap({})!MclInit
  \/ part = "transport" /\ Transport!Init
  \/ part = "mode" /\ Mode!Init
  \/ part = "input" /\ Input!Init
  \/ part = "ipc" /\ Players({}, {})!SocketInit
  \/ part = "netconn" /\ Net!ConnectionInit
  \/ part = "netserver" /\ Net!ServerInit
  \/ part = "port" /\ Serial!PortInit
  \/ part = "proxy" /\ Serial!ProxyInit
  \/ part = "sdp" /\ Sdp!Init
  \/ part = "dbus" /\ Helpers!WatchInit
  \/ part = "textfile" /\ Helpers!FileInit
  \/ part = "calls" /\ Phone({1, 2}, {}, {}, {"calls"})!MaemoInit
  \/ part = "call" /\ Phone({1}, {}, {}, {"calls", "conference", "dial"})!MaemoInit
  \/ part = "network" /\ Phone({1}, {}, {}, {"network"})!MaemoInit
  \/ part = "battery" /\ Phone({1}, {}, {}, {"battery"})!MaemoInit
  \/ part = "modems" /\ Phone({}, {"m1", "m2"}, {1}, {"calls"})!OfonoInit
  \/ part = "modem" /\ Phone({}, {"m1"}, {1, 2}, {"calls"})!OfonoInit
  \/ part = "registration" /\ Phone({}, {"m1"}, {1}, {"network"})!OfonoInit
  \/ part = "window" /\ Bcsp([host |-> 2, chip |-> 0], {}, {"loss"})!Init
  \/ part = "packets" /\ Bcsp([host |-> 1, chip |-> 1], {}, {"loss", "unreliable"})!Init
  \/ part = "restart" /\ Bcsp([host |-> 0, chip |-> 0], {"chip"}, {})!Init
  \/ part = "gateway" /\ Gateway!Init
  \/ part = "csp" /\ Mcap({"slave"})!CspInit
  \/ part = "cspmaster" /\ Mcap({"master"})!CspInit
  \/ part = "hdp" /\ Hdp({1}, TRUE)!Init
  \/ part = "hdpclients" /\ Hdp({1, 2}, FALSE)!Init
  \/ part = "browse" /\ Device(FALSE)!BrowseInit
  \/ part = "browsele" /\ Device(TRUE)!BrowseInit
  \/ part = "devices" /\ Device(FALSE)!RegistryInit
  \/ part = "hciadapter" /\ Hci({})!AdapterInit
  \/ part = "hciscan" /\ Hci({})!DiscoveryInit
  \/ part = "hcipairing" /\ Hci({})!PairingInit
  \/ part = "hcilegacy" /\ Hci({"d1"})!PairingInit
  \/ part = "mgmt" /\ Mgmt({1, 2}, FALSE)!Init
  \/ part = "mgmtandroid" /\ Mgmt({1}, TRUE)!Init
  \/ part = "gatt" /\ Gatt([p1 |-> <<1, 2>>], {"w1"}, 1)!Init
  \/ part = "gattservices" /\ Gatt([p1 |-> <<1>>, p2 |-> <<2>>], {}, 0)!Init
  \/ part = "records" /\ SdpLib!DataInit
  \/ part = "session" /\ SdpLib!SessionInit
  \/ part = "sockets" /\ Sockets!Init
  \/ part = "sbc" /\ Players(Sinks, {})!StreamInit
  \/ part = "play" /\ Players(Speakers, {512, 700})!StreamInit

OtherNext ==
  \/ part = "mcap" /\ Mcap({})!MclNext
  \/ part = "transport" /\ Transport!Next
  \/ part = "mode" /\ Mode!Next
  \/ part = "input" /\ Input!Next
  \/ part = "ipc" /\ Players({}, {})!SocketNext
  \/ part = "netconn" /\ Net!ConnectionNext
  \/ part = "netserver" /\ Net!ServerNext
  \/ part = "port" /\ Serial!PortNext
  \/ part = "proxy" /\ Serial!ProxyNext
  \/ part = "sdp" /\ Sdp!Next
  \/ part = "dbus" /\ Helpers!WatchNext
  \/ part = "textfile" /\ Helpers!FileNext
  \/ part = "calls" /\ Phone({1, 2}, {}, {}, {"calls"})!MaemoNext
  \/ part = "call" /\ Phone({1}, {}, {}, {"calls", "conference", "dial"})!MaemoNext
  \/ part = "network" /\ Phone({1}, {}, {}, {"network"})!MaemoNext
  \/ part = "battery" /\ Phone({1}, {}, {}, {"battery"})!MaemoNext
  \/ part = "modems" /\ Phone({}, {"m1", "m2"}, {1}, {"calls"})!OfonoNext
  \/ part = "modem" /\ Phone({}, {"m1"}, {1, 2}, {"calls"})!OfonoNext
  \/ part = "registration" /\ Phone({}, {"m1"}, {1}, {"network"})!OfonoNext
  \/ part = "window" /\ Bcsp([host |-> 2, chip |-> 0], {}, {"loss"})!Next
  \/ part = "packets" /\ Bcsp([host |-> 1, chip |-> 1], {}, {"loss", "unreliable"})!Next
  \/ part = "restart" /\ Bcsp([host |-> 0, chip |-> 0], {"chip"}, {})!Next
  \/ part = "gateway" /\ Gateway!Next
  \/ part = "csp" /\ Mcap({"slave"})!CspNext
  \/ part = "cspmaster" /\ Mcap({"master"})!CspNext
  \/ part = "hdp" /\ Hdp({1}, TRUE)!Next
  \/ part = "hdpclients" /\ Hdp({1, 2}, FALSE)!Next
  \/ part = "browse" /\ Device(FALSE)!BrowseNext
  \/ part = "browsele" /\ Device(TRUE)!BrowseNext
  \/ part = "devices" /\ Device(FALSE)!RegistryNext
  \/ part = "hciadapter" /\ Hci({})!AdapterNext
  \/ part = "hciscan" /\ Hci({})!DiscoveryNext
  \/ part = "hcipairing" /\ Hci({})!PairingNext
  \/ part = "hcilegacy" /\ Hci({"d1"})!PairingNext
  \/ part = "mgmt" /\ Mgmt({1, 2}, FALSE)!Next
  \/ part = "mgmtandroid" /\ Mgmt({1}, TRUE)!Next
  \/ part = "gatt" /\ Gatt([p1 |-> <<1, 2>>], {"w1"}, 1)!Next
  \/ part = "gattservices" /\ Gatt([p1 |-> <<1>>, p2 |-> <<2>>], {}, 0)!Next
  \/ part = "records" /\ SdpLib!DataNext
  \/ part = "session" /\ SdpLib!SessionNext
  \/ part = "sockets" /\ Sockets!Next
  \/ part = "sbc" /\ Players(Sinks, {})!StreamNext
  \/ part = "play" /\ Players(Speakers, {512, 700})!StreamNext

MCInit == /\ Init
          /\ \/ part = "headset" /\ x = <<>>
             \/ h.ready /\ h.handle /\ OtherInit
MCNext == \/ part = "headset" /\ Next /\ UNCHANGED <<part, x>>
          \/ OtherNext /\ UNCHANGED <<vars, part>>
MCSpec == MCInit /\ [][MCNext]_<<vars, part, x>>

-----------------------------------------------------------------------------

\* pending_mode and the agent's question never point to a session that was freed, however
\* releases, replies, timers, methods and power interleave with a pending change (but for
\* the client's exit and the controller's going off meanwhile, "exit" and "off"); a pending
\* change waits for a command of the kernel, others are refused meanwhile; and the mode
\* that clients are told is the kernel's, unless commands were "crossed".
ModeSafe ==
  part = "mode" => Mode!NoDangling /\ Mode!AgentSessionLive /\ Mode!PendingHasCommand /\ Mode!ModeTold

\* Every request that hdp.c makes of an MCL is called back unless its own user closes the MCL
\* first, while both sides make requests for one MDL at a time, channels end and MCLs are cached and evicted (mcap.c); an MCL is
\* ready for a data channel exactly while an MDL waits for it, and lives exactly as
\* long as a list, its watch, a connection or its user has a reference; no data channel
\* outlives it; no missing MDL or channel is used.
\* The timestamp that a remote master sets holds at the time of the Bluetooth clock it
\* names, whenever the set is carried out (mcap_sync.c).
\* A health channel lives exactly as long as its device, a call or a callback needs it, and so
\* does the application; MainChannel is one of the device's (hdp.c).
HealthSafe ==
  /\ part = "mcap" => /\ Mcap({})!MclAnswered /\ Mcap({})!SetUp /\ Mcap({})!References
                      /\ Mcap({})!DataChannels /\ Mcap({})!NoCrash
  /\ part \in {"csp", "cspmaster"} => Mcap({})!Safe
  /\ part = "hdp" => Hdp({1}, TRUE)!Safe
  /\ part = "hdpclients" => Hdp({1, 2}, FALSE)!Safe

\* What clients have acquired of a transport is what is locked (transport.c), every
\* call waits for something that is under way, and without owners nothing plays; no
\* acquire overlaps a release ("overlap", see the failing run) or is refused.
\* What the clients of the audio socket have opened is what is locked and referenced
\* (unix.c), although streams end, clients hang up and the device is removed; every
\* request is answered, and none calls back for a client that is gone.
\* The State of a gateway is what its channels were when gateway.c last heard of them (it does
\* not watch RFCOMM), whoever connects or asks for SCO waits for something under way, and no
\* channel is kept that nobody accepts, while connects do not overlap and no authorization
\* is denied (gateway.c).
\* An SBC configuration that is chosen is one that both ends have, daemon and clients agree on
\* it, and the packets made from it fit the MTU and lose no frame (a2dp.c, liba2dp.c).
AudioClientsSafe ==
  /\ part = "transport" => Transport!LocksOwned /\ Transport!Answered /\ Transport!Suspended
  /\ part = "ipc" => /\ Players({}, {})!LocksOwned /\ Players({}, {})!Watching
                     /\ Players({}, {})!Answered /\ Players({}, {})!NoFault
  /\ part = "gateway" => Gateway!Shown /\ Gateway!Answered /\ Gateway!Kept
  /\ part = "sbc" => Players(Sinks, {})!Agreed
  /\ part = "play" => Players(Speakers, {512, 700})!Agreed /\ Players(Speakers, {512, 700})!Packed

\* The end of every HID channel that is kept will be seen (input/device.c), and the
\* link is watched exactly meanwhile; Connected is what the kernel's session is, or
\* a watch is about to correct it; a client that connects is answered; no device stops half
\* way ("half") or connects while we do.
\* A client that connects to a network is answered in bounded time, Connected is
\* signalled while somebody watches the kernel's interface, and no channel is used that
\* is gone, unless the time limit is over in the turn in which the client leaves ("timeout",
\* connection.c); the
\* one connection that the access point sets up at a time ends, every interface
\* belongs to a session, and the service is there as long as its client (server.c).
\* A serial port that has an owner is connected or something is under way for it, and
\* one without holds no search, channel or terminal (port.c); a device that holds a
\* proxy gives it back as soon as either of the joined channels ends (proxy.c).
PeripheralsSafe ==
  /\ part = "input" => Input!Watched /\ Input!Shown /\ Input!Answered /\ Input!NoFault
  /\ part = "netconn" => Net!Answered /\ Net!Watched /\ Net!ConnectionNoFault
  /\ part = "netserver" => /\ Net!SetupUnderWay /\ Net!InterfacesOwned
                           /\ Net!Registered /\ Net!ServerNoFault
  /\ part = "port" => Serial!Used /\ Serial!Answered /\ Serial!PortNoFault
  /\ part = "proxy" => Serial!Listening /\ Serial!InUse /\ Serial!ProxyNoFault

\* What the headset is told of the phone is so, whatever calls come, wait, are held, swapped
\* and end meanwhile: the indicators of calls, held calls, calls being set up, service,
\* signal and battery; it rings only while somebody calls, and answers only such calls.
\* Calls are held in maemo6 only, and no signal overtakes an answer ("late", "interfaces").
TelephonySafe ==
  /\ part = "calls" => Phone({1, 2}, {}, {}, {})!MaemoTold
  /\ part \in {"call", "network", "battery"} => Phone({1}, {}, {}, {})!MaemoTold
  /\ part = "modems" => Phone({}, {"m1", "m2"}, {1}, {})!OfonoTold
  /\ part = "modem" => Phone({}, {"m1"}, {1, 2}, {})!OfonoTold
  /\ part = "registration" => Phone({}, {"m1"}, {1}, {})!OfonoTold

\* Over a serial line that loses and garbles frames, packets reach the chip once and in order, and
\* a reliable one that is reported as sent has arrived (ubcsp.c); while the link is not
\* active, the packet that brings it up will be sent, although the chip restarts, but not while
\* the answer to its last CONF is owed ("owed").
ChipLinkSafe ==
  /\ part \in {"window", "packets"} => Bcsp(<<>>, {}, {})!InOrder /\ Bcsp(<<>>, {}, {})!SentWasPut
  /\ part \in {"window", "packets", "restart"} => Bcsp(<<>>, {}, {})!Establishes /\ Bcsp(<<>>, {}, {})!Sends

\* Whoever asks for the services of a device is answered, one lookup at a time, and the
\* services and drivers that are shown are the ones found and stored (device.c, glib-helper.c).
\* A device that a client has removed leaves nothing that would bring it back, whoever waits for its
\* disconnection is answered, and no timer or agent keeps using it (adapter.c, device.c).
\* The GATT client's bearer lives as long as an operation or packet needs it, and its clients
\* are answered (attrib/client.c).  No link is lost in a search ("hangup"), or ends with packets
\* unsent or is replaced before its end was told ("unsent", "reconnect").
DevicesSafe ==
  /\ part = "browse" => Device(FALSE)!BrowseSafe
  /\ part = "browsele" => Device(TRUE)!BrowseSafe
  /\ part = "devices" => Device(FALSE)!RegistrySafe
  /\ part = "gatt" => Gatt([p1 |-> <<1, 2>>], {"w1"}, 1)!Safe
  /\ part = "gattservices" => Gatt([p1 |-> <<1>>, p2 |-> <<2>>], {}, 0)!Safe

\* The management socket (mgmtops.c, manager.c): what is registered comes to what the kernel has,
\* and whoever waits is answered.  The back end that speaks HCI itself (hciops.c): an adapter is initialised once and its
\* class, name and inquiry data come to what was asked for last; discovery follows the
\* controller and no scan goes on that nobody ends; bondings are answered, no key is made
\* that nobody wanted or had to confirm, and what is stored fits what is known; no discovery
\* is stopped before it began, while the timer stops it or between inquiry and scan.
BackendsSafe ==
  /\ part = "hciadapter" => Hci({})!AdapterSafe
  /\ part = "hciscan" => Hci({})!DiscoverySafe
  /\ part = "hcipairing" => Hci({})!PairingSafe
  /\ part = "hcilegacy" => Hci({"d1"})!PairingSafe
  /\ part = "mgmt" => Mgmt({1, 2}, FALSE)!Safe
  /\ part = "mgmtandroid" => Mgmt({1}, TRUE)!Safe

\* Remote clients of the SDP server get their answers as they were made, in however many
\* parts and whatever happens to the records meanwhile (sdpd-request.c); the records of a
\* local client go with it and no others do (sdpd-database.c, sdpd-service.c).  A record that is
\* generated and extracted again is the same, and so is a copy; a session's calls get the whole
\* answer of their own request (lib/sdp.c).  No two answers are cached within one "second", and
\* no answer has too "many" handles.
SdpSafe ==
  /\ part = "sdp" => Sdp!AnswersWhole /\ Sdp!Collected
  /\ part = "records" => SdpLib!DataSafe
  /\ part = "session" => SdpLib!SessionSafe

\* A signal calls each watch that was there and was not removed before its turn, once,
\* whatever the functions add and remove meanwhile, and the filters and the connection's
\* filter are there exactly as long as something is watched (gdbus/watch.c), where a signal
\* matches one filter.
\* A file of keys holds the last value put for every key whenever it is not locked, and each
\* process reads just that, while no process crashes and the disk has room (textfile.c).
\* The callback of a socket is called once and not after its channel has gone, with the options
\* in force that were last asked for, while no descriptor is used again at once (btio.c).
LibrariesSafe ==
  /\ part = "dbus" => Helpers!CalledOnce /\ Helpers!ListsWhole
  /\ part = "textfile" => Helpers!Stored
  /\ part = "sockets" =>
       /\ Sockets!CalledOnce /\ Sockets!Held /\ Sockets!Confirmed /\ Sockets!Configured /\ Sockets!Explained
=============================================================================
