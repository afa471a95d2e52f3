# A TLA+ model of BlueZ

This directory holds TLA+ modules for parts of the BlueZ 4 daemon (`bluetoothd`)
and of the Android audio client that comes with it, TLC configurations that check
them on small instances, and TLAPS proofs of the main invariants of the SIM Access
server, AVDTP, device discovery, the audio device, the headset, AVRCP, the ATT bearer
and the Android client.
`PROJECT.json` maps definitions to the lines they model; a helper whose lines lie
within those of the operation that uses it has no entry of its own.  Source paths
below are relative to the repository.

## 1. The system

`bluetoothd` is one process with one GLib main loop.  Nothing in it runs in
parallel: each socket watch, timer, idle source, D-Bus call and D-Bus watch is
handled to its end before the next one begins.  What makes it hard is that an
operation is spread over many such events (a command goes to the kernel or to
the peer and the answer comes later), that the order of events is not under its
control, and that objects are shared by reference counts and raw pointers that
timers, callbacks and queues keep.  The Android client (`audio/liba2dp.c`,
`audio/android_audio_hw.c`) is different: it runs in the media server with three
threads, mutexes and condition variables.

### Components, state, operations

| Component | State it keeps | Operations | Works with |
|---|---|---|---|
| Adapter (`src/adapter.c`) | power, mode, scan mode, discovery state, sessions of D-Bus clients, found and out-of-range devices, timers | SetProperty, Request/ReleaseSession, Start/StopDiscovery, CreateDevice, events of the kernel | backend (calls and events), devices, agent, storage |
| Device (`src/device.c`) | pairing, trust, connection, bonding request, authentication request, service browsing | CreatePairedDevice, DiscoverServices, Disconnect, RemoveBonding | adapter, agent, SDP client, profile drivers |
| Agent (`src/agent.c`) | one outstanding request with a callback | PIN, passkey, confirmation, authorization, cancel | the D-Bus agent, device, adapter |
| Events (`src/event.c`) | none | translate backend events to adapter, device and storage | backend, adapter, device |
| Management backend (`plugins/mgmtops.c`) | controllers and their last known settings | commands to and events from the kernel | kernel socket, adapter, events |
| HCI backend (`plugins/hciops.c`) | command queues, connections | the same over raw HCI | not built: `plugins/builtin.h` leaves it out |
| SDP server (`src/sdpd-*.c`) | records, access list, continuation states | search, attribute, register, update | sockets, adapter |
| Attribute server, GATT (`src/attrib-server.c`, `attrib/`) | attribute database, clients' MTU, request queues, pending callbacks | ATT requests, notifications, discovery | L2CAP, SDP records, device |
| AVDTP (`audio/avdtp.c`) | session per device, reference count, request and queues, streams, timers | Discover, Set Configuration, Open, Start, Suspend, Close, Abort in both roles | L2CAP, A2DP, authorization |
| A2DP, sink, source (`audio/a2dp.c`, `sink.c`, `source.c`) | SEPs, stream setups with lists of callbacks, connection state | config, resume, suspend, cancel, lock | AVDTP, IPC, media API |
| Media API (`audio/media.c`, `transport.c`) | endpoints with pending D-Bus calls, transport owners and locks | RegisterEndpoint, Acquire, Release | A2DP, headset, D-Bus clients |
| Audio IPC (`audio/unix.c`) | clients, their state and lock | GET_CAPABILITIES, OPEN, SET_CONFIGURATION, START_STREAM, STOP_STREAM, CLOSE | A2DP, headset, gateway; the library below |
| Headset, gateway (`audio/headset.c`, `gateway.c`) | RFCOMM and SCO channels, pending connects, call indicators | Connect, Play, Stop, AT commands | telephony, authorization |
| AVRCP (`audio/control.c`) | AVCTP channel, transaction labels, metadata requests | passthrough, metadata | sink, L2CAP |
| Audio device (`audio/device.c`, `manager.c`) | overall state, pending authorizations | connect, disconnect, authorize | all of the audio above |
| Android A2DP library (`audio/liba2dp.c`) | state, command slot, two descriptors, a mutex, two condition variables | a2dp_init, a2dp_write, a2dp_stop, a2dp_set_sink, a2dp_cleanup | Audio IPC |
| Android audio HAL (`audio/android_audio_hw.c`) | output stream: flags, ring buffer, buffer thread | out_write, out_standby, suspend, enable, close | the library |
| SIM Access (`sap/`) | one connection, guard timer, the driver's SIM state | connect, disconnect, card requests, guard timeout | RFCOMM, SIM driver, D-Bus |
| MCAP, HDP (`health/`) | control and data channels, clock synchronisation, applications | MD_CREATE/RECONNECT/DELETE/ABORT, sync | L2CAP, D-Bus |
| PAN, HID, serial (`network/`, `input/`, `serial/`) | connections, servers, ports and proxies | Connect, Disconnect, incoming connections | kernel modules, authorization |
| Storage (`src/textfile.c`, `storage.c`) | key files | get, put, delete | everybody |
| D-Bus helpers (`gdbus/`) | name watches, interfaces, pending security checks | add, remove, notify | everybody |

The codec (`sbc/`), the library of socket and SDP encoders (`lib/`), the tools,
tests, compatibility daemons and plug-ins of other sound systems are not part of
the daemon's control logic.  `PROJECT.json` lists every part with its status.

### What is hard, and what makes each part correct

* Stale pointers: a stream, session, found device or driver pointer freed by one
  handler while a timer, queue or callback still holds it (AVDTP, discovery,
  SAP).  Correct means that nothing refers to what has been freed.
* Reference counts over several holders and the loss of the connection (AVDTP).
* Answers, timeouts and commands of the other side in any order: simultaneous
  Start, an Abort over a pending request, a transport channel that never comes
  (AVDTP); an event that answers a command sent before the last decision
  (discovery); an answer after the receive timeout (library).
* Callbacks that change the list they are called from (D-Bus watches), and answers
  that name something by a number that is used again: handles of SDP records,
  descriptors, the second in which an answer was cached.
* Half of a pair fails: one of two HID channels, one of two directions of a media
  transport, headset and sink of one audio device, a file that is cut before its
  rest is written again.
* What must happen in the end: a closing stream is freed, a graceful disconnect
  ends, discovery repeats while a client wants it and stops afterwards, the adapter
  does not stay discoverable, Connect is answered, a blocked write returns, a
  cleanup ends its thread.
* Threads: state read outside the mutex, signals that nobody waits for, flags
  given up with a lock (library, HAL).

The list under `hazards` in `PROJECT.json` names each at its line with the
properties that would catch it.

## 2. The modules

A handler of the main loop is one action.  Where C functions call each other on
shared structures, each function is an operator from one
world record to the next, under the name of the C function, and an action
installs the world that its handler computes, so that trailing calls are part of
the action.  In the threaded client an action is what a thread does between two
points where another can interfere.  Operators with a suffix after the name of
another (`sdp_svcdb_collect_all_one`) are its mutants, see section 5; nothing else
uses them.

Most modules have a constant `Environment`, a set of names of things that may happen
besides, or at moments at which the code is known not to expect them.  With the set
that a passing run uses, the invariants hold; each name left out is a situation in
which the code does break one of them, found by adding the name.  So the set says
exactly under which use of the component its invariants are claimed, and section 7
lists what is left out.

### SapServer (sap/server.c, sap/sap-dummy.c)

`conn` is struct sap_connection with the phase of its channel, `drv` the globals
of the dummy driver, `bus` the last value of Connected that was signalled, `sent`
the messages of the last step.  Actions: a connection comes, is authorized and
accepted; CONNECT, DISCONNECT and the card requests of a client; broken messages;
the guard timer; the channel going away; Disconnect and GetProperties on D-Bus;
the test interface (ongoing call, maximal size, disconnect, card status);
unregistering.  One registration is modelled: `sap_exit` leaves the driver's
D-Bus interface registered, so a second `sap_init` fails.  After
`sap_server_unregister` the model ends, because the watch, the timer and the
driver may still refer to the freed connection.  The first case of the test
interface's card status cannot be reached, since the method requires a connected
SIM first.

### Avdtp (audio/avdtp.c)

One session with one device and the streams of its local SEPs, in both roles.
`s` is struct avdtp, `sep` the local SEPs with the stream each owns, `cfg` a Set
Configuration that a2dp has not answered yet, `users` the references of sink,
source and a2dp setups, `old` the timers of a stream whose number was overwritten in
`stream->timer`, as a repeated Open or Close does.  Every API function, command handler, response and reject
parser, timer and connect callback is an operator; the actions are the API calls,
the peer's commands and answers, timeouts, channels connecting, failing and being
lost, authorization with its retry timer, and registering anew.

Assumptions on the other parties, each from how they use avdtp.c: a2dp opens a
stream once, suspends only started ones, configures no second stream of a type
and never closes immediately; users do not ask for anything while the session is
disconnected and an authorization is to be retried.  The peer sends one command
at a time, repeats a command whose timer still runs only for the SEPs of `Repeats`, and
one at a time, does not accept what it has aborted, and answers only
GET_ALL_CAPABILITIES and DELAY_REPORT with a general reject.  The idle source of an internal codec runs before the session's
low-priority watch.  When the session is freed, that source and the callback of an
accept are left, as `avdtp_unref` removes neither; what they do with the freed session,
and an overwritten timer with a freed stream, is undefined and not followed.  Transaction labels are abstracted: an answer to a cancelled
request is ignored, as the label mismatch makes it.  Capability lists,
fragmentation and the layout of messages are left out.

### LibA2dp (audio/liba2dp.c)

Three threads: T is `a2dp_thread`, W the writer in `a2dp_write`, C the control
calls.  `state`, `command`, `stream` and `server` are fields of struct
bluetooth_data; `tpc`, `wpc`, `cpc` say where each thread is.  T holds the mutex
during a whole exchange with the daemon, whose messages are single steps (`op`,
`step`); W and C read the state without it, as the code does.  Signals are lost
when nobody waits.  bluetoothd is external: it answers, refuses, answers late, or
goes away.  Encoding and pacing of audio are left out.

### A2dpHw (audio/android_audio_hw.c)

F is AudioFlinger's thread in `out_write` and `out_standby`, B the buffer thread,
C the binder thread that suspends, enables, disables and closes.  The ring is
`rd`, `wr`, `ready`; `write_busy` marks B inside `a2dp_write`.  `lock` never
stays held over a step, since the only wait under it gives it up; `buf_lock` is
held by F over its copy loop and by B between two writes (`HeldByF`, `HeldByB`).
`out_standby_stream_locked` waits for `write_busy` up to five times and then goes on
(`WaitOver`, "hang").  `hasty` records what did not wait for the write under way: a
second caller of standby, one that gave up, `out_write` resetting the ring, a stream that
was disabled and enabled again during one `out_write`.  `Scenarios` says which calls
come in one behaviour; the passing run has one with all of them.

### Discovery (src/adapter.c, src/event.c, src/device.c, plugins/mgmtops.c)

One record `w` holds the adapter's discovery state, the clients' session
references, the scheduler's timer, `found_devices` with name status and transport,
`oor_devices` as pointers into it, a bonding, the commands on their way to the
kernel and what the kernel is doing.  `adapter_set_state` is one operator per new
state (`SetIdle`, `SetDiscov`, `SetResolvname`, `SetSuspended`).  A timer that
`scheduler_id` no longer names is counted in `orphans`: `g_timeout_add` over a
live id forgets it.  The kernel is external: it executes commands in order, ends a
discovery by itself, answers name requests, and what it refuses is only logged.

### AdapterMode (src/adapter.c, src/agent.c, plugins/mgmtops.c)

`a` holds the adapter's mode, scan mode, timeouts and timers, the sessions of
RequestSession, `pending_mode`, the agent's question, the stored modes, what mgmtops
believes of the controller, and the kernel with the commands on their way to it.
Actions: SetProperty, RequestSession and ReleaseSession, answers of the agent,
clients that leave, the two timers, power and scan changes by others, the kernel
executing a command.

### Bonding (src/device.c, src/agent.c, src/event.c, src/adapter.c, plugins/mgmtops.c)

Per device `bonding_req`, `authr`, `browse` and the two timers, the device's and the
adapter's agent with the one request each has, the calls on D-Bus that an agent has
not answered, and the kernel's pairing.  An agent's call and its pointer to the
request are kept apart, since `agent_cancel` cancels only what the pointer names: a
call that outlives its authentication request is "stale".

### AudioState, Headset, AudioDevice

`AudioState` is the abstract specification: the transitions of State that
`doc/audio-api.txt` lists.  `Headset` (audio/headset.c with what manager.c, main.c
and unix.c do to it) and `AudioDevice` (audio/device.c) are shown to implement it by
`INSTANCE AudioState WITH state <- ...`, the last State that was signalled;
AudioDevice in turn relies on the headset's states being those.  `h` holds the
RFCOMM and SCO channels, the search, the pending connect with its callbacks, the
locks of stream users and the ring timer; `d` the device's state, its timers, the
method calls that wait, the set of services that wait for authorization (headset, sink,
control and gateway share one), the control channel, and AVDTP's timer that asks again.
`sink_shutdown` ends the sink at once, later, or never, as it may have nothing to close and
its result is not looked at.

### A2dp (audio/a2dp.c, audio/sink.c)

The setup of one session with its reference count, callbacks, idle sources and
timers, the end point, and the sink on top of it.  The AVDTP session below is external:
it answers, rejects or loses the requests.  There is one end point, with the daemon's own
codec and no media endpoint of D-Bus.

### MediaTransport (audio/media.c, transport.c)

Owners, locks and requests of one transport and its endpoint.

### AudioClients (audio/unix.c, a2dp.c, liba2dp.c, pcm_bluetooth.c)

First part: the clients of the audio socket with their locks, references and pending
requests, the other side of LibA2dp's socket.  Second: the SBC configuration that is
chosen from the capabilities of both ends (`select_sbc_params`), what the clients make
of it, and how they pack frames into packets.

### AttribServer, GAttrib (src/attrib-server.c, attrib/gattrib.c, attrib/gatt.c)

AttribServer: the database, the servers on D-Bus above it, the operation of the
channel that asks one after the other, client configurations, the indication of
changed services.  A write that a server has not answered when the link is lost or its
time is over may have been taken (`unheard`).  GAttrib: the queue of packets at both ends of a bearer, where
requests and responses share one queue, with its references and its timer.

### Control (audio/control.c)

The AVCTP channel, the commands that wait for the player, registered notifications
and long answers.  `peer` is what the remote controller waits for.

### Mcap (health/mcap.c, with health/hdp.c as its user)

One MCL in both roles with its MDLs: requests of both sides at once, the control
channel closing, the cache and eviction.

### Input, Network, Serial

The two channels of a HID device (input/device.c, server.c); a network connection of
a client and the access point (network/connection.c, server.c); serial ports with
search, channel and terminal, and a proxy with its two channels (serial/port.c,
proxy.c).  The kernel's sessions, interfaces and terminals are external.

### SdpServer (src/sdpd-*.c)

`service_db`, `access_db` and `socket_index`, the daemon's own records, the cached
answers and how far each remote client is with its own.  A record is an owner and a
version of its attributes.

### Helpers (gdbus/watch.c, src/textfile.c)

Watches on D-Bus: the filters with their callbacks, those already called for the present signal, the
watch on the name of a signal's sender, and GetNameOwner calls under way.  A signal goes
to the first filter that matches it.  A function that is called may add and remove any
watch.  Freed callbacks' memory is used again, as an identity of `Ids`.

Files of keys: a file as its sequence of lines, the flock, and each process between two system calls
of `write_key`.  `stored` is what the file is meant to hold.

### Telephony (audio/telephony-maemo6.c, telephony-ofono.c)

What the phone's call daemon signals, turned into the indicators and the ringing that
a headset sees, and the headset's requests turned into requests to that daemon.  The
daemons are external; their messages come in order, later than what they tell.

### Ubcsp (tools/ubcsp.c)

Two BCSP engines over lines that lose and garble frames: link establishment, reliable
packets with a window of one, unreliable ones.

### Gateway (audio/gateway.c)

The Handsfree role: RFCOMM, the agent that gets its descriptor, SCO, and the calls
and streams that wait for them.  The remote gateway may close RFCOMM: the daemon has no
watch on it and goes on as before.

### Hdp, and the second part of Mcap (health/hdp.c, hdp_util.c, mcap_sync.c)

Clock synchronisation: the Bluetooth clock, a field that wraps, the timestamps and timers of the
slave and the requests of the master.  Hdp: one application and one device with data
channels, which clients create, acquire, destroy and echo in stages; channels are
counted references.

### Device (src/device.c, src/adapter.c, src/glib-helper.c)

First part: how the services of one device are looked up, and how drivers, UUIDs and
storage follow.  Second: how devices of an adapter are created, disconnected,
removed and created again from storage.

### Hciops (plugins/hciops.c)

The backend over a raw HCI socket, one part for each concern: initialisation and
the completions of commands; inquiry and LE scan; connections, keys and pairing.

### MgmtBackend (plugins/mgmtops.c, src/manager.c)

Controllers that come and go on the management socket, and the order in which the
daemon learns of them.

### GattClient, GattProcedures (attrib/client.c, attrib/gatt.c, src/attrib-server.c)

GattClient: the references of one GAttrib that the connection, the operations and the
packets of all services share.  GattProcedures: each procedure of the client against
the handlers of the server, step by step, over databases whose values are shorter
than, as long as and longer than what the MTU lets through.

### SdpLib (lib/sdp.c)

First part: a service record as a tree of data elements, sized, generated, extracted and
copied, with bytes of few values so that the longer length fields are reached.  It is
an algorithm, written with RECURSIVE operators, which is why nothing is proved about
it.  Second: a session's calls, answered in fragments, synchronously or by callback.

### Btio (btio/btio.c)

One channel from `bt_io_connect` or `bt_io_listen` to its callback, its socket
options, and the descriptor that the kernel gives and gives again.

### Root modules

Components that share no state are checked side by side in one run, of which each
behaviour belongs to one: `MCAvdtp` (three instances of Avdtp), `MCAdapter`,
`MCProfiles`, `MCAndroid` and `Services`.  Their INSTANCEs give the constants, and
their properties are the conjunctions of what each component promises.  A component
that is proved about is extended by its run's root module and states its properties
itself (`SessionSafe`, `ControlSafe`, `AttSafe`, `HwSafe`, `HeadsetSafe`, `DeviceSafe`), so that theorem and run name the same
definition.

## 3. Runs

| Run | Parts and bounds | States | Shows |
|---|---|---|---|
| `sap` | SAP_BUF_SIZE 2, sizes 1..3 | 440 | guard timer runs exactly when needed, SIM held exactly during a session, no request stuck, each message answered once, a graceful disconnect ends |
| `avdtp` | one SEP with delay reports, 2 users, queue 1; two SEPs of an acceptor, one of a D-Bus endpoint; and an acceptor whose peer repeats Open and Close | 732,071 | `SessionSafe`: no dangling stream, references counted, transport watched, timers; `AcceptorSafe`, the same of the acceptors; `AbortFirst`; `StreamsEnd` |
| `android` | library with all controls; HAL with a ring of 3 frames, writes of 2, and standby, suspend, disable, enable, close, stalls and a hanging write in one scenario | 82,720 | `Consistent`: descriptors match the state, the daemon agrees, waiters are served; `CallsEnd`; `HwSafe`: ring consistent and library not freed under a write but for the cases that `ResetOnly` and `LibKept` name; `HwWaitsEnd` |
| `adapter` | Discovery: 2 clients, 2 devices; Bonding: 1 device, 4 kinds of question; AttribServer: a database of 4 and two servers of 3 attributes; GAttrib: 2 requests of each end; GattProcedures: MTU 23, a name of 44 bytes, values of 20, 2 changes; Control: 2 labels | 1,260,499 | `TypeOK`, `OorInFound` and `Resolving` (Discovery), `BondingSafe`, `GattListsAll` (AttribServer, GattProcedures), `GattSession` (AttribServer), `AttSafe` (GAttrib), `ControlSafe` (Control) |
| `profiles` | Headset: 2 clients, 1 user; Gateway: 2 clients; Mcap: 2 MDLs, a clock of 32 values; Hdp: 2 channels; 3 clients of a transport; 2 of the audio socket; SBC: capabilities of both ends; 2 network devices; 3 ports; telephony: 2 calls; BCSP: sequence numbers modulo 2; devices of BR/EDR and LE with 2 records; HCI: 2 UUIDs, 2 devices; management: 2 controllers; 2 remote SDP clients, 2 records of 2 attributes; 3 watches on 3 filters; 2 processes, 3 keys, 2 values; sockets of each type; modes: 1 client with 2 references, others' events while one change is pending | 2,272,567 | `HeadsetSafe` (Headset), `Documented` (refinement), `HealthSafe` (Mcap, Hdp), `AudioClientsSafe` (MediaTransport, AudioClients, Gateway), `PeripheralsSafe` (Input, Network, Serial), `TelephonySafe`, `ChipLinkSafe` (Ubcsp), `DevicesSafe` (Device, GattClient), `BackendsSafe` (Hciops, MgmtBackend), `SdpSafe` (SdpServer, SdpLib), `LibrariesSafe` (Helpers, Btio), `ModeSafe` (AdapterMode) |
| `services` | modes: 1 client with 2 references; discovery: 1 client, 2 devices; audio device with headset, sink and control; A2DP with 3 requests | 84,287 | `ModeEnds` (AdapterMode), `Rediscovers`, `DeviceSafe`, `Documented` (refinement), `DeviceAnswered` (AudioDevice and the sink's Connect), `A2dpSafe` |

The comment at each property says what it promises.  The bounds are small but reach
what the properties are about.  SAP: sizes below, at and above the limit.  AVDTP: two
users give a reference count that falls to one while somebody still holds the
session; a queue of one behind a request in flight is what an Abort has to overtake;
two SEPs are needed for one to take the other's pending_open.  Modes: in `profiles` one
command is on its way to the kernel when clients, the agent, timers and the power change
things, so that a change is refused as being under way or its session released meanwhile;
`ModeEnds` is checked in `services` where each command is executed before the next event.  HAL: three frames and
writes of two make the ring wrap, fill and be written in two parts.  Discovery: two
devices so that one name is pending while another is found; `MaxCommands` and
`MaxOrphans` bound commands on their way and forgotten timers; one of each already
gives the overtaking cases.  AttribServer: 16 and 128 bit UUIDs such that answers
fill up and end early inside the database, at its border and between servers.
Mcap: two MDLs for one to be set up while another is connected or deleted.
MediaTransport: three clients, for reading, for writing and for both.  SdpServer:
answers of up to four parts.  Watches: three watches, so that one may remove the one
before and the one after it.  Files: three keys, so that a line has lines on both
sides.

Deadlock is checked everywhere but in `sap` and in the HAL's failing run: SAP stops
after unregistering and the HAL after closing.

### What the failing runs say

* `sap_get_properties`: `get_properties` casts its data to struct sap_connection;
  the interface is registered with struct sap_server.
* `avdtp_auth_fails`: `avdtp_authorization_handler` and `avdtp_confirm_cb` call
  `avdtp_unref` for a reference they did not take.
* `a2dphw_cleanup`: `out_standby_stream_locked` returns at once when standby is
  set, although another thread still waits in it for `write_busy`; disabling then
  frees the library under `a2dp_write`.
* `discovery_told`: `adapter_resume_discovery` sets IDLE whether or not the
  discovery was suspended.
* `headset_abandoned`: a channel that is lost leaves the connect pending; State later
  goes from disconnected to connected without a channel.
* `transport_overlap`: the end of a suspension unlocks the stream under the client that
  has acquired the transport meanwhile.

## 4. Fairness

* SAP: the guard timer fires and a channel that was shut down is reported gone.
  Clients promise nothing.  There is no eviction of idle clients to prove: each
  refused CONNECT_REQ restarts the timer.
* AVDTP: no request stays in flight for ever (its timer ends it if the peer does
  not answer), the close timer of a stream fires, and a transport channel that is
  being connected comes up or fails.  The peer promises nothing.  Each is stated as
  `[]<>` of the condition that the timer or callback undoes, which TLC evaluates
  faster than weak fairness of the large actions.
* Library: T and W make progress, a condition wait with a timeout ends, RECV_TIMEOUT
  ends a receive.  bluetoothd promises nothing.
* HAL: both threads make progress and `a2dp_write` returns, as the library shows.
* Discovery: the kernel executes commands, ends discoveries and answers name
  requests, timers fire, a bonding ends.
* Modes: the kernel executes commands.  The two timers have strong fairness: a timer
  that is started again and again fires if it is left running often enough.
* Audio device: its timers fire, the authorization is answered (by the agent or its
  timeout), a headset that connects and a sink that connects or disconnects come to
  an end.  `DeviceAnswered` names its exceptions: a remote end that disturbs for ever, a
  headset that is up while nothing is scheduled for the sink, a client that calls
  Connect on the headset itself, which clears `auto_connect`, and a sink that is shut down
  and does not begin to close (`sink_shutdown` returns FALSE, which device.c does not look
  at), with which both Connect and Disconnect may stay open.
* A2DP: the session's connect callback, its answers and the idle sources and timers
  come.

## 5. Mutants

Each property of each passing run has a mutant: an operator beside the one it
distorts, with the change a bug would make (a dropped guard, a missing reset, a
forgotten timer).  With the mutant in place TLC finds the property violated.

## 6. Proofs

`SapServerProofs` proves for every buffer size and every set of message sizes, from
`SizeAssumption` only:

* `RestInvariant`: `Spec => []IInv`, the inductive invariant;
* `TypeCorrect` (TypeOK, which no run checks apart), `GuardTimer`, `SimOwnership`,
  `NoRequestStuck`: TypeOK, GuardTimerRuns, SimHeldIffSession and NoStuckRequest are
  invariants;
* `Answers`: AnsweredOnce, a property of the steps.

None of the last three invariants is inductive alone.  That the SIM is held exactly during a
session needs the driver's pointer, the phase of the channel and the timer
together: the handlers test one and change another.  `IInv` says which
combinations of connection state, phase, timer, pending request and driver state
exist between two events.  Inside a handler the world passes through states that
are not resting ones; there is a lemma for each operator that states what it does to
a world that satisfies its caller's condition, and the proof of each action
chains the lemmas along the calls of its handler.  For `Answers` a second set of
lemmas follows what each function sends; that a request to connect is answered needs
the invariant too, since `sap_connect_rsp` drops an answer in any other state.

`DiscoveryProofs` proves for every set of clients and devices and every bound, from
`ConstantsAssumption` (of which it uses that "start" and "stop" are not devices):

* `OorTheorem`: OorInFound, and `ResolvingTheorem`: Resolving, are invariants;
* `TypeTheorem`: TypeOK is an invariant.

Their common strengthening `IInv` adds the types of the list and of the socket's
contents, and that an adapter that is down is idle with no discovery running.  The
last is why a name request is never dropped while a resolution waits for it: the
kernel ignores the request only when the adapter is down.  `Base` is the part of it
that every function of adapter.c preserves, called in any state; that a name is on
its way holds again only at the end of SetResolvname, of remote_name and of
btd_adapter_stop, and their lemmas say so.

The types are an invariant by themselves but for two counters: a session never loses a
reference it does not have, and no source of `discovery_cb` fires that is not counted.
How many sources can be forgotten has no bound: TypeOK once had one, which held with the
run's constants only, and with five commands on their way TLC finds more.

`AvdtpProofs` proves for every set of SEPs, every number of users and queues of every
length, under the hypothesis `Authorized`:

* `SessionTheorem`: SessionSafe is an invariant;
* `AbortTheorem`: every step satisfies AbortFirst.

`Authorized` says that an authorization does not fail, and that where it can be busy
nobody keeps a reference over the loss of the connection.  The code needs both:
`avdtp_authorization_handler` drops a reference that nobody took when it fails (the run
`avdtp_auth_fails`), and its retry timer does so after a loss.  All instances of the
run `avdtp` satisfy it.  The theorem covers a peer that repeats Open or Close and the
timer that is overwritten by it, up to the end of its stream.  The inductive invariant `Good` is about a world record, so that
it can be claimed between two calls of one handler.  `Sess` is about the session: the
reference count is that of its holders and one, and each state of the signalling channel has
its channel, watch and timer.  `Flow` is about requests and streams.  A SEP without a
stream has nothing that refers to it (`NoneLeft`), one with a stream belongs to a
connected session (`Live`); a stream that is open, starts or is asked to start or suspend has a watched
channel (`Watched`), which is stronger than what SessionSafe says of open streams because
the answer may come after another event; and a stream that starts has its Start in
flight or queued (`Starts`).  `Named`: a request about a stream names it twice, and only
DISCOVER, the two capability requests and an Abort whose stream went have none; without it
an answer could be applied to a SEP that nobody asked about.  There is a lemma
for each operator of avdtp.c and one for each action.

AbortFirst is about a step, and the requests that a step may send were queued in earlier
ones.  `Order` says what they are: what overtakes others about a stream is an Abort or a
delay report (`Overtakes`), and a stream that we abort has its Abort in flight or among those
that overtake, with nothing but these two in flight about it (`Aborting`).  It is
preserved by operators, in the middle of a handler too, because `avdtp_abort` asks before
it marks the stream and `cancel_request` takes the old request away before it asks.  A step
also may not forget the mark of a stream that stays (`Follows`); a stream that comes
where another went (`Attach`) finds nothing about it.

The attempt corrected the model in one place: two guards of `send_req`'s case distinction
held at once for a session that is disconnected with an Abort still in
`session->req`, and TLC had always taken the first.

`ControlProofs` proves for every set of transaction labels, watched events and commands,
under the hypothesis `Valid`:

* `ControlSafeTheorem`: ControlSafe is an invariant.

`Valid` says that the player's settings are valid: `update_current_values` otherwise
answers no notification.  ControlSafe is inductive with the types of its fields; what
a lemma per operator has to show is that each handler answers what it clears.

`GAttribProofs` proves for every number of requests, users and security levels:

* `AttSafeTheorem`: AttSafe is an invariant: references are counted, no queue is stuck, and every
  callback gets the response to its own request, once.  Of an end that has failed to write a
  packet, or has written one again at a higher security level, only the last is claimed:
  gattrib.c has lost a reference then.

The inductive invariant has two parts.  `Local` is about one end: only the head of its queue
has been written, its watches fit that head, and the identifiers of what waits and
what was answered are all different.  `Flight` relates the two ends: of a request that was written
and not answered, exactly one of request and response is on the way or in the other
end's queue, with its identifier, until one of them closes the link.  That the answers come back in
order, which `received_data` relies on, follows from there being only one.

`AudioDeviceProofs` proves for every set of services, with and without AutoConnect, and
in every environment:

* `DeviceSafeTheorem`: DeviceSafe is an invariant;
* `DeviceDocumentedTheorem`: `Spec => Documented`, the device implements AudioState.

DeviceSafe is nearly inductive.  What has to be added is that a service that waits for
authorization, or asks again, is connecting (otherwise its answer could move a device
that is disconnected), that the agent is asked only while nothing is authorized, and that
without a sink no timer sets one up.  DeviceSafe itself has one exception, which the code
makes: an authorization that only a gateway, or a control channel that failed before it was
connected ("unfinished"), asked for is kept, since nothing clears it.  The callbacks of headset and sink are taken apart as in the
code: each is a lemma on what `device_set_state` and its callers do to any world that
satisfies part of the invariant, with the transition of State they allow (`Rises`,
`Falls`); the refinement follows from the same lemmas.

`HeadsetProofs` proves for every set of clients and of stream users, with and without
ringing in band, under the hypothesis `Expected`, `Environment \subseteq {"streams", "device"}`:

* `HeadsetSafeTheorem`: HeadsetSafe is an invariant;
* `HeadsetDocumentedTheorem`: `Spec => Documented`, the headset implements AudioState.

`Expected` is the environment of the passing run.  It is needed: with each other name
headset.c reaches a state that it does not provide for (section 7; the run
`headset_abandoned` shows one).  The inductive invariant `Good` adds to HeadsetSafe what each state
of an attempt has of search, channel and question to the agent (`Attempt`: one of them
at a time), how far SCO is (`Audio`; that a ring waits for SCO only while no other
ring timer runs and only with ringing in band, without which RingStops fails), and that a
pending connect is finalized by something (`Ends`).  There is a lemma for each operator
of headset.c and one for each action.

`AndroidProofs` proves of the library, for every set of control calls, from the module's assumptions only:

* `ConsistentTheorem`: Consistent is an invariant.

Three facts make it inductive.  The mutex freezes the command while the thread executes
it (`Holding`).  What may lie in the socket is known for every step of an exchange; a
late answer to Stop is the only one that the thread may meet in another exchange, and
START_STREAM's `a2dp_start` either ends with an error on it or finds the stream (`Pipe`).  The thread
waits only with a last command that no longer fits the state (`LastDone`), which is why
a writer in `wait_for_start` always waits for a command that will be executed.

and of the HAL, for every size of the ring, length of writes and number of retries,
from `Sizes`:

* `HwSafeTheorem`: HwSafe is an invariant, whatever calls come in whatever order.

HwSafe names its exceptions by what happened, not by excluding calls.  The ring is
consistent until `out_write` resets it under a write, and that happens only while the
binder thread waits to suspend or resume or after a wait was given up (`ResetOnly`).  The
library is there under a write unless a second caller of standby, one that gave up, or a
stream disabled and enabled again during one `out_write` did not wait (`LibKept`; the run
`a2dphw_cleanup` shows the first).  The argument: what the buffer thread writes is the
contiguous beginning of what is ready, unless the ring was reset (`RingInv`, `Torn`); and
whoever put the stream in standby during a write waits for its end or is recorded as not
having waited (`LibInv`).

Each of these inductive invariants was checked by TLC before it was proved, on the
reachable states and, as an initial condition, on the states that satisfy it.

Only checked by TLC:

* liveness, which is out of the prover's reach, as is ENABLED;
* ModeSafe and BondingSafe: when the adapter goes down the code walks its devices and sessions
  (`btd_adapter_stop`, `FreeSessions`), which is a fold, and what a fold computes for every
  input takes induction over data;
* A2dpSafe, the attribute server, the GATT procedures, and all parts of `profiles` but the
  headset.

BondingSafe is a result about one device.  With two of them KernelAnswered and AuthAgentLive
do not hold: `device_free` (device.c:243) asks `agent_is_busy` about the adapter's
agent with no request of its own and cancels what the agent is being asked about the
other device.  TLC shows it with `Devices` of two elements.

## 7. What the passing runs leave out

Each of these breaks the invariant in brackets when its name is added to `Environment`,
and is read in the code as described.

* Modes (`ModeSafe`): the client whose change is pending leaves or releases more than it
  requested ("exit"), the controller goes off meanwhile ("off"), it comes up connectable when
  discoverable is asked for already ("crossed"), or others change the scan mode ("scan").  Bonding (`BondingSafe`, "fallback"): `request_fallback` moves a call to
  the adapter's agent, and cancels, leaving agents and further requests then miss it; with "join" CreatePairedDevice
  is called while an authentication request about the device is open, and its agent takes
  the place of the one that was asked.  A
  bonding that ends when the records are already known, or while a discovery
  runs, forgets its request, so CreatePairedDevice is not answered; and `session_free`
  cancels whatever the agent is asked, so a SetProperty that completes meanwhile leaves a
  RequestSession unanswered.
* Headset (`HeadsetSafe`): "abandon", see the failing run; "busyloop" and "burst", the
  idle callback `dummy_connect_complete` finalizes whatever connect is pending then;
  "indicate" and "telephony", a second ring timer.
* A2DP (`A2dpSafe`; the run has "reject"): a cancel between an idle source and its setup, or
  under a configuration that was sent ("cancel"); the link lost or a request timing out
  while somebody waits ("lost", "abort"), where `abort_cfm` gives up a reference that only
  `a2dp_cancel` takes; the peer starts, closes or aborts what we are starting, closing or
  waiting for ("remote"); the peer configures, or the sink is set up, while somebody else sets
  up the stream ("overlap": the sink loses its session with that one, and its retry timer is
  left); a suspended stream that is closed before it is resumed, or a suspend queued behind a
  Close or Abort ("restart"); the peer starts an unlocked stream whose `a2dp_sep->session` is
  still held, because `suspend_cfm` took the timer away and not the reference
  (a2dp.c:1080), and `start_ind` overwrites it ("leak").
* AVDTP (`SessionSafe`): repeated commands are those of `Repeats`, in the third instance;
  the run `avdtp_auth_fails` shows what a failing authorization does.
* Audio device (`DeviceSafe`): "unfinished" and a device with a gateway keep an
  authorization (section 6); the run has neither, the theorem has both.  In which order
  services asked is left out, `hs_preauth_cb`'s cancelling is taken with the headset going
  down, an AVDTP authorization that fails with the sink going down.  A2DP sources
  (source.c) are not among the services.
* MCAP (`HealthSafe`): two MDLs set up at once ("two"), a wrong abort or answer ("wrong"), a
  deletion refused as busy ("busy"), crossing connections ("crossing"), a user that gives
  its own up ("abandon"), a data channel that ends after the control channel ("late").
* Media transport (`AudioClientsSafe`): "refused", "back", "overlap", "silent".  Audio socket
  (`AudioClientsSafe`): "pipeline", "reconfigure", "again", "switch", "reuse".  No client in the
  repository sends a request before the last one is answered.
* Input (`PeripheralsSafe`): crossing and repeated connections, a device that stops half way,
  a late encryption, cancel and removal ("crossing", "again", "half", "late", "cancel",
  "remove").  Network: "other", "cancel", "reuse", "remove", "unknown", "leak", and "timeout": the
  client leaves or the link is disconnected in the turn of the main loop in which the time
  limit is over, and `cancel_connection` runs without a channel (connection.c:161).  Serial:
  "two", "again", "giveup", "late", "record", "cancel", "remove".  Removal of a device mostly leaves
  a watch or a timer with freed memory.
* SDP (`SdpSafe`): two long answers within one second share a name ("second"); a record
  that comes with its handle is not made collectable, and an update whose record names
  another handle than the request meets an assertion ("given"); any client may update any
  record, but one that removes somebody else's leaves its handle to be used again
  ("others").  An answer whose client
  left stays cached, and so does every search's.  The comment at sdpd-service.c:83 calls
  the database state guaranteed to change; it is a time in seconds, and records that
  go with a socket do not update it.
* D-Bus watches (`LibrariesSafe`): a function called for GetNameOwner's answer removes its
  own watch ("self"), one called for a signal removes it and also returns FALSE ("both").
  No function in the daemon does.  A signal that matches several filters is given to the
  first only ("overlap").
* Storage (`LibrariesSafe`): a crash after `ftruncate` ("crash") or a full disk ("full") loses
  the keys that follow; a key that begins the first line's key takes that line
  ("prefix"); a function called by `textfile_foreach` that writes the same file waits
  for its own lock ("writes").  The last does happen: `load_devices` walks the blocked
  file, and `device_create` of a blocked device that no other file names calls
  `device_block`, which writes it (device.c:555).
* Telephony (`TelephonySafe`).  maemo6: "early", "both", "refused", "drop", "ending",
  "answer", "overfull"; oFono: "hold", "late", "interfaces", "second", "alerting", "hangup".
  Signals that overtake an answer leave an indicator wrong until the next signal; oFono's
  service indicator stays after the modem is lost.
* BCSP (`ChipLinkSafe`): a packet that is owed ("owed") or begun before the link is
  established ("early").
* Gateway (`AudioClientsSafe`): "overlap", "denied", "latereply", "latesco", "cold", "busy",
  "twosco", "remove".  That State stays connected after the remote gateway has closed RFCOMM
  is in the run: what is claimed of State is about the channel that the daemon keeps.
* Attribute server (`GattSession`): a configuration whose write a server has not answered in
  time or before the link was lost may stay with that server; ConfigsKnown excepts it.
* ATT bearer (`AttSafe`): of an end that failed to write, or wrote a packet twice, section 6.
* Health (`HealthSafe`).  Clock synchronisation: "again", "unread", "far", "corrupt", "drop"; Hdp: "gone",
  "destroyed", "early", "abort", "pending".
* Devices (`DevicesSafe`).  Services: "overlap", "hangup", "nosocket", "two", "race", "refused",
  "unsaved", "corrupt", "cancel", "lost", "attrib"; devices: "busy", "direct", "refused",
  "between", "agent", "kept"; GattClient: "failed", "mixed", "left", "stale", "slow", "again",
  "exit", "listen", "unsent", "reconnect", "unpaired", "elevate".  Drivers that were matched
  by a pattern are never removed by `device_remove_drivers`.
* Backends (`BackendsSafe`).  Adapter: "zero", "rejected", "missed", "limited", "crash";
  discovery: "early", "late", "between", "again", "down"; pairing: "cancel", "priority",
  "lost", "two", "oob", "unknown", "race"; MgmtBackend: "ghost", "lost", "dropped", "off",
  "noaddress", "route", and two controllers with ANDROID.  In hciops.c `get_io_cap` hands
  `auth` (still 0xff) instead of `loc_auth` to the comparison, and `link_key_request` returns
  without an answer, its socket open, when HCIGETCONNINFO fails.
* SDP library (`SdpSafe`).  Sessions: "none", "empty", "uncontinued", "late", "duplicate",
  "overlap", "unasked", "otherpdu", "many"; records: "flat", "long", "text", "again", "null",
  "alternatives", "cut".  The comments at `sdp_set_access_protos`, `sdp_set_lang_attr` and
  `sdp_set_profile_descs` say that an attribute is replaced; the code adds to it.
* GATT procedures (`GattListsAll`): ends with different MTUs cut long reads ("asymmetric");
  `gatt_read_char` with an offset goes on at a wrong one ("offset"); a value longer than
  MTU - 4 is answered by an empty list ("longtype"); writes are cut to MTU - 3
  ("longwrite"); a read by type of client configurations returns another client's
  ("configs", against the comment at attrib-server.c:1818); the last group ends wrongly
  when a secondary service ends the database ("secondary"); notifications listed twice
  ("twice"), attributes moved by realloc ("moved"), an indication that does not fit
  ("indicate"), answers without or with elements of no length ("empty", "zero").
* Sockets (`LibrariesSafe`): a descriptor number used again before the source saw it closed
  ("reuse"); `bt_io_accept` gives up after 200 EAGAINs and sets no error, which its callers
  print ("stalled"); `l2cap_set_lm` overwrites the role ("oldkernel"); `set_le_params` refuses
  zeros though the channel was made ("leparams"); a failed connect is reported as EPERM ("errno").
* SBC (`AudioClientsSafe`): `select_capabilities` ignores that `select_sbc_params` failed
  ("nothing"), a rate or several channel modes that the client does not expect ("rate",
  "mono"), an empty range of bit pools ("narrow"), more than 15 frames wrap the 4 bit count
  ("many"), bytes that are no whole frame are dropped ("rest").
* HAL: nothing; the cases that HwSafe excepts are in section 6.  Library: the
  thread may execute a stop under the next write.  Discovery: with names or
  bondings a quick stop and start can leave discovery idle with nothing scheduled,
  which is why `services` checks `Rediscovers` without them.  SAP: a connection put
  off because of a call never continues.

Not covered by a property, since the state they need is abstracted: in attrib-server.c
the 16 bit subtraction at line 901 wraps after a failing server that contains the end of
the request, and reply callbacks use `channel->op` before they look whether the
channel is still there (739); what the adapter does about a command that the
kernel's socket does not take (adapter.c:401, 1459); gattrib.c's timer destroys the bearer whoever
holds it; control.c's registrations and position timer survive a disconnection; with
several devices hdp.c's `check_devices_mcl` (1321) compares only by address.

## 8. Plan and what is not modelled

Next: proofs of A2dpSafe (A2dp), Stored of Helpers for any number of processes and
keys, and Collected of SdpServer; BondingSafe with the folds of Bonding written as
functions of the set of devices.

Not modelled: layouts of most messages (lib/hci.c, sdp-xml.c, eir.c), the name tables
and the printing of lib/sdp.c; the SBC codec's arithmetic; start-up and configuration;
command line tools, which are a large part of the repository's lines and run one
request; LE devices in Bonding; source.c, an older copy of sink.c.  Most components
are "partly" modelled: their control is, while listening sockets, probing and the
contents of messages are not.  Reasons for each are in `PROJECT.json`.

## 9. Running

    tlc -workers 2 -config MCProfiles.cfg MCProfiles
    tlapm SapServerProofs.tla

and in the same way the other modules whose name ends in `Proofs`; the longest,
AvdtpProofs, takes five to six minutes.
