---------------------------- MODULE AudioClients ----------------------------
(***************************************************************************)
(* The programs that play through the daemon: its side of their socket,    *)
(* and how the stream they write is configured and packed.                 *)
(*                                                                         *)
(* audio/unix.c: the clients on the audio socket, which configure, start    *)
(* and stop the stream of one device, over A2DP (one stream endpoint, one   *)
(* AVDTP session) or as a headset.  a2dp.c, avdtp.c and headset.c are here   *)
(* what unix.c sees of them: locks, references, the stream and requests     *)
(* that call back.                                                         *)
(***************************************************************************)
EXTENDS FiniteSets, Integers, FiniteSetsExt

CONSTANTS Clients,
          Environment \* which of these happen as well: a client sends a request before the
                      \* last is answered ("pipeline"), configures again ("reconfigure"), asks
                      \* for capabilities when it has opened ("again"), also of the other kind
                      \* ("switch"); memory or a descriptor is used again by the next
                      \* client while an event for the last is still to come ("reuse")

VARIABLE u

\* Of a client: dev, type, the union d (session, sep, stream, or locked), cb_id, and
\* req_id as the request it is the id of.  pend: requests that will call back;
\* disc: a discovery will; timer: close_complete; watch: its io watch; waits: the request it
\* has no answer to (history).
NoClient == [live |-> FALSE, dev |-> FALSE, type |-> "none", session |-> FALSE, sep |-> FALSE,
             stream |-> FALSE, locked |-> FALSE, cb_id |-> FALSE, req_id |-> "none", pend |-> {},
             disc |-> FALSE, timer |-> FALSE, watch |-> FALSE, waits |-> "none"]

\* locked: the endpoint; hslocked: the headset; refs: references of clients to the session;
\* stream: the endpoint has one, with callbacks cbs; fault: freed memory or null was used.
SocketInit == u = [c |-> [c \in Clients |-> NoClient], locked |-> FALSE, hslocked |-> FALSE,
                   refs |-> 0, stream |-> FALSE, cbs |-> {}, fault |-> FALSE]

Ready(c) == u.c[c].live /\ (u.c[c].waits # "none" => "pipeline" \in Environment)
With(x, c, k) == [x EXCEPT !.c[c] = k]

-----------------------------------------------------------------------------
(* What a client holds.                                                    *)

\* avdtp_get; it may fail if there is no session yet.
avdtp_get(x, c) == IF x.c[c].session THEN x
                   ELSE [x EXCEPT !.c[c].session = TRUE, !.refs = @ + 1]

avdtp_unref(x, c) == IF x.c[c].session THEN [x EXCEPT !.c[c].session = FALSE, !.refs = @ - 1]
                     ELSE x

a2dp_sep_unlock(x, c) == IF x.c[c].sep THEN [x EXCEPT !.c[c].sep = FALSE, !.locked = FALSE] ELSE x

avdtp_stream_remove_cb(x, c) ==
  [x EXCEPT !.c[c].cb_id = FALSE,
            !.cbs = IF x.c[c].cb_id /\ x.c[c].stream THEN @ \ {c} ELSE @]

\* After an error: endpoint, session and stream are given up.
Released(x, c) == [avdtp_unref(a2dp_sep_unlock(x, c), c) EXCEPT !.c[c].stream = FALSE]

Cancel(x, c) ==
  IF x.c[c].dev /\ x.c[c].req_id # "none"
  THEN [x EXCEPT !.c[c].pend = @ \ {x.c[c].req_id}, !.c[c].req_id = "none"] ELSE x

-----------------------------------------------------------------------------
(* Requests.                                                               *)

server_cb(c) ==
  /\ ~u.c[c].live
  /\ u.c[c].disc \/ u.c[c].timer \/ u.c[c].watch => "reuse" \in Environment
  /\ u' = With(u, c, [NoClient EXCEPT !.live = TRUE, !.watch = TRUE, !.disc = u.c[c].disc,
                                      !.timer = u.c[c].timer, !.pend = u.c[c].pend])

\* result: "ok", or the session ("nosession") or the discovery ("fail") failed.
handle_getcapabilities_req(c, type, result) ==
  /\ Ready(c)
  /\ u.c[c].type \in {"none", type} \/ "switch" \in Environment
  /\ u.c[c].sep \/ u.c[c].locked => Environment \cap {"again", "switch"} # {}
  /\ LET x == [u EXCEPT !.c[c].type = type]
     IN u' = CASE type = "headset" -> [x EXCEPT !.c[c].req_id = "none", !.c[c].dev = TRUE]
               [] result = "nosession" /\ ~x.c[c].session -> x
               [] result = "fail" -> avdtp_unref(x, c)
               [] OTHER -> [avdtp_get(x, c) EXCEPT !.c[c].disc = TRUE, !.c[c].dev = TRUE,
                                                   !.c[c].waits = "caps"]

\* The answer names the device.  There is no way to cancel a discovery.
a2dp_discovery_complete(c, ok) ==
  /\ u.c[c].disc
  /\ LET x == [u EXCEPT !.c[c].disc = FALSE]
         y == [x EXCEPT !.c[c].req_id = "none", !.c[c].waits = "none"]
     IN u' = CASE ~u.c[c].live -> x
               [] u.c[c].live /\ ok -> [y EXCEPT !.fault = @ \/ ~u.c[c].dev]
               [] OTHER -> Released(y, c)

\* ok: there is a session, and the endpoint suits.
handle_open_req(c, ok) ==
  /\ Ready(c)
  /\ LET x == u.c[c]
     IN CASE x.type = "sink" ->
               u' = IF ok /\ ~x.sep /\ ~u.locked
                    THEN [avdtp_get(u, c) EXCEPT !.c[c].sep = TRUE, !.c[c].dev = TRUE, !.locked = TRUE]
                    ELSE u
          [] x.type = "headset" ->
               u' = IF ok /\ ~x.locked /\ ~x.session /\ ~u.hslocked
                    THEN [u EXCEPT !.c[c].locked = TRUE, !.c[c].dev = TRUE, !.hslocked = TRUE]
                    ELSE u
          [] OTHER -> u' = u

Asked(x, c, what) == [x EXCEPT !.c[c].pend = @ \cup {what}, !.c[c].req_id = what, !.c[c].waits = what]

\* For A2DP the session is taken first if it is not there.
start_config(c, ok) ==
  /\ Ready(c) /\ u.c[c].dev
  /\ u.c[c].cb_id => "reconfigure" \in Environment
  /\ LET x == IF u.c[c].type = "sink" THEN avdtp_get(u, c) ELSE u
         opened == IF u.c[c].type = "sink" THEN u.c[c].sep ELSE u.c[c].locked
     IN u' = IF ok /\ opened THEN Asked(x, c, "config") ELSE x

\* To configure another way the stream is closed first, in a2dp.c.
a2dp_config_complete(c, ok) ==
  /\ "config" \in u.c[c].pend /\ u.c[c].type = "sink"
  /\ LET x == [u EXCEPT !.c[c].pend = @ \ {"config"}]
         y == [x EXCEPT !.c[c].req_id = "none", !.c[c].waits = "none"]
     IN u' = CASE ~u.c[c].live -> [x EXCEPT !.stream = ok \/ @]
               [] u.c[c].live /\ ok ->
                    LET z == avdtp_stream_remove_cb(y, c)
                    IN [z EXCEPT !.c[c].sep = TRUE, !.c[c].stream = TRUE, !.c[c].cb_id = TRUE,
                                 !.stream = TRUE, !.cbs = @ \cup {c}]
               [] OTHER -> Released(y, c)

\* Resume or suspend; refused at once if there is nothing to start or stop.
start_resume(c, what, ok) ==
  /\ Ready(c) /\ u.c[c].dev
  /\ LET opened == IF u.c[c].type = "sink" THEN u.c[c].sep ELSE u.c[c].locked
         asked == ok /\ opened /\ (u.c[c].type = "sink" => u.stream)
         x == IF u.c[c].type = "sink" THEN avdtp_get(u, c) ELSE u
     IN u' = IF asked THEN Asked(x, c, what)
             ELSE [u EXCEPT !.c[c].req_id = IF what = "suspend" /\ opened THEN "none" ELSE @]

a2dp_resume_complete(c, ok) ==
  /\ "resume" \in u.c[c].pend /\ u.c[c].type = "sink"
  /\ LET x == [u EXCEPT !.c[c].pend = @ \ {"resume"}]
         y == [x EXCEPT !.c[c].req_id = "none", !.c[c].waits = "none"]
     IN u' = CASE ~u.c[c].live -> x
               [] u.c[c].live /\ ok -> y
               [] OTHER -> Released(avdtp_stream_remove_cb(y, c), c)

a2dp_suspend_complete(c) ==
  /\ "suspend" \in u.c[c].pend /\ u.c[c].type = "sink"
  /\ u' = IF u.c[c].live THEN [u EXCEPT !.c[c].pend = @ \ {"suspend"}, !.c[c].req_id = "none",
                                        !.c[c].waits = "none"]
          ELSE [u EXCEPT !.c[c].pend = @ \ {"suspend"}]

\* The callbacks from headset.c do not look whether the client is still there; a suspend leaves req_id.
headset_complete(c, what) ==
  /\ what \in u.c[c].pend /\ u.c[c].type = "headset"
  /\ u' = [u EXCEPT !.c[c].pend = @ \ {what}, !.c[c].waits = "none", !.fault = @ \/ ~u.c[c].live,
                    !.c[c].req_id = IF what = "suspend" THEN @ ELSE "none"]

-----------------------------------------------------------------------------
(* A client closes, hangs up, or its device is removed.                    *)

start_close(x, c) ==
  CASE ~x.c[c].dev -> x
    [] x.c[c].dev /\ x.c[c].type = "headset" ->
         IF x.c[c].locked THEN [x EXCEPT !.c[c].locked = FALSE, !.hslocked = FALSE]
         ELSE [x EXCEPT !.c[c].session = FALSE]
    [] OTHER -> Released(avdtp_stream_remove_cb(x, c), c)

handle_close_req(c) ==
  /\ Ready(c) /\ u.c[c].dev
  /\ LET x == start_close(u, c)
         timed == x.c[c].req_id # "none"
     IN u' = [Cancel(x, c) EXCEPT !.c[c].dev = FALSE, !.c[c].timer = timed \/ @,
                                  !.c[c].waits = IF timed THEN "close" ELSE "none"]

close_complete(c) ==
  /\ u.c[c].timer
  /\ u' = [u EXCEPT !.c[c].timer = FALSE,
                    !.c[c].waits = IF u.c[c].live /\ @ = "close" THEN "none" ELSE @]

client_free(x, c) ==
  With(x, c, [NoClient EXCEPT !.pend = Cancel(x, c).c[c].pend, !.type = x.c[c].type,
                              !.disc = x.c[c].disc, !.timer = x.c[c].timer, !.watch = x.c[c].watch])

\* The client hangs up or sends nonsense.
client_cb(c) ==
  /\ u.c[c].live
  /\ u' = client_free(start_close([u EXCEPT !.c[c].watch = FALSE], c), c)

\* All clients of the device; their watches are left on the closed descriptors.
unix_device_removed ==
  \E gone \in SUBSET Clients :
    /\ gone = {c \in Clients : u.c[c].live /\ u.c[c].dev} /\ gone # {}
    /\ u' = LET Free(c, x) == IF c \in gone THEN client_free(start_close(x, c), c) ELSE x
                all == [c \in Clients |-> Free(c, u).c[c]]
            IN [u EXCEPT !.c = all,
                         !.locked = @ /\ ~\E c \in gone : u.c[c].type = "sink" /\ u.c[c].sep,
                         !.hslocked = @ /\ ~\E c \in gone : u.c[c].type = "headset" /\ u.c[c].locked,
                         !.refs = @ - Cardinality({c \in gone : u.c[c].type = "sink" /\ u.c[c].session}),
                         !.cbs = @ \ {c \in gone : u.c[c].cb_id /\ u.c[c].stream}]

\* The watch of a closed descriptor ends, unless the next client's socket has its number.
StaleWatch(c, hup) ==
  /\ u.c[c].watch /\ ~u.c[c].live
  /\ hup => \E o \in Clients \ {c} : u.c[o].live /\ "reuse" \in Environment
  /\ u' = [u EXCEPT !.c[c].watch = FALSE, !.fault = @ \/ hup]

\* The remote device or sink.c sets up the stream.
StreamSetUp == ~u.stream /\ u' = [u EXCEPT !.stream = TRUE]

\* The stream is closed or aborted: stream_state_changed of every callback.
stream_state_changed ==
  /\ u.stream
  /\ LET told == {c \in u.cbs : u.c[c].live}
         Told(k) == [k EXCEPT !.sep = FALSE, !.session = FALSE, !.stream = FALSE, !.cb_id = FALSE]
     IN u' = [u EXCEPT !.stream = FALSE, !.cbs = {},
                       !.c = [c \in Clients |-> IF c \in told THEN Told(@[c]) ELSE @[c]],
                       !.locked = @ /\ ~\E c \in told : u.c[c].sep,
                       !.refs = @ - Cardinality({c \in told : u.c[c].session})]

SocketNext == \/ \E c \in Clients :
                   \/ server_cb(c) \/ a2dp_suspend_complete(c) \/ handle_close_req(c)
                   \/ close_complete(c) \/ client_cb(c)
                   \/ \E type \in {"sink", "headset"}, result \in {"ok", "nosession", "fail"} :
                        handle_getcapabilities_req(c, type, result)
                   \/ \E ok \in BOOLEAN : \/ a2dp_discovery_complete(c, ok) \/ handle_open_req(c, ok)
                                          \/ start_config(c, ok) \/ a2dp_config_complete(c, ok)
                                          \/ a2dp_resume_complete(c, ok) \/ StaleWatch(c, ok)
                                          \/ \E what \in {"resume", "suspend"} : start_resume(c, what, ok)
                   \/ \E what \in {"config", "resume", "suspend"} : headset_complete(c, what)
              \/ unix_device_removed \/ stream_state_changed \/ StreamSetUp

SocketSpec == SocketInit /\ [][SocketNext]_u

-----------------------------------------------------------------------------

\* The endpoint and the headset are locked exactly while one client has opened them,
\* and the session has a reference for each client that uses it.
LocksOwned ==
  /\ Cardinality({c \in Clients : u.c[c].sep}) = IF u.locked THEN 1 ELSE 0
  /\ Cardinality({c \in Clients : u.c[c].locked}) = IF u.hslocked THEN 1 ELSE 0
  /\ u.refs = Cardinality({c \in Clients : u.c[c].session})
  /\ \A c \in Clients : u.c[c].sep => u.c[c].session

\* A client that has a stream learns of its end.
Watching == /\ u.cbs = {c \in Clients : u.c[c].cb_id}
            /\ \A c \in Clients : u.c[c].cb_id <=> u.c[c].stream
            /\ \A c \in Clients : u.c[c].stream => u.c[c].sep /\ u.stream

\* A client that waits will be answered, and nothing is asked for one that is gone.
Answered == \A c \in Clients : /\ u.c[c].waits # "none" => u.c[c].disc \/ u.c[c].pend # {} \/ u.c[c].timer
                               /\ ~u.c[c].live => u.c[c].pend = {}

NoFault == ~u.fault

-----------------------------------------------------------------------------
(***************************************************************************)
(* SBC over A2DP: which of the configurations that a sink supports is        *)
(* chosen, by the daemon itself (a2dp.c) or by a client that plays (the      *)
(* Android library liba2dp.c, the ALSA plugin pcm_bluetooth.c), and how a    *)
(* client packs the frames of its encoder into packets of the link.  Fields  *)
(* of bits are sets; a configuration has one bit in each.                    *)
(***************************************************************************)

CONSTANTS Choosers,    \* "daemon", "lib", "alsa"
          Capabilities,\* of sinks: records of freq, mode, block, subbands, alloc, min and max
          Mtus,        \* of the link
          Sizes        \* of what is played at once, in bytes

\* Environment, in this part: what else happens: "nothing", "rate", "mono", "narrow", "many", "rest"

VARIABLE s

MinBitpool == 2
MaxBitpool == 64
BufferSize == 2048
Header == 13 \* sizeof(struct rtp_header) + sizeof(struct rtp_payload)

-----------------------------------------------------------------------------
(* The configuration.                                                      *)

\* The first of the preferences that is supported, or nothing.
Prefer(first, supported) ==
  LET found == {i \in DOMAIN first : first[i] \in supported} IN IF found = {} THEN {} ELSE {first[Min(found)]}

high_quality_default_bitpool(freq, mode) ==
  CASE freq \in {{16}, {32}} -> 53
    [] freq = {44} -> IF mode \in {{"mono"}, {"dual"}} THEN 31 ELSE 53
    [] freq = {48} -> IF mode \in {{"mono"}, {"dual"}} THEN 29 ELSE 51
    [] OTHER -> 53
medium_quality_default_bitpool(freq, mode) ==
  CASE freq \in {{16}, {32}} -> 35
    [] freq = {44} -> IF mode \in {{"mono"}, {"dual"}} THEN 19 ELSE 35
    [] freq = {48} -> IF mode \in {{"mono"}, {"dual"}} THEN 18 ELSE 33
    [] OTHER -> 35
Bitpool(edr, cfg) ==
  IF edr THEN high_quality_default_bitpool(cfg.freq, cfg.mode) ELSE medium_quality_default_bitpool(cfg.freq, cfg.mode)

Nothing == [freq |-> {}, mode |-> {}, block |-> {}, subbands |-> {}, alloc |-> {}, min |-> 0, max |-> 0]
Ranged(cfg, supported, edr) ==
  [cfg EXCEPT !.min = Max({MinBitpool, supported.min}), !.max = Min({Bitpool(edr, cfg), supported.max})]

\* select_sbc_params stops at the first field of which nothing is supported; select_capabilities
\* sends what there is then.
select_sbc_params(supported, edr) ==
  LET freq == Prefer(<<48, 44, 32, 16>>, supported.freq)
      mode == IF freq = {} THEN {} ELSE Prefer(<<"joint", "stereo", "dual", "mono">>, supported.mode)
      block == IF mode = {} THEN {} ELSE Prefer(<<16, 12, 8, 4>>, supported.block)
      subbands == IF block = {} THEN {} ELSE Prefer(<<8, 4>>, supported.subbands)
      alloc == IF subbands = {} THEN {} ELSE Prefer(<<"loudness", "snr">>, supported.alloc)
      cfg == [freq |-> freq, mode |-> mode, block |-> block, subbands |-> subbands, alloc |-> alloc, min |-> 0, max |-> 0]
  IN IF subbands = {} THEN cfg ELSE Ranged(cfg, supported, edr)

\* bluetooth_a2dp_init of the clients: the rate and the channels are the player's.
bluetooth_a2dp_init(supported, edr, rate, channels) ==
  LET preferred == Prefer(IF channels = 2 THEN <<"joint", "stereo", "dual">> ELSE <<"mono">>, supported.mode)
      mode == IF preferred = {} THEN supported.mode ELSE preferred
      block == Prefer(<<16, 12, 8, 4>>, supported.block)
      subbands == Prefer(<<8, 4>>, supported.subbands)
      alloc == Prefer(<<"loudness", "snr">>, supported.alloc)
      cfg == [freq |-> {rate}, mode |-> mode, block |-> block, subbands |-> subbands,
              alloc |-> IF alloc = {} THEN supported.alloc ELSE alloc, min |-> 0, max |-> 0]
  IN IF mode = {} \/ block = {} \/ subbands = {} THEN Nothing ELSE Ranged(cfg, supported, edr)

\* The ALSA plugin has one table of bitpools; its configuration file fixes nothing here.
alsa_a2dp_init(supported, rate, channels) == bluetooth_a2dp_init(supported, TRUE, rate, channels)

\* The ALSA plugin tells the player before what there is (bluetooth_a2dp_hw_constraint); in the
\* library both are fixed.
Rates(supported) == IF s.by = "alsa" THEN supported.freq ELSE {44, 48}
Channels(supported) ==
  IF s.by = "alsa" THEN (IF "mono" \in supported.mode THEN 1 ELSE 2)..(IF supported.mode \ {"mono"} # {} THEN 2 ELSE 1)
  ELSE {1, 2}

\* sbc_setconf_ind of a sink that is this daemon: only the range of bitpools is looked at.
sbc_setconf_ind(cfg) == cfg.min >= MinBitpool /\ cfg.max <= MaxBitpool

-----------------------------------------------------------------------------
(* The encoder.                                                            *)

\* bluetooth_a2dp_setup: of several bits the last that is looked at is taken.
The(set) == CHOOSE e \in set : TRUE
bluetooth_a2dp_setup(cfg) ==
  [mode |-> The(Prefer(<<"joint", "stereo", "dual", "mono">>, cfg.mode)), subbands |-> The(cfg.subbands),
   blocks |-> The(cfg.block), bitpool |-> cfg.max]

EncoderChannels(e) == IF e.mode = "mono" THEN 1 ELSE 2
sbc_get_frame_length(e) ==
  4 + (4 * e.subbands * EncoderChannels(e)) \div 8 +
  (IF EncoderChannels(e) = 1 THEN (e.blocks * e.bitpool + 7) \div 8
   ELSE ((IF e.mode = "joint" THEN e.subbands ELSE 0) + e.blocks * e.bitpool + 7) \div 8)
sbc_get_codesize(e) == e.subbands * e.blocks * EncoderChannels(e) * 2

Idle == [mode |-> "none", subbands |-> 0, blocks |-> 0, bitpool |-> 0]
NoPacket == [len |-> 0, frames |-> 0, field |-> 0]

StreamInit ==
  \E by \in Choosers, supported \in Capabilities, mtu \in Mtus, edr \in BOOLEAN :
    s = [by |-> by, supported |-> supported, edr |-> edr, mtu |-> mtu, cfg |-> Nothing, done |-> FALSE, asked |-> 0,
         encoder |-> Idle, count |-> Header, frames |-> 0, rest |-> 0, packet |-> NoPacket, lost |-> FALSE]

Narrow(cfg) == cfg # Nothing /\ cfg.min > cfg.max

\* select_capabilities.
select_capabilities ==
  /\ s.by = "daemon" /\ ~s.done
  /\ LET cfg == select_sbc_params(s.supported, s.edr)
     IN /\ cfg.alloc = {} => "nothing" \in Environment
        /\ Narrow(cfg) => "narrow" \in Environment
        /\ s' = [s EXCEPT !.cfg = cfg, !.done = TRUE]

\* bluetooth_a2dp_hw_params: the configuration is agreed on, then the encoder is set up.
bluetooth_a2dp_hw_params(rate, channels) ==
  /\ s.by # "daemon" /\ ~s.done
  /\ rate \notin s.supported.freq => "rate" \in Environment
  /\ channels = 1 /\ "mono" \notin s.supported.mode => "mono" \in Environment
  /\ channels = 2 /\ s.supported.mode = {"mono"} => "mono" \in Environment
  /\ LET cfg == IF s.by = "alsa" THEN alsa_a2dp_init(s.supported, rate, channels)
                ELSE bluetooth_a2dp_init(s.supported, s.edr, rate, channels)
     IN /\ Narrow(cfg) => "narrow" \in Environment
        /\ cfg # Nothing /\ sbc_get_frame_length(bluetooth_a2dp_setup(cfg)) + Header > s.mtu => "narrow" \in Environment
        /\ s' = [s EXCEPT !.cfg = cfg, !.done = TRUE, !.asked = channels,
                          !.encoder = IF cfg = Nothing THEN Idle ELSE bluetooth_a2dp_setup(cfg)]

-----------------------------------------------------------------------------
(* Playing.                                                                *)

\* avdtp_write: the number of frames has four bits.
avdtp_write(w) ==
  [w EXCEPT !.packet = [len |-> w.count, frames |-> w.frames, field |-> w.frames % 16], !.count = Header, !.frames = 0]

\* One frame is encoded; the packet is sent when another one has no room.
Full(w, written) ==
  \/ w.count + written >= w.mtu
  \/ w.by = "lib" /\ (w.frames = 15 \/ w.count + written >= BufferSize)
Encode(w) ==
  LET written == sbc_get_frame_length(w.encoder)
      v == [w EXCEPT !.count = @ + written, !.frames = @ + 1]
  IN IF Full(v, written) THEN avdtp_write(v) ELSE v

\* What is left of the data that a player wrote: it is encoded frame by frame.
EncodeFrame ==
  /\ s.encoder # Idle /\ s.rest >= sbc_get_codesize(s.encoder)
  /\ s' = [Encode(s) EXCEPT !.rest = @ - sbc_get_codesize(s.encoder)]

\* a2dp_write of the library gives up what is no whole frame; bluetooth_a2dp_write keeps it for
\* the next time.
Write(n) ==
  /\ s.encoder # Idle /\ s.rest < sbc_get_codesize(s.encoder)
  /\ s.by = "lib" /\ n % sbc_get_codesize(s.encoder) # 0 => "rest" \in Environment
  /\ s.by = "alsa" /\ (s.mtu - Header) \div sbc_get_frame_length(s.encoder) > 15 => "many" \in Environment
  /\ s' = IF s.by = "lib"
          THEN [s EXCEPT !.lost = n % sbc_get_codesize(s.encoder) # 0, !.rest = n - (n % sbc_get_codesize(s.encoder))]
          ELSE [s EXCEPT !.rest = @ + n]

\* bluetooth_prepare and bluetooth_stop: the client asks for another configuration.
Again ==
  /\ s.done
  /\ s.encoder = Idle \/ s.rest < sbc_get_codesize(s.encoder)
  /\ s' = [s EXCEPT !.cfg = Nothing, !.done = FALSE, !.asked = 0, !.encoder = Idle, !.count = Header, !.frames = 0, !.rest = 0,
                    !.packet = NoPacket, !.lost = FALSE]

StreamNext == \/ select_capabilities \/ EncodeFrame \/ Again
              \/ \E rate \in Rates(s.supported), channels \in Channels(s.supported) : bluetooth_a2dp_hw_params(rate, channels)
              \/ \E n \in Sizes : Write(n)

StreamSpec == StreamInit /\ [][StreamNext]_s

-----------------------------------------------------------------------------

\* What is chosen is one of the configurations that the sink supports, with a bitpool in its
\* range; and it is what the player asked for.
Agreed ==
  LET c == s.cfg
      one(set, of) == Cardinality(set) = 1 /\ set \subseteq of
  IN s.done /\ c # Nothing =>
       /\ one(c.freq, s.supported.freq) /\ one(c.mode, s.supported.mode) /\ one(c.block, s.supported.block)
       /\ one(c.subbands, s.supported.subbands) /\ one(c.alloc, s.supported.alloc)
       /\ s.supported.min <= c.min /\ c.min <= c.max /\ c.max <= s.supported.max
       /\ sbc_setconf_ind(c)
       /\ s.asked # 0 => EncoderChannels(s.encoder) = s.asked

\* A packet fits the link and the buffer and says how many frames it has; nothing is lost.
Packed == /\ s.count <= s.mtu /\ s.packet.len <= s.mtu /\ s.packet.len <= BufferSize
          /\ s.packet.field = s.packet.frames /\ ~s.lost
=============================================================================
