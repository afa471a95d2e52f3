------------------------------ MODULE Telephony -------------------------------
(***************************************************************************)
(* Two of the telephony back ends, of which one is built: telephony-maemo6.c,*)
(* in t, and telephony-ofono.c, in o.                                      *)
(*                                                                         *)
(* audio/telephony-maemo6.c: the calls and the network as the phone's call  *)
(* daemon CSD signals them, turned into the indicators and the ringing of   *)
(* the headset, and the headset's requests turned into requests to CSD.     *)
(* CSD is external: it moves each call through its states and signals it.   *)
(* RELEASE stands for MO_RELEASE and MT_RELEASE.                           *)
(***************************************************************************)
EXTENDS Integers, FiniteSets, Sequences, FiniteSetsExt, SequencesExt

CONSTANTS
  Calls,      \* the call instances of CSD, numbered in the order of the list
  Levels,     \* values of the battery
  Environment \* what happens: "calls", "conference", "dial", "network", "battery"; and at the moments at which an
              \* indicator goes wrong: calls before the daemon knows the instances ("early"),
              \* another call while one is being set up ("both"), a hold or swap that
              \* fails while a call waits ("refused"), a call that ends without a release
              \* ("drop"), a call held while another ends
              \* ("ending"), a request to answer while an outgoing call proceeds
              \* ("answer"), a battery with more charge than its last full one ("overfull")

VARIABLE t

\* csd: CSD's status of each call.  Of struct csd_call, once known: status, originating, on_hold,
\* conference, setup; active: active_calls.  ind: maemo_indicators; ring: the headset rings;
\* timer: create_request_timer; getting: get_calls_active; pending: the requests to CSD
\* and HAL that have no reply; net: status and signal_bars; batt: the battchg variables,
\* hal: what HAL has, watched: its changes are;
\* device: a headset is connected; sent: what the last step asked of CSD.
NoCall == [status |-> "IDLE", originating |-> FALSE, on_hold |-> FALSE, conference |-> FALSE,
           setup |-> FALSE]
Capacity == IF "battery" \in Environment THEN Levels ELSE {0}
MaemoInit == \E last, design \in Capacity :
             t = [csd |-> [c \in Calls |-> "IDLE"], calls |-> [c \in Calls |-> NoCall], known |-> FALSE,
                  active |-> {}, timer |-> FALSE, getting |-> FALSE, pending |-> {"modem_state", "find_device"},
                  ind |-> [battchg |-> 5, signal |-> 0, service |-> 0, call |-> 0, callsetup |-> 0,
                           callheld |-> 0, roam |-> 0],
                  net |-> [status |-> "UNKOWN", signal_bars |-> 0],
                  batt |-> [cur |-> -1, last |-> -1, design |-> -1], watched |-> FALSE,
                  hal |-> [cur |-> 0, last |-> last, design |-> design],
                  ring |-> FALSE, device |-> FALSE, sent |-> {}]

MaemoInd(v, i, n) == [v EXCEPT !.ind[i] = n]

-----------------------------------------------------------------------------
(* Calls.  The lists are searched in their order.                          *)

With(v, statuses) == {c \in Calls : v.known /\ v.calls[c].status \in statuses}
find_call_with_status(v, s) == With(v, {s})
NonIdle(v) == {c \in Calls : v.known /\ v.calls[c].status # "IDLE"}
find_non_held_call(v) == NonIdle(v) \ With(v, {"HOLD"})

MaemoIncoming(v) == IF v.device THEN [v EXCEPT !.ring = TRUE] ELSE v
MaemoStopped(v) == [v EXCEPT !.ring = FALSE]

\* Mutant: a call that ends is left among the active ones.
Released_kept(v, c) == IF v.active = {} THEN MaemoInd(v, "call", 0) ELSE v

Released(v, c) ==
  LET u == [v EXCEPT !.active = @ \ {c}] IN IF u.active = {} THEN MaemoInd(u, "call", 0) ELSE u

Activated(v, c) ==
  LET call == v.calls[c]
      u == MaemoInd([v EXCEPT !.active = @ \union {c}, !.calls[c].setup = FALSE], "callsetup", 0)
      one == IF Cardinality(u.active) = 1 THEN MaemoInd(u, "call", 1) ELSE u
      held == IF v.ind.callheld = 2 THEN MaemoInd(one, "callheld", 1) ELSE one
  IN IF call.on_hold
     THEN MaemoInd([v EXCEPT !.calls[c].on_hold = FALSE], "callheld",
                   IF find_call_with_status(v, "HOLD") # {} THEN 1 ELSE 0)
     ELSE IF call.originating THEN held ELSE MaemoStopped(held)

Idled(v, c) ==
  LET call == v.calls[c]
      u == IF call.setup THEN MaemoInd(v, "callsetup", 0) ELSE v
      s == IF call.setup /\ ~call.originating THEN MaemoStopped(u) ELSE u
  IN [s EXCEPT !.calls[c] = NoCall]

Terminated(v, c) ==
  LET held == find_call_with_status(v, "HOLD") # {}
  IN CASE v.calls[c].on_hold /\ ~held -> MaemoInd(v, "callheld", 0)
       [] ~(v.calls[c].on_hold /\ ~held) /\ v.ind.callheld = 1 /\ held -> MaemoInd(v, "callheld", 2)
       [] OTHER -> v

call_set_status(v, c, status) ==
  LET prev == v.calls[c].status
      u == [v EXCEPT !.calls[c].status = status]
  IN CASE prev = status -> v
       [] prev # status /\ status = "IDLE" -> Idled(u, c)
       [] prev # status /\ status = "CREATE" ->
            [u EXCEPT !.calls[c].originating = TRUE, !.calls[c].setup = TRUE]
       [] prev # status /\ status = "COMING" ->
            [u EXCEPT !.calls[c].originating = FALSE, !.calls[c].setup = TRUE]
       [] prev # status /\ status = "MO_ALERTING" -> MaemoInd(u, "callsetup", 3)
       [] prev # status /\ status = "MT_ALERTING" -> IF prev = "WAITING" THEN MaemoIncoming(u) ELSE u
       [] prev # status /\ status = "ACTIVE" -> Activated(u, c)
       [] prev # status /\ status = "RELEASE" -> Released(u, c)
       [] prev # status /\ status = "HOLD" ->
            MaemoInd([u EXCEPT !.calls[c].on_hold = TRUE], "callheld",
                     IF find_non_held_call(u) # {} THEN 1 ELSE 2)
       [] prev # status /\ status = "TERMINATED" -> Terminated(u, c)
       [] OTHER -> u

-----------------------------------------------------------------------------
(* What CSD does with its calls: the successors of a status.               *)

MaemoSetup == {"CREATE", "COMING", "PROCEEDING", "MO_ALERTING", "MT_ALERTING", "WAITING", "ANSWERED"}
Changing == {"HOLD_INITIATED", "RETRIEVE_INITIATED", "SWAP_INITIATED", "RECONNECT_PENDING"}
Connected == {"ACTIVE", "HOLD"} \union Changing

MaemoAfter(s) ==
       CASE s = "CREATE" -> {"PROCEEDING", "MO_ALERTING"}
         [] s = "COMING" -> {"PROCEEDING", "MT_ALERTING", "WAITING"}
         [] s = "PROCEEDING" -> {"MO_ALERTING", "MT_ALERTING"}
         [] s = "MO_ALERTING" -> {"ACTIVE"}
         [] s = "MT_ALERTING" -> {"ANSWERED"}
         [] s = "WAITING" -> {"ANSWERED", "MT_ALERTING"}
         [] s = "ANSWERED" -> {"ACTIVE"}
         [] s = "ACTIVE" -> {"HOLD_INITIATED", "SWAP_INITIATED", "RECONNECT_PENDING"}
         [] s = "HOLD" -> {"RETRIEVE_INITIATED", "SWAP_INITIATED"}
         [] s \in {"HOLD_INITIATED", "SWAP_INITIATED"} -> {"HOLD", "ACTIVE"}
         [] s \in {"RETRIEVE_INITIATED", "RECONNECT_PENDING"} -> {"ACTIVE"}
         [] s = "RELEASE" -> {"TERMINATED"}
         [] s = "TERMINATED" -> {"IDLE"}
         [] OTHER -> {}

Others(c) == {t.csd[o] : o \in Calls \ {c}}
NoSetup(S) == \A o \in S : t.csd[o] \notin MaemoSetup /\ ~t.calls[o].setup

\* An outgoing call alerts the other end, an incoming one this; a call waits while another is connected.
CsdFits(c, s) ==
  /\ s = "MO_ALERTING" => t.calls[c].originating
  /\ s = "MT_ALERTING" => ~t.calls[c].originating /\ Others(c) \intersect {"ACTIVE"} = {}
  /\ s = "WAITING" => Others(c) \intersect Connected # {}
  /\ s \in {"CREATE", "COMING"} => NoSetup(Calls) \/ "both" \in Environment
  /\ s = "COMING" => ~t.timer \/ "both" \in Environment
  /\ s = "HOLD" => "TERMINATED" \notin Others(c) \/ "ending" \in Environment
  /\ t.csd[c] \in Changing /\ s = "ACTIVE" /\ ~t.calls[c].on_hold =>
       (NoSetup(Calls) /\ ~t.timer) \/ "refused" \in Environment

\* handle_call_status; handle_incoming_call comes with the first status of the call, and
\* handle_outgoing_call too, after handle_create_requested.
handle_incoming_call(v, c) ==
  MaemoInd(IF With(v, {"ACTIVE", "HOLD"}) # {} THEN v ELSE MaemoIncoming(v), "callsetup", 1)

handle_outgoing_call(v) == [v EXCEPT !.timer = FALSE]

handle_call_status(c, s) ==
  LET v == [t EXCEPT !.csd[c] = s, !.sent = {}]
      u == call_set_status(v, c, s)
  IN /\ "calls" \in Environment /\ (t.known \/ "early" \in Environment)
     /\ CsdFits(c, s)
     /\ t' = IF ~t.known THEN v
             ELSE CASE s = "COMING" -> handle_incoming_call(u, c)
                    [] s = "CREATE" -> handle_outgoing_call(u)
                    [] OTHER -> u

CsdStep(c) == \E s \in MaemoAfter(t.csd[c]) : handle_call_status(c, s)
CsdStarts(c) == t.csd[c] = "IDLE" /\ \E s \in {"CREATE", "COMING"} : (s = "CREATE" => t.timer) /\ handle_call_status(c, s)
CsdReleases(c) ==
  /\ t.csd[c] \in MaemoSetup \union Connected
  /\ \E s \in IF "drop" \in Environment THEN {"RELEASE", "TERMINATED"} ELSE {"RELEASE"} : handle_call_status(c, s)

handle_create_requested ==
  /\ "calls" \in Environment /\ t.known
  /\ NoSetup(Calls) \/ "both" \in Environment
  /\ t' = MaemoInd([t EXCEPT !.timer = TRUE, !.sent = {}], "callsetup", 2)

create_timeout == t.timer /\ t' = MaemoInd([t EXCEPT !.timer = FALSE, !.sent = {}], "callsetup", 0)

handle_conference(c, joined) ==
  /\ "conference" \in Environment /\ t.known /\ t.csd[c] \in Connected
  /\ t' = [t EXCEPT !.calls[c].conference = joined, !.sent = {}]

-----------------------------------------------------------------------------
(* Requests of the headset: what is sent to CSD.                           *)

MaemoFirst(S) == {Min(S)}
MaemoOp(op, S) == {<<op, c>> : c \in S}
FirstWith(v, ss) ==
  LET found == SelectSeq(ss, LAMBDA s : With(v, {s}) # {})
  IN IF found = <<>> THEN {} ELSE MaemoFirst(With(v, {Head(found)}))

Terminate(v) ==
  LET call == IF With(v, {"ACTIVE"}) # {} THEN MaemoFirst(With(v, {"ACTIVE"})) ELSE MaemoFirst(NonIdle(v))
      alerting == With(v, {"MO_ALERTING"})
  IN CASE NonIdle(v) = {} -> {}
       [] NonIdle(v) # {} /\ alerting # {} /\ \A c \in call : v.calls[c].on_hold -> MaemoOp("Release", MaemoFirst(alerting))
       [] NonIdle(v) # {} /\ (alerting = {} \/ \A c \in call : ~v.calls[c].on_hold)
             /\ (\A c \in call : v.calls[c].conference) -> {<<"ReleaseConference", 0>>}
       [] OTHER -> MaemoOp("Release", call)

maemo_telephony_terminate_call_req ==
        t' = [t EXCEPT !.sent = Terminate(t)]

\* A call that is proceeding may be an outgoing one.
MaemoAnswerSafe == "answer" \in Environment \/ \A c \in With(t, {"PROCEEDING"}) : ~t.calls[c].originating

maemo_telephony_answer_call_req ==
        MaemoAnswerSafe /\ t' = [t EXCEPT !.sent = MaemoOp("Answer", FirstWith(t, <<"COMING", "MT_ALERTING", "PROCEEDING", "WAITING">>))]

maemo_telephony_key_press_req ==
        LET waiting == FirstWith(t, <<"COMING", "MT_ALERTING", "PROCEEDING">>)
        IN MaemoAnswerSafe /\ t' = [t EXCEPT !.sent = IF waiting # {} THEN MaemoOp("Answer", waiting)
                                        ELSE MaemoOp("Release", FirstWith(t, <<"ACTIVE">>))]

MaemoHold(v, cmd) ==
       LET active == FirstWith(v, <<"ACTIVE">>)
           held == FirstWith(v, <<"HOLD">>)
           wait == FirstWith(v, <<"WAITING">>)
       IN CASE cmd = 0 -> MaemoOp("Release", IF wait # {} THEN With(v, {"WAITING"}) ELSE With(v, {"HOLD"}))
            [] cmd = 1 -> MaemoOp("Release", With(v, {"ACTIVE"})) \union MaemoOp("Answer", wait)
            [] cmd = 2 /\ wait # {} -> MaemoOp("Answer", wait)
            [] cmd = 2 /\ wait = {} /\ active # {} /\ held # {} -> {<<"Swap", 0>>}
            [] cmd = 2 /\ wait = {} /\ (active = {} \/ held = {}) -> MaemoOp("Hold", active) \union MaemoOp("Unhold", held)
            [] cmd = 3 /\ held \union wait # {} -> {<<"Conference", 0>>}
            [] cmd = 4 -> {<<"Transfer", 0>>}
            [] OTHER -> {}

maemo_telephony_call_hold_req(cmd) == t' = [t EXCEPT !.sent = MaemoHold(t, cmd)]

\* With an index: one call of the list.
CallHoldOne(cmd, c) == t.known /\ t' = [t EXCEPT !.sent = MaemoOp(IF cmd = 1 THEN "Release" ELSE "Split", {c})]

\* telephony_last_dialed_number_req too: CSD is asked, and answers.
maemo_telephony_dial_number_req ==
        /\ "dial" \in Environment /\ "dial" \notin t.pending
        /\ t' = [t EXCEPT !.pending = @ \union {"dial"}, !.sent = {}]
create_call_reply == "dial" \in t.pending /\ t' = [t EXCEPT !.pending = @ \ {"dial"}, !.sent = {}]

maemo_telephony_device_connected ==
        LET v == [t EXCEPT !.device = TRUE, !.sent = {}]
        IN /\ ~t.device
           /\ t' = IF With(v, {"MT_ALERTING"}) # {} /\ With(v, {"ACTIVE"}) = {} THEN MaemoIncoming(v) ELSE v

\* The headset stops ringing with the device.
maemo_telephony_device_disconnected ==
        t.device /\ t' = [t EXCEPT !.device = FALSE, !.ring = FALSE, !.pending = @ \ {"dial"}, !.sent = {}]

Requests ==
  /\ "calls" \in Environment /\ t.device
  /\ \/ maemo_telephony_terminate_call_req \/ maemo_telephony_answer_call_req \/ maemo_telephony_key_press_req
     \/ \E cmd \in 0 .. 4 : maemo_telephony_call_hold_req(cmd)
     \/ \E cmd \in 1 .. 2, c \in Calls : CallHoldOne(cmd, c)
     \/ maemo_telephony_dial_number_req

-----------------------------------------------------------------------------
(* Start, network and battery.                                             *)

csd_init(v) == [v EXCEPT !.getting = TRUE, !.pending = @ \union {"info", "msisdn", "vmbx"}]

handle_modem_state(v, ready) == IF v.known \/ v.getting \/ ~ready THEN v ELSE csd_init(v)

ModemState(ready) == t' = handle_modem_state([t EXCEPT !.sent = {}], ready)
modem_state_reply(ok) ==
  /\ "modem_state" \in t.pending
  /\ t' = handle_modem_state([t EXCEPT !.pending = @ \ {"modem_state"}, !.sent = {}], ok)

\* on_hold of a reply is not trusted: it is that of the status known so far.
parse_call_list(v, originating) ==
  LET Parsed(c, u) ==
        IF v.csd[c] = "IDLE" THEN u
        ELSE call_set_status([u EXCEPT !.calls[c].originating = originating,
                                       !.calls[c].on_hold = u.calls[c].status = "HOLD"], c, v.csd[c])
  IN FoldSet(Parsed, [v EXCEPT !.known = TRUE], Calls)

call_info_reply(ok, originating) ==
  LET v == [t EXCEPT !.getting = FALSE, !.pending = @ \ {"info"}, !.sent = {}]
  IN /\ "info" \in t.pending
     /\ t' = IF ok THEN [parse_call_list(v, originating) EXCEPT !.pending = @ \union {"RegistrationStatus"}]
             ELSE v

phonebook_read_reply(which) == which \in t.pending /\ t' = [t EXCEPT !.pending = @ \ {which}, !.sent = {}]

Served(s) == s \in {"HOME", "ROAMING"}
update_registration_status(v, s) ==
  LET r == IF Served(s) THEN MaemoInd(v, "roam", IF s = "ROAMING" THEN 1 ELSE 0) ELSE v
      u == CASE Served(s) /\ ~Served(v.net.status) -> MaemoInd(r, "service", 1)
             [] ~Served(s) /\ Served(v.net.status) -> MaemoInd(r, "service", 0)
             [] OTHER -> r
  IN IF v.net.status = s THEN v ELSE [u EXCEPT !.net.status = s]

update_signal_strength(v, n) ==
  LET bars == IF n < 0 THEN 0 ELSE IF n > 5 THEN 5 ELSE n
  IN IF v.net.signal_bars = bars THEN v ELSE [MaemoInd(v, "signal", bars) EXCEPT !.net.signal_bars = bars]

MaemoStatuses == {"HOME", "ROAMING", "OFFLINE", "UNKOWN"}
handle_registration_changed ==
  \E s \in MaemoStatuses : t' = update_registration_status([t EXCEPT !.sent = {}], s)
handle_signal_bars_changed ==
  \E n \in {-1, 2, 6} : t' = update_signal_strength([t EXCEPT !.sent = {}], n)

get_property_reply ==
  \/ /\ "RegistrationStatus" \in t.pending
     /\ \E s \in MaemoStatuses :
          t' = update_registration_status(
                 [t EXCEPT !.pending = (@ \ {"RegistrationStatus"}) \union {"OperatorName", "SignalBars"}, !.sent = {}], s)
  \/ /\ "SignalBars" \in t.pending
     /\ \E n \in {-1, 2, 6} : t' = update_signal_strength([t EXCEPT !.pending = @ \ {"SignalBars"}, !.sent = {}], n)
  \/ \E p \in {"RegistrationStatus", "OperatorName", "SignalBars"} :  \* an error, or a name
       p \in t.pending /\ t' = [t EXCEPT !.pending = @ \ {p}, !.sent = {}]

hal_get_integer(v, keys) == [v EXCEPT !.pending = @ \union keys]
Keys == {"cur", "last", "design"}

hal_find_device_reply(ok) ==
  /\ "battery" \in Environment /\ "find_device" \in t.pending
  /\ LET v == [t EXCEPT !.pending = @ \ {"find_device"}, !.sent = {}]
     IN t' = IF ok THEN hal_get_integer([v EXCEPT !.watched = TRUE], Keys) ELSE v

\* A change of the battery is signalled, and asked for.
handle_hal_property_modified ==
  /\ t.watched
  /\ \E k \in Keys, n \in Levels :
       /\ (k = "cur" /\ \A full \in {t.hal.last, t.hal.design} \ {0} : n <= full) \/ "overfull" \in Environment
       /\ t' = hal_get_integer([t EXCEPT !.hal[k] = n, !.sent = {}], {k})

Full(b) == IF b.last > 0 THEN b.last ELSE b.design

hal_battery_level_reply(k, ok) ==
  LET v == [t EXCEPT !.pending = @ \ {k}, !.batt[k] = IF ok THEN t.hal[k] ELSE @, !.sent = {}]
  IN /\ k \in t.pending
     /\ t' = IF ok /\ Full(v.batt) > 0 /\ v.batt.cur >= 0
             THEN MaemoInd(v, "battchg", (v.batt.cur * 5) \div Full(v.batt)) ELSE v

-----------------------------------------------------------------------------

Csd == \/ \E c \in Calls : CsdStarts(c) \/ CsdStep(c) \/ CsdReleases(c)
       \/ \E c \in Calls, joined \in BOOLEAN : handle_conference(c, joined)
       \/ handle_create_requested \/ create_timeout
Network == /\ "network" \in Environment
           /\ \/ handle_registration_changed \/ handle_signal_bars_changed \/ get_property_reply
              \/ \E which \in {"msisdn", "vmbx"} : phonebook_read_reply(which)
              \/ \E ready \in BOOLEAN : ModemState(ready)
Replies == \/ \E ok \in BOOLEAN : modem_state_reply(ok) \/ hal_find_device_reply(ok)
           \/ \E ok, originating \in BOOLEAN : call_info_reply(ok, originating)
           \/ \E k \in Keys, ok \in BOOLEAN : hal_battery_level_reply(k, ok)
           \/ create_call_reply
Devices == maemo_telephony_device_connected \/ maemo_telephony_device_disconnected

MaemoNext == Csd \/ Network \/ Replies \/ handle_hal_property_modified \/ Devices \/ Requests
MaemoSpec == MaemoInit /\ [][MaemoNext]_t

-----------------------------------------------------------------------------

Status(c) == t.calls[c].status

\* The headset is told of a call exactly while one is connected (active_calls).
CallTold == t.ind.call = 1 <=> \E c \in Calls : Status(c) \in Connected

\* When no call is changing, callheld says whether one is held, and whether another is not.
HeldTold ==
  (\A c \in Calls : Status(c) \in {"IDLE", "ACTIVE", "HOLD"}) =>
    t.ind.callheld = IF \A c \in Calls : Status(c) # "HOLD" THEN 0
                     ELSE IF \E c \in Calls : Status(c) = "ACTIVE" THEN 1 ELSE 2

\* callsetup is incoming, or outgoing, exactly while a call is being set up that way.
SetupTold ==
  /\ t.ind.callsetup = 1 <=> \E c \in Calls : t.calls[c].setup /\ ~t.calls[c].originating
  /\ t.ind.callsetup \in {2, 3} <=> t.timer \/ \E c \in Calls : t.calls[c].setup /\ t.calls[c].originating

\* The headset does not ring when nobody calls.
RingFits == t.ring => \E c \in Calls : t.calls[c].setup /\ ~t.calls[c].originating

\* Only a call that comes in is answered, whatever else goes on.
AnswersIncoming == \A r \in t.sent : r[1] = "Answer" => ~t.calls[r[2]].originating

\* The service indicator is that of the network, and the battery's is between 0 and 5 and
\* that of the last values that HAL has given.
NetworkTold ==
  /\ t.ind.service = 1 <=> Served(t.net.status)
  /\ t.ind.signal = t.net.signal_bars
  /\ t.ind.battchg \in 0 .. 5
  /\ t.pending \intersect Keys = {} /\ t.batt = t.hal /\ Full(t.hal) > 0 =>
       t.ind.battchg = (t.hal.cur * 5) \div Full(t.hal)

MaemoTold == CallTold /\ HeldTold /\ SetupTold /\ RingFits /\ AnswersIncoming /\ NetworkTold

-----------------------------------------------------------------------------
(***************************************************************************)
(* audio/telephony-ofono.c: one modem of the oFono daemon is chosen, its    *)
(* network and its calls are asked for and then followed by signals, and    *)
(* become the indicators and the ringing of the headset.  oFono is          *)
(* external: what it sends, signals and replies, arrives in the order in    *)
(* which it was sent, and replies say what was so when they were sent.      *)
(***************************************************************************)

CONSTANTS
  Modems, Ids,    \* the calls of a modem m are <<m, i>>
  MaxQueue       \* bound: messages that are under way each way

\* Environment, in this part: what happens: "calls", "network"; and what makes an indicator wrong: a call
\* that is held ("hold"), a call that is there when the modem is chosen
\* ("late"), interfaces that change during a call ("interfaces"), a second
\* modem whose network changes, or takes over ("second"), a headset that
\* connects or answers while an outgoing call alerts ("alerting"), a headset
\* that hangs up when there is no call ("hangup")

VARIABLE o

OfonoCalls == Modems \X Ids
OfonoStatuses == {"registered", "roaming", "searching"}

\* oFono: up, its modems (absent, present, or with a network), their network, its calls;
\* in, out: messages to and from this daemon.  modem: modem_obj_path; calls: the list, each
\* with its path and status; ind: ofono_indicators; net: net.status; ring: the headset rings;
\* device: it is connected; sent: what the last request of the headset asked for; fault: the
\* data of an empty list was read.
OfonoInit ==
       o = [up |-> FALSE, modems |-> [m \in Modems |-> "absent"],
            reg |-> [m \in Modems |-> [status |-> "searching", strength |-> 0]],
            ocalls |-> [c \in OfonoCalls |-> "none"], in |-> <<>>, out |-> <<>>,
            modem |-> "none", calls |-> <<>>, net |-> "searching",
            ind |-> [signal |-> 5, service |-> 1, call |-> 0, callsetup |-> 0, callheld |-> 0, roam |-> 0],
            ring |-> FALSE, device |-> FALSE, sent |-> {}, fault |-> FALSE]

OfonoInd(v, i, n) == [v EXCEPT !.ind[i] = n]
OfonoIncoming(v) == IF v.device THEN [v EXCEPT !.ring = TRUE] ELSE v
OfonoStopped(v) == [v EXCEPT !.ring = FALSE]
send_method_call(v, msg) == IF v.modem = "none" /\ msg.k = "GetCalls" THEN v ELSE [v EXCEPT !.out = Append(@, msg)]

-----------------------------------------------------------------------------
(* The list of calls.                                                      *)

find_vc(v, c) == {i \in DOMAIN v.calls : v.calls[i].path = c}
find_vc_with_status(v, s) == SelectSeq(v.calls, LAMBDA vc : vc.status = s)
find_vc_without_status(v, s) == SelectSeq(v.calls, LAMBDA vc : vc.status # s)

call_free(v, vc) ==
  LET u == IF vc.status = "active" THEN OfonoInd(v, "call", 0) ELSE OfonoInd(v, "callsetup", 0)
  IN IF vc.status = "incoming" THEN OfonoStopped(u) ELSE u

\* An active call is not among the states that are looked for: its status is 0, active.
call_new(v, c, s) ==
  LET u == [v EXCEPT !.calls = <<[path |-> c, status |-> s]>> \o @]
  IN CASE s = "incoming" -> OfonoIncoming(OfonoInd(u, "callsetup", 1))
       [] s = "dialing" -> OfonoInd(u, "callsetup", 2)
       [] s = "alerting" -> OfonoInd(u, "callsetup", 3)
       [] s = "waiting" -> OfonoInd(u, "callsetup", 1)
       [] OTHER -> u

call_added(v, c, s) == IF find_vc(v, c) # {} THEN v ELSE call_new(v, c, s)

call_removed(v, c) ==
  LET gone == SelectSeq(v.calls, LAMBDA vc : vc.path = c)
  IN IF gone = <<>> THEN v
     ELSE call_free([v EXCEPT !.calls = SelectSeq(@, LAMBDA vc : vc.path # c)], gone[1])

handle_vc_property_changed(v, c, s) ==
  LET i == CHOOSE j \in find_vc(v, c) : TRUE
      u == [v EXCEPT !.calls[i].status = s]
      act == OfonoInd(OfonoInd(u, "call", 1), "callsetup", 0)
  IN CASE find_vc(v, c) = {} -> v
       [] find_vc(v, c) # {} /\ s = "none" -> call_removed(v, c)
       [] find_vc(v, c) # {} /\ s = "active" -> IF v.calls[i].status = "incoming" THEN OfonoStopped(act) ELSE act
       [] find_vc(v, c) # {} /\ s = "alerting" -> OfonoInd(u, "callsetup", 3)
       [] find_vc(v, c) # {} /\ s = "incoming" -> OfonoIncoming(OfonoInd(u, "callsetup", 1))
       [] find_vc(v, c) # {} /\ s = "held" ->
            OfonoInd(u, "callheld", IF find_vc_without_status(u, "held") # <<>> THEN 1 ELSE 2)
       [] OTHER -> v

-----------------------------------------------------------------------------
(* The network and the choice of a modem.                                  *)

handle_network_property(v, status) ==
  OfonoInd(OfonoInd([v EXCEPT !.net = status], "roam", IF status = "roaming" THEN 1 ELSE 0),
           "service", IF status = "searching" THEN 0 ELSE 1)
SignalStrength(v, n) == OfonoInd(v, "signal", (n + 20) \div 21)

parse_network_properties(v, reg) ==
  SignalStrength(handle_network_property([v EXCEPT !.ind = [i \in DOMAIN @ |-> 0]], reg.status), reg.strength)

get_properties_reply(v, msg) ==
  IF msg.ok THEN send_method_call(parse_network_properties(v, msg.reg), [k |-> "GetCalls", m |-> v.modem]) ELSE v

get_calls_reply(v, msg) ==
  IF msg.ok THEN FoldLeft(LAMBDA u, c : call_added(u, c[1], c[2]), v, msg.calls) ELSE v

network_found(v, m) == send_method_call([v EXCEPT !.modem = m], [k |-> "GetProperties", m |-> m])

modem_removed(v, m) ==
  IF v.modem # m THEN v
  ELSE [FoldLeft(call_free, v, v.calls) EXCEPT !.calls = <<>>, !.net = "searching", !.modem = "none"]

parse_modem_interfaces(v, m, network) == IF network THEN network_found(v, m) ELSE modem_removed(v, m)

modem_added(v, m, network) == IF v.modem # "none" THEN v ELSE parse_modem_interfaces(v, m, network)

get_modems_reply(v, msg) == FoldLeft(LAMBDA u, e : modem_added(u, e[1], e[2]), v, msg.modems)

handle_modem_property_changed(v, m, network) ==
  IF v.modem # "none" /\ v.modem # m THEN v ELSE parse_modem_interfaces(v, m, network)

handle_service_connect(v) == send_method_call(v, [k |-> "GetModems", m |-> "none"])

handle_service_disconnect(v) == IF v.modem # "none" THEN modem_removed(v, v.modem) ELSE v

\* A signal of a call manager counts when it is that of the chosen modem.
Receive ==
  LET msg == Head(o.in)
      v == [o EXCEPT !.in = Tail(@), !.sent = {}]
  IN /\ o.in # <<>>
     /\ o' = CASE msg.k = "connect" -> handle_service_connect(v)
               [] msg.k = "disconnect" -> handle_service_disconnect(v)
               [] msg.k = "modems" -> get_modems_reply(v, msg)
               [] msg.k = "ModemAdded" -> modem_added(v, msg.m, msg.network)
               [] msg.k = "ModemRemoved" -> modem_removed(v, msg.m)
               [] msg.k = "Interfaces" -> handle_modem_property_changed(v, msg.m, msg.network)
               [] msg.k = "properties" -> get_properties_reply(v, msg)
               [] msg.k = "calls" -> get_calls_reply(v, msg)
               [] msg.k = "Status" -> handle_network_property(v, msg.reg.status)
               [] msg.k = "SignalStrength" -> SignalStrength(v, msg.reg.strength)
               [] msg.k = "CallAdded" -> IF v.modem = msg.c[1] THEN call_added(v, msg.c, msg.s) ELSE v
               [] msg.k = "CallRemoved" -> IF v.modem = msg.c[1] THEN call_removed(v, msg.c) ELSE v
               [] msg.k = "State" -> handle_vc_property_changed(v, msg.c, msg.s)

-----------------------------------------------------------------------------
(* oFono.                                                                  *)

Says(v, msgs) == [v EXCEPT !.in = @ \o msgs, !.sent = {}]
Room(n) == Len(o.in) + n <= MaxQueue /\ Len(o.out) <= MaxQueue
OfModem(m) == {c \in OfonoCalls : c[1] = m /\ o.ocalls[c] # "none"}
Quiet == o.in = <<>> /\ o.out = <<>>

\* A request is answered; without the modem, or its network, by an error.
Answer ==
  LET req == Head(o.out)
      v == [o EXCEPT !.out = Tail(@)]
      ok == req.m # "none" /\ o.modems[req.m] = "network"
  IN /\ o.out # <<>> /\ Len(o.in) < MaxQueue
     /\ o' = CASE ~o.up -> v
               [] o.up /\ req.k = "GetModems" ->
                    Says(v, <<[k |-> "modems", modems |->
                               SetToSeq({<<m, o.modems[m] = "network">> : m \in {n \in Modems : o.modems[n] # "absent"}})]>>)
               [] o.up /\ req.k = "GetProperties" ->
                    Says(v, <<[k |-> "properties", ok |-> ok, reg |-> IF ok THEN o.reg[req.m] ELSE <<>>]>>)
               [] o.up /\ req.k = "GetCalls" ->
                    Says(v, <<[k |-> "calls", ok |-> ok, calls |->
                               IF ok THEN SetToSeq({<<c, o.ocalls[c]>> : c \in OfModem(req.m)}) ELSE <<>>]>>)

OfonoStarts == ~o.up /\ Room(1) /\ o' = Says([o EXCEPT !.up = TRUE], <<[k |-> "connect"]>>)
OfonoExits ==
  /\ o.up /\ Room(1)
  /\ o' = Says([o EXCEPT !.up = FALSE, !.modems = [m \in Modems |-> "absent"],
                         !.ocalls = [c \in OfonoCalls |-> "none"]], <<[k |-> "disconnect"]>>)

\* Without "second" the modem that is chosen, or being chosen, keeps its network while another has one.
Alone(m) == "second" \in Environment \/ \A n \in Modems \ {m} : o.modems[n] # "network"
ModemAppears(m) ==
  /\ o.up /\ Room(1) /\ o.modems[m] = "absent"
  /\ o' = Says([o EXCEPT !.modems[m] = "present"], <<[k |-> "ModemAdded", m |-> m, network |-> FALSE]>>)
ModemGoes(m) ==
  /\ o.up /\ Room(1) /\ o.modems[m] # "absent" /\ (o.modems[m] = "present" \/ Alone(m) \/ (Quiet /\ o.modem # m))
  /\ o' = Says([o EXCEPT !.modems[m] = "absent", !.ocalls = [c \in OfonoCalls |-> IF c[1] = m THEN "none" ELSE @[c]]],
               <<[k |-> "ModemRemoved", m |-> m]>>)
NetworkAppears(m) ==
  /\ o.up /\ Room(1) /\ o.modems[m] = "present"
  /\ o' = Says([o EXCEPT !.modems[m] = "network"], <<[k |-> "Interfaces", m |-> m, network |-> TRUE]>>)
NetworkGoes(m) ==
  /\ o.up /\ Room(1) /\ o.modems[m] = "network" /\ (Alone(m) \/ (Quiet /\ o.modem # m))
  /\ o' = Says([o EXCEPT !.modems[m] = "present", !.ocalls = [c \in OfonoCalls |-> IF c[1] = m THEN "none" ELSE @[c]]],
               <<[k |-> "Interfaces", m |-> m, network |-> FALSE]>>)
InterfacesChange(m) ==
  /\ o.up /\ Room(1) /\ o.modems[m] = "network" /\ (OfModem(m) = {} \/ "interfaces" \in Environment)
  /\ o' = Says(o, <<[k |-> "Interfaces", m |-> m, network |-> TRUE]>>)

RegistrationChanges(m, s) ==
  /\ "network" \in Environment /\ o.up /\ Room(1) /\ o.modems[m] = "network" /\ o.reg[m].status # s /\ Alone(m)
  /\ LET reg == [o.reg[m] EXCEPT !.status = s]
     IN o' = Says([o EXCEPT !.reg[m] = reg], <<[k |-> "Status", reg |-> reg]>>)
StrengthChanges(m, n) ==
  /\ "network" \in Environment /\ o.up /\ Room(1) /\ o.modems[m] = "network" /\ o.reg[m].strength # n /\ Alone(m)
  /\ LET reg == [o.reg[m] EXCEPT !.strength = n]
     IN o' = Says([o EXCEPT !.reg[m] = reg], <<[k |-> "SignalStrength", reg |-> reg]>>)

\* The calls of a modem: another one can wait while one is active, and rings when that has ended.
OfonoSetup == {"incoming", "dialing", "alerting", "waiting"}
CallStarts(c, s) ==
  LET others == {o.ocalls[x] : x \in OfModem(c[1])}
  IN /\ "calls" \in Environment /\ o.up /\ Room(1) /\ o.modems[c[1]] = "network" /\ o.ocalls[c] = "none"
     /\ others \intersect OfonoSetup = {}
     /\ s = "waiting" <=> others # {} /\ s # "dialing"
     /\ s = "dialing" => "active" \notin others
     /\ (Quiet /\ o.modem # "none") \/ "late" \in Environment
     /\ o' = Says([o EXCEPT !.ocalls[c] = s], <<[k |-> "CallAdded", c |-> c, s |-> s]>>)
OfonoAfter(s) == CASE s = "dialing" -> {"alerting"} [] s = "alerting" -> {"active"} [] s = "incoming" -> {"active"}
                   [] s = "waiting" -> {"incoming"} [] s = "active" -> {"held"} [] s = "held" -> {"active"}
CallChanges(c, s) ==
  LET others == {o.ocalls[x] : x \in OfModem(c[1]) \ {c}}
  IN /\ o.up /\ Room(1)
     /\ s \in {"active", "incoming"} => others \intersect {"active"} = {}
     /\ "held" \in {s, o.ocalls[c]} => "hold" \in Environment
     /\ o' = Says([o EXCEPT !.ocalls[c] = s], <<[k |-> "State", c |-> c, s |-> s]>>)
CallEnds(c) ==
  /\ o.up /\ Room(2) /\ o.ocalls[c] # "none"
  /\ o' = Says([o EXCEPT !.ocalls[c] = "none"],
               <<[k |-> "State", c |-> c, s |-> "none"], [k |-> "CallRemoved", c |-> c]>>)

Ofono == \/ Answer \/ OfonoStarts \/ OfonoExits
         \/ \E m \in Modems : \/ ModemAppears(m) \/ ModemGoes(m) \/ NetworkAppears(m) \/ NetworkGoes(m)
                              \/ InterfacesChange(m)
                              \/ \E s \in OfonoStatuses : RegistrationChanges(m, s)
                              \/ \E n \in {0, 1, 21, 22, 100} : StrengthChanges(m, n)
         \/ \E c \in OfonoCalls : \/ \E s \in {"incoming", "dialing", "waiting"} : CallStarts(c, s)
                                  \/ o.ocalls[c] # "none" /\ \E s \in OfonoAfter(o.ocalls[c]) : CallChanges(c, s)
                                  \/ CallEnds(c)

-----------------------------------------------------------------------------
(* The headset.                                                            *)

OfonoFirst(ss) == LET found == SelectSeq(ss, LAMBDA s : find_vc_with_status(o, s) # <<>>)
                  IN IF found = <<>> THEN {} ELSE {find_vc_with_status(o, Head(found))[1]}
OfonoOp(op, vcs) == {<<op, vc.path, vc.status>> : vc \in vcs}

ofono_telephony_device_connected ==
        LET v == [o EXCEPT !.device = TRUE, !.sent = {}]
        IN /\ ~o.device
           /\ find_vc_with_status(o, "alerting") = <<>> \/ "alerting" \in Environment
           /\ o' = IF find_vc_with_status(o, "alerting") # <<>> /\ find_vc_with_status(o, "active") = <<>>
                   THEN OfonoIncoming(v) ELSE v
ofono_telephony_device_disconnected == o.device /\ o' = [o EXCEPT !.device = FALSE, !.ring = FALSE, !.sent = {}]

ofono_telephony_terminate_call_req ==
        LET call == IF OfonoFirst(<<"active">>) # {} THEN OfonoFirst(<<"active">>) ELSE {o.calls[1]}
            alerting == OfonoFirst(<<"alerting">>)
        IN /\ o.calls # <<>> \/ "hangup" \in Environment
           /\ o' = IF o.calls = <<>> THEN [o EXCEPT !.fault = TRUE, !.sent = {}]
                   ELSE [o EXCEPT !.sent = OfonoOp("Hangup", IF (\A vc \in call : vc.status = "held") /\ alerting # {}
                                                             THEN alerting ELSE call)]

OfonoAnswerSafe == find_vc_with_status(o, "alerting") = <<>> \/ "alerting" \in Environment
ofono_telephony_answer_call_req ==
        OfonoAnswerSafe /\ o' = [o EXCEPT !.sent = OfonoOp("Answer", OfonoFirst(<<"incoming", "alerting", "waiting">>))]

ofono_telephony_key_press_req ==
        o' = [o EXCEPT !.sent = IF OfonoFirst(<<"incoming">>) # {} THEN OfonoOp("Answer", OfonoFirst(<<"incoming">>))
                                ELSE OfonoOp("Hangup", OfonoFirst(<<"active">>))]

OfonoHold(cmd) ==
       LET All(s) == ToSet(find_vc_with_status(o, s))
       IN CASE cmd = 0 -> OfonoOp("Hangup", IF All("waiting") # {} THEN All("waiting") ELSE All("held"))
            [] cmd = 1 -> {<<"ReleaseAndAnswer", o.modem, "">>}
            [] cmd = 2 -> IF All("waiting") # {} THEN OfonoOp("Answer", OfonoFirst(<<"waiting">>)) ELSE {<<"SwapCalls", o.modem, "">>}
            [] cmd = 3 -> IF All("held") \union All("waiting") # {} THEN {<<"CreateMultiparty", o.modem, "">>} ELSE {}
            [] cmd = 4 -> {<<"Transfer", o.modem, "">>}
ofono_telephony_call_hold_req(cmd) == o' = [o EXCEPT !.sent = OfonoHold(cmd)]

\* Without a modem nothing can be dialled.
ofono_telephony_dial_number_req == o.modem # "none" /\ o' = [o EXCEPT !.sent = {<<"Dial", o.modem, "">>}]

Headset == \/ ofono_telephony_device_connected \/ ofono_telephony_device_disconnected
           \/ /\ o.device /\ "calls" \in Environment
              /\ \/ ofono_telephony_terminate_call_req \/ ofono_telephony_answer_call_req \/ ofono_telephony_key_press_req
                 \/ \E cmd \in 0 .. 4 : ofono_telephony_call_hold_req(cmd)
                 \/ ofono_telephony_dial_number_req

OfonoNext == Receive \/ Ofono \/ Headset
OfonoSpec == OfonoInit /\ [][OfonoNext]_o

-----------------------------------------------------------------------------

\* The calls that are listed are different ones of the modem that is chosen, whatever signals
\* and replies were under way when it was.
OneModem == /\ \A i \in DOMAIN o.calls : o.calls[i].path[1] = o.modem
            /\ \A i, j \in DOMAIN o.calls : o.calls[i].path = o.calls[j].path => i = j

\* When nothing is under way: a modem with a network is chosen if there is one, and the list
\* is that of its calls.
Followed ==
  Quiet => /\ o.modem = "none" <=> \A m \in Modems : o.modems[m] # "network"
           /\ o.modem # "none" => /\ o.modems[o.modem] = "network"
                                  /\ {<<vc.path, vc.status>> : vc \in ToSet(o.calls)} = {<<c, o.ocalls[c]>> : c \in OfModem(o.modem)}
                                  /\ o.net = o.reg[o.modem].status

\* The indicators say what the list does, and those of the network what oFono does; the
\* headset rings only for an incoming call.
IndicatorsFit ==
  LET statuses == {vc.status : vc \in ToSet(o.calls)}
  IN /\ o.ind.call = 1 <=> "active" \in statuses
     /\ o.ind.callsetup = IF statuses \intersect {"incoming", "waiting"} # {} THEN 1
                          ELSE IF "dialing" \in statuses THEN 2 ELSE IF "alerting" \in statuses THEN 3 ELSE 0
     /\ o.ind.callheld = IF "held" \notin statuses THEN 0 ELSE IF statuses = {"held"} THEN 2 ELSE 1
     /\ o.ring => o.device /\ "incoming" \in statuses
     /\ o.ind.signal \in 0 .. 5
     /\ Quiet /\ o.modem # "none" =>
          /\ o.ind.service = 1 <=> o.reg[o.modem].status # "searching"
          /\ o.ind.roam = 1 <=> o.reg[o.modem].status = "roaming"
          /\ o.ind.signal > 0 <=> o.reg[o.modem].strength > 0

\* No call is answered but one that comes in, and no data of an empty list are read.
RequestsFit == /\ \A r \in o.sent : r[1] = "Answer" => r[3] \in {"incoming", "waiting"}
               /\ ~o.fault

OfonoTold == OneModem /\ Followed /\ IndicatorsFit /\ RequestsFit
===============================================================================
