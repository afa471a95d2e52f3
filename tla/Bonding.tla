------------------------------ MODULE Bonding ------------------------------
(***************************************************************************)
(* Pairing: bonding requests of D-Bus clients, the authentication requests *)
(* of the kernel, the agents that answer them, and the service discovery   *)
(* that follows (src/device.c, src/agent.c, src/event.c, src/adapter.c),   *)
(* over the kernel's management interface (plugins/mgmtops.c).             *)
(*                                                                         *)
(* Devices are BR/EDR devices.  Every device has clients of its own, so a  *)
(* request is named by its method.  A call to an agent and the agent's     *)
(* pointer to its request are two things: agent_cancel cancels only what   *)
(* the pointer names.                                                      *)
(***************************************************************************)
EXTENDS SequencesExt

CONSTANTS
  Devices,     \* remote devices
  AuthTypes,   \* what the kernel asks: "pin", "confirm", "consent", "notify"
  Environment  \* what happens besides: "fallback": anything while the adapter's
               \* agent answers for a device's; "join": CreatePairedDevice while
               \* an authentication request about the device is open; "leave" of
               \* the adapter's agent, "remove" of devices, "discover" of services
               \* by clients, "other" requests to the adapter's agent, "power"

\* Fields of b:
\*   dev        of each device: known to the adapter, temporary, paired, a
\*              stored link key, connected, stored or cached records; its
\*              agent ("none", "idle", "asked"), authr (type, callback not
\*              called yet, agent), bonding with its client watch, browse
\*              with the method it answers, the two timers
\*   agent      the adapter's agent: "none", "idle", or whose request it has
\*   call       the agent that has an unanswered call about the device;
\*              "stale" if the authentication request was freed
\*   other      is there an unanswered call of others to the adapter's agent?
\*   waiting    methods without an answer
\*   kernel     of each device: link, who began the pairing, what is asked,
\*              and whether a disconnect was commanded
VARIABLE b

vars == <<b>>

NoAuth == [type |-> "none", cb |-> FALSE, agent |-> "none"]
NoBrowse == [on |-> FALSE, msg |-> "none"]
NoDevice == [known |-> FALSE, temporary |-> TRUE, paired |-> FALSE, key |-> FALSE,
             connected |-> FALSE, records |-> FALSE, agent |-> "none", authr |-> NoAuth,
             bonding |-> FALSE, watched |-> FALSE, browse |-> NoBrowse,
             discov_timer |-> FALSE, disconn_timer |-> FALSE]
NoLink == [link |-> FALSE, pairing |-> "no", asked |-> "no", closing |-> FALSE]

Init == b = [dev |-> [d \in Devices |-> NoDevice], agent |-> "idle",
             call |-> [d \in Devices |-> "none"], other |-> FALSE,
             waiting |-> [d \in Devices |-> {}], kernel |-> [d \in Devices |-> NoLink]]

\* adapter_get_device: a device is created temporary.
Known(v, d) == [v EXCEPT !.dev[d].known = TRUE]
Answer(v, d, method) == [v EXCEPT !.waiting[d] = @ \ {method}]
Authenticating(v) == {d \in Devices : v.dev[d].known /\ v.dev[d].authr # NoAuth}

device_get_agent(v, d) ==
  CASE v.dev[d].agent # "none" -> "device"
    [] v.dev[d].agent = "none" /\ v.agent # "none" -> "adapter"
    [] OTHER -> "none"

AgentBusy(v, d, agent) == IF agent = "device" THEN v.dev[d].agent = "asked"
                          ELSE v.agent # "idle"

-----------------------------------------------------------------------------
(* Agents and authentication requests.                                     *)

\* Nothing, if the agent has no request.
agent_cancel(v, d, agent) ==
  CASE agent = "device" /\ v.dev[d].agent = "asked" ->
         [v EXCEPT !.dev[d].agent = "idle", !.call[d] = "none"]
    [] agent = "adapter" /\ v.agent = "other" -> [v EXCEPT !.agent = "idle", !.other = FALSE]
    [] agent = "adapter" /\ v.agent \in Devices ->
         [v EXCEPT !.agent = "idle", !.call[v.agent] = "none"]
    [] OTHER -> v

device_remove_stored(v, d) ==
  [v EXCEPT !.dev[d].paired = FALSE, !.dev[d].key = @ /\ ~v.dev[d].paired,
            !.dev[d].records = FALSE]

ReplyToKernel(v, d, ok) ==
  [v EXCEPT !.kernel[d].asked = IF @ = "yes" THEN (IF ok THEN "no" ELSE "refused") ELSE @]

\* pincode_cb, confirm_cb and pairing_consent_cb: the last keeps the agent.
AuthCallback(v, d, ok) ==
  LET auth == v.dev[d].authr
      u == [ReplyToKernel(v, d, ok) EXCEPT !.dev[d].authr.cb = FALSE,
              !.dev[d].authr.agent = IF auth.type = "consent" THEN @ ELSE "none"]
  IN CASE ~auth.cb -> v
       [] auth.cb /\ auth.type = "pin" /\ ~ok -> device_remove_stored(u, d)
       [] OTHER -> u

device_auth_req_free(v, d) ==
  [v EXCEPT !.dev[d].authr = NoAuth, !.call[d] = IF @ = "none" THEN @ ELSE "stale"]

cancel_authentication(v, d) ==
  IF v.dev[d].authr.cb THEN ReplyToKernel(v, d, FALSE) ELSE v

device_cancel_authentication_uncancelled(v, d, aborted) ==
  IF v.dev[d].authr = NoAuth THEN v
  ELSE device_auth_req_free(IF aborted THEN v ELSE cancel_authentication(v, d), d)

device_cancel_authentication(v, d, aborted) ==
  LET u == agent_cancel(v, d, v.dev[d].authr.agent)
  IN IF v.dev[d].authr = NoAuth THEN v
     ELSE device_auth_req_free(IF aborted THEN u ELSE cancel_authentication(u, d), d)

\* agent_free of a device's agent: device_agent_removed comes first.
FreeDeviceAgent(v, d) ==
  LET u == [v EXCEPT !.dev[d].agent = "none", !.dev[d].authr.agent = "none"]
      called == AuthCallback([u EXCEPT !.call[d] = "none"], d, FALSE)
  IN IF v.dev[d].agent = "asked" THEN called ELSE u

\* agent_free of the adapter's agent: nobody tells the devices.
FreeAdapterAgent(v) ==
  LET u == [v EXCEPT !.agent = "none", !.dev = [d \in Devices |->
              IF @[d].authr.agent = "adapter" THEN [@[d] EXCEPT !.authr.agent = "freed"]
              ELSE @[d]]]
  IN CASE v.agent \in Devices ->
            AuthCallback([u EXCEPT !.call[v.agent] = "none"], v.agent, FALSE)
       [] v.agent = "other" -> [u EXCEPT !.other = FALSE]
       [] OTHER -> u

\* The link key goes before it is known whether the agent can be asked.
\* On an error the kernel is told no.
device_request_authentication(v, d, type) ==
  LET agent == device_get_agent(v, d)
      u == [v EXCEPT !.dev[d].authr = [type |-> type, cb |-> type # "notify",
                                       agent |-> agent],
                     !.dev[d].key = @ /\ ~v.dev[d].paired, !.dev[d].paired = FALSE]
      asked == [u EXCEPT !.call[d] = agent,
                         !.dev[d].agent = IF agent = "device" THEN "asked" ELSE @,
                         !.agent = IF agent = "adapter" THEN d ELSE @]
  IN CASE Authenticating(v) # {} \/ agent = "none" -> ReplyToKernel(v, d, FALSE)
       [] Authenticating(v) = {} /\ agent # "none" /\ type = "notify" -> u
       [] Authenticating(v) = {} /\ agent # "none" /\ type # "notify"
            /\ AgentBusy(v, d, agent) ->
            ReplyToKernel([u EXCEPT !.dev[d].authr = NoAuth], d, FALSE)
       [] OTHER -> asked

-----------------------------------------------------------------------------
(* Bonding and service discovery.                                          *)

bonding_request_free(v, d) ==
  LET u == [v EXCEPT !.dev[d].bonding = FALSE, !.dev[d].watched = FALSE]
  IN IF u.dev[d].agent = "none" THEN u
     ELSE FreeDeviceAgent(agent_cancel(u, d, "device"), d)

device_cancel_bonding(v, d) ==
  IF ~v.dev[d].bonding THEN v
  ELSE bonding_request_free(Answer(device_cancel_authentication(v, d, FALSE), d, "pair"), d)

\* Refused while another discovery runs.
device_browse_sdp(v, d, msg) ==
  IF v.dev[d].browse.on THEN v
  ELSE [v EXCEPT !.dev[d].browse = [on |-> TRUE, msg |-> msg]]

\* discover_services_reply and browse_request_cancel
CancelBrowse(v, d) ==
  LET msg == v.dev[d].browse.msg
      creating == v.dev[d].bonding \/ msg \in {"pair", "create"}
  IN IF ~v.dev[d].browse.on THEN v
     ELSE [Answer(v, d, msg) EXCEPT !.dev[d].browse = NoBrowse,
                                    !.dev[d].temporary = creating \/ @]

device_request_disconnect(v, d) == [CancelBrowse(v, d) EXCEPT !.dev[d].disconn_timer = TRUE]

\* Nobody frees the bonding request of a device whose records are known.
device_bonding_complete(v, d, status) ==
  LET n == IF v.dev[d].authr.type = "notify" THEN agent_cancel(v, d, v.dev[d].authr.agent)
           ELSE v
      r == IF status = "auth" THEN device_remove_stored(n, d) ELSE n
      ok == [device_auth_req_free(n, d) EXCEPT !.dev[d].paired = TRUE]
      dev == ok.dev[d]
      later == ~dev.browse.on
  IN CASE status # "ok" -> device_cancel_bonding(device_cancel_authentication(r, d, TRUE), d)
       [] status = "ok" /\ dev.records -> ok
       [] status = "ok" /\ ~dev.records /\ dev.bonding ->
            bonding_request_free(
              device_browse_sdp([ok EXCEPT !.dev[d].discov_timer = FALSE], d, "pair"), d)
       [] OTHER -> [ok EXCEPT !.dev[d].discov_timer = @ \/ later]

\* device_free cancels the request of the adapter's agent: if it is about
\* this device, or if this device has no authentication request.
adapter_remove_device(v, d) ==
  LET f == IF v.dev[d].agent = "none" THEN v ELSE FreeDeviceAgent(v, d)
      c == CancelBrowse(device_cancel_bonding(f, d), d)
      k == [c EXCEPT !.kernel[d].closing = c.dev[d].connected /\ c.kernel[d].link]
      busy == k.agent = d \/ k.dev[d].authr = NoAuth
      g == IF busy THEN agent_cancel(k, d, "adapter") ELSE k
  IN [device_auth_req_free(g, d) EXCEPT !.dev[d] = NoDevice]

adapter_remove_connection(v, d) ==
  LET u == [v EXCEPT !.dev[d].connected = FALSE, !.dev[d].disconn_timer = FALSE,
                     !.waiting[d] = @ \ {"cancel"}]
      c == device_cancel_authentication(u, d, TRUE)
  IN CASE ~v.dev[d].known \/ ~v.dev[d].connected -> v
       [] v.dev[d].known /\ v.dev[d].connected /\ v.dev[d].temporary ->
            adapter_remove_device(c, d)
       [] OTHER -> c

-----------------------------------------------------------------------------
(* D-Bus clients.                                                          *)

\* The kernel joins it with a pairing that the remote device has begun, or that
\* was begun here for a client who has left.  After the agent was asked, only with "join".
create_paired_device(d) ==
  /\ b.waiting[d] \cap {"pair", "create"} = {}
  /\ ~b.dev[d].bonding /\ ~b.dev[d].key
  /\ b.dev[d].authr = NoAuth \/ "join" \in Environment
  /\ b' = [Known(b, d) EXCEPT !.dev[d].agent = "idle", !.dev[d].bonding = TRUE,
             !.dev[d].watched = TRUE, !.waiting[d] = @ \cup {"pair"},
             !.kernel[d].pairing = "local"]

create_device(d) ==
  /\ ~b.dev[d].known
  /\ b' = [device_browse_sdp(Known(b, d), d, "create") EXCEPT !.waiting[d] = @ \cup {"create"}]

discover_services(d) ==
  /\ "discover" \in Environment /\ b.dev[d].known /\ ~b.dev[d].browse.on
  /\ b' = [device_browse_sdp(b, d, "discover") EXCEPT !.waiting[d] = @ \cup {"discover"}]

cancel_discovery(d) ==
  /\ b.dev[d].browse.msg = "discover"
  /\ b' = CancelBrowse(b, d)

\* Of one who creates the device.
cancel_device_creation(d) ==
  /\ b.dev[d].bonding \/ b.dev[d].browse.msg \in {"pair", "create"}
  /\ "cancel" \notin b.waiting[d]
  /\ LET v == [b EXCEPT !.dev[d].temporary = TRUE]
     IN b' = IF v.dev[d].connected
             THEN [device_request_disconnect(v, d) EXCEPT !.waiting[d] = @ \cup {"cancel"}]
             ELSE adapter_remove_device(v, d)

\* A device that is temporary or busy is only disconnected.
remove_device(d) ==
  LET busy == b.dev[d].temporary \/ b.dev[d].browse.on
  IN /\ "remove" \in Environment /\ b.dev[d].known
     /\ \/ /\ b.dev[d].connected
           /\ b' = device_request_disconnect([b EXCEPT !.dev[d].temporary = @ \/ ~busy], d)
        \/ /\ ~b.dev[d].connected /\ ~busy
           /\ b' = adapter_remove_device([b EXCEPT !.dev[d].temporary = TRUE], d)

\* Whoever called CreatePairedDevice is also its agent; discover_services_req_exit
\* cancels a discovery.
RequestorExits(d) ==
  /\ b.dev[d].watched
  /\ LET f == IF b.dev[d].agent = "none" THEN b ELSE FreeDeviceAgent(b, d)
         c == device_cancel_authentication(f, d, FALSE)
         u == [Answer(c, d, "pair") EXCEPT !.dev[d].watched = FALSE]
     IN b' = device_request_disconnect(u, d)

AgentReply(v, d, ok) ==
  LET u == AuthCallback([v EXCEPT !.call[d] = "none"], d, ok)
  IN IF v.call[d] = "device"
     THEN [u EXCEPT !.dev[d].agent = IF @ = "none" THEN @ ELSE "idle"]
     ELSE [u EXCEPT !.agent = IF @ = "none" THEN @ ELSE "idle"]

\* The agent answers, or the call times out.
AgentReplies(d, ok) == b.call[d] \in {"device", "adapter"} /\ b' = AgentReply(b, d, ok)

\* The device's agent does not know the method: the adapter's is asked, and
\* answers before anything else happens, unless Environment allows more.
request_fallback(d) ==
  LET v == [b EXCEPT !.call[d] = "adapter", !.dev[d].agent = "idle", !.agent = d]
  IN /\ b.call[d] = "device" /\ b.agent # "none"
     /\ "fallback" \in Environment \/ b.agent = "idle"
     /\ b' \in IF "fallback" \in Environment THEN {v} ELSE {AgentReply(v, d, ok) : ok \in BOOLEAN}

register_agent == b.agent = "none" /\ b' = [b EXCEPT !.agent = "idle"]

unregister_agent ==
  /\ "leave" \in Environment /\ b.agent # "none"
  /\ b' = FreeAdapterAgent(b)

OtherAsks == /\ "other" \in Environment /\ b.agent = "idle" /\ ~b.other
             /\ b' = [b EXCEPT !.agent = "other", !.other = TRUE]

OtherAnswered == /\ b.other
                 /\ b' = [b EXCEPT !.other = FALSE, !.agent = IF @ = "none" THEN @ ELSE "idle"]

do_disconnect(d) ==
  /\ b.dev[d].disconn_timer
  /\ b' = [b EXCEPT !.dev[d].disconn_timer = FALSE, !.kernel[d].closing = b.kernel[d].link]

start_discovery(d) ==
  /\ b.dev[d].discov_timer
  /\ b' = device_browse_sdp([b EXCEPT !.dev[d].discov_timer = FALSE], d, "none")

\* search_cb
BrowseEnds(d, ok) ==
  /\ b.dev[d].browse.on
  /\ LET msg == b.dev[d].browse.msg
     IN b' = [Answer(b, d, msg) EXCEPT !.dev[d].browse = NoBrowse,
                !.dev[d].records = ok \/ @,
                !.dev[d].temporary = @ /\ ~(ok /\ msg = "create")]

-----------------------------------------------------------------------------
(* The kernel (external): events that it sends.                            *)

LinkUp(d) ==
  /\ ~b.kernel[d].link
  /\ b' = [Known(b, d) EXCEPT !.kernel[d].link = TRUE, !.dev[d].connected = TRUE]

\* The remote device begins to pair.
RemotePairs(d) ==
  /\ b.kernel[d].link /\ b.kernel[d].pairing = "no" /\ ~b.kernel[d].closing
  /\ b' = [b EXCEPT !.kernel[d].pairing = "remote"]

\* mgmt_pin_code_request and mgmt_user_confirm_request
KernelAsks(d, type) ==
  /\ b.kernel[d].link /\ b.kernel[d].pairing # "no" /\ b.kernel[d].asked = "no"
  /\ b' = device_request_authentication(
            [Known(b, d) EXCEPT !.kernel[d].asked = IF type = "notify" THEN @ ELSE "yes"],
            d, type)

\* mgmt_new_key, stored or not, then pair_device_complete if the pairing was
\* begun here.
PairingSucceeds(d, store_hint) ==
  /\ b.kernel[d].link /\ b.kernel[d].pairing # "no" /\ b.kernel[d].asked = "no"
  /\ LET v == [Known(b, d) EXCEPT !.kernel[d].pairing = "no", !.dev[d].key = store_hint,
                                  !.dev[d].temporary = ~store_hint]
         u == device_bonding_complete(v, d, "ok")
     IN b' = IF b.kernel[d].pairing = "local" THEN device_bonding_complete(u, d, "ok") ELSE u

\* mgmt_auth_failed, or pair_device_complete with an error
PairingFails(d, status) ==
  /\ b.kernel[d].link /\ b.kernel[d].pairing # "no"
  /\ LET v == [b EXCEPT !.kernel[d].pairing = "no", !.kernel[d].asked = "no"]
     IN b' = IF v.dev[d].known THEN device_bonding_complete(v, d, status) ELSE v

\* mgmt_connect_failed: btd_event_conn_failed, then btd_event_bonding_complete
ConnectFails(d) ==
  /\ ~b.kernel[d].link /\ b.kernel[d].pairing = "local"
  /\ LET v == [b EXCEPT !.kernel[d].pairing = "no"]
         c == device_cancel_bonding(v, d)
         u == IF c.dev[d].temporary THEN adapter_remove_device(c, d)
              ELSE device_bonding_complete(c, d, "other")
     IN b' = IF v.dev[d].known THEN u ELSE v

\* mgmt_device_disconnected, then disconnect_complete if it was commanded,
\* and pair_device_complete if the pairing was begun here
LinkDown(d) ==
  /\ b.kernel[d].link
  /\ LET k == b.kernel[d]
         u == adapter_remove_connection([b EXCEPT !.kernel[d] = NoLink], d)
     IN b' = IF u.dev[d].known /\ (k.closing \/ k.pairing # "no")
             THEN device_bonding_complete(u, d, "other") ELSE u

\* reply_pending_requests, then the connections
btd_adapter_stop ==
  /\ "power" \in Environment
  /\ LET off == [b EXCEPT !.kernel = [d \in Devices |-> NoLink]]
         all == SetToSeq(Devices)
         cancelled == FoldLeft(LAMBDA u, d : IF u.dev[d].known THEN device_cancel_bonding(u, d)
                                             ELSE u, off, all)
     IN b' = FoldLeft(adapter_remove_connection, cancelled, all)

Next ==
  \/ \E d \in Devices :
       \/ create_paired_device(d) \/ create_device(d) \/ discover_services(d)
       \/ cancel_discovery(d) \/ cancel_device_creation(d) \/ remove_device(d)
       \/ RequestorExits(d) \/ request_fallback(d) \/ do_disconnect(d) \/ start_discovery(d)
       \/ LinkUp(d) \/ RemotePairs(d) \/ ConnectFails(d) \/ LinkDown(d)
       \/ \E ok \in BOOLEAN : \/ AgentReplies(d, ok) \/ BrowseEnds(d, ok)
                              \/ PairingSucceeds(d, ok)
       \/ \E type \in AuthTypes : KernelAsks(d, type)
       \/ \E status \in {"auth", "other"} : PairingFails(d, status)
  \/ register_agent \/ unregister_agent \/ OtherAsks \/ OtherAnswered \/ btd_adapter_stop

Spec == Init /\ [][Next]_vars

-----------------------------------------------------------------------------
(* Properties.                                                             *)

\* A reply of an agent never reaches a freed authentication request: whoever
\* frees it has cancelled the call (device_cancel_authentication).
NoStaleCall == \A d \in Devices : b.call[d] # "stale"

\* authr->agent is not used after the agent has gone: the callback that
\* agent_free makes clears it.  Not so pairing_consent_cb, and a notification
\* has no callback.
AuthAgentLive == \A d \in Devices : b.dev[d].authr.agent = "freed" =>
  b.dev[d].authr.type \in {"consent", "notify"}

\* What the kernel asks is never forgotten: an agent has the question, and
\* its reply will be passed on, or the link is being closed.
KernelAnswered == \A d \in Devices : b.kernel[d].asked = "yes" =>
  b.kernel[d].closing \/ (b.call[d] \in {"device", "adapter"} /\ b.dev[d].authr.cb)

\* An authentication request stays only as long as the kernel pairs: it makes
\* device_request_authentication refuse every other device.
AuthUnderWay == \A d \in Devices : b.dev[d].authr # NoAuth => b.kernel[d].pairing # "no"

\* CancelDeviceCreation is answered when the link goes: it is going.
CancelAnswered == \A d \in Devices : "cancel" \in b.waiting[d] =>
  b.dev[d].connected /\ (b.dev[d].disconn_timer \/ b.kernel[d].closing)

=============================================================================
