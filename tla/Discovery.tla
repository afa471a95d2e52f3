------------------------------ MODULE Discovery ------------------------------
(***************************************************************************)
(* Device discovery: the discovery sessions of D-Bus clients, the state    *)
(* machine of adapter_set_state, the scheduler that repeats discoveries,   *)
(* name resolution and the list of found devices (src/adapter.c,           *)
(* src/event.c), over the kernel's management interface                    *)
(* (plugins/mgmtops.c).                                                    *)
(*                                                                         *)
(* Commands go to the kernel through a socket and take effect in order;    *)
(* nothing waits for them.  The delay of the events that answer them is    *)
(* counted to the commands.  The functions of adapter.c are operators on   *)
(* the world w, one record, as they call each other.                       *)
(***************************************************************************)
EXTENDS Integers, Sequences

CONSTANTS
  Clients,     \* D-Bus clients that hold discovery sessions
  Devices,     \* remote devices
  Environment, \* what happens besides: "bonding", "power", and "names" if
               \* main_opts.name_resolv is set
  MaxRefs,     \* bound: references of one client to its session
  MaxCommands, \* bound: commands in the socket when another is caused
  MaxOrphans   \* bound: forgotten scheduler sources when a user acts

ASSUME ConstantsAssumption ==
  /\ Environment \subseteq {"bonding", "power", "names"}
  /\ MaxRefs \in Nat \ {0} /\ MaxCommands \in Nat /\ MaxOrphans \in Nat
  /\ "start" \notin Devices /\ "stop" \notin Devices

\* Fields of w:
\*   up, state        of struct btd_adapter
\*   refs             references of each client's session, 0: no session
\*   scheduler_id     the source it names: none, live, or stale (it fired)
\*   orphans          live sources of discovery_cb that it does not name
\*   found            name status of the devices in found_devices, "no": not
\*                    in the list
\*   named            devices with a name in the list
\*   le               devices in the list that were found by LE only
\*   oor              oor_devices, pointers to found devices
\*   bonding          is a bonding request pending?
\*   commands         the socket to the kernel
\*   discovering      is the kernel's discovery running?
\*   asked            devices whose name the kernel is asking for
VARIABLE w

vars == <<w>>

NameStatus == {"no", "required", "requested", "not_required", "short"}

Init == w = [up |-> TRUE, state |-> "IDLE", refs |-> [c \in Clients |-> 0],
             scheduler_id |-> "none", orphans |-> 0,
             found |-> [d \in Devices |-> "no"], named |-> {}, le |-> {}, oor |-> {},
             bonding |-> FALSE, commands |-> << >>, discovering |-> FALSE,
             asked |-> {}]

HasSessions(v) == \E c \in Clients : v.refs[c] > 0
Listed(found) == {d \in Devices : found[d] # "no"}
WithStatus(v, s) == {d \in Devices : v.found[d] = s}
Send(v, command) == [v EXCEPT !.commands = Append(@, command)]

-----------------------------------------------------------------------------
(* adapter_set_state and what it calls.                                    *)

\* g_timeout_add into scheduler_id: a source it named is forgotten.
Schedule(v) == [v EXCEPT !.orphans = @ + (IF v.scheduler_id = "live" THEN 1 ELSE 0),
                         !.scheduler_id = "live"]

Unschedule(v) == [v EXCEPT !.scheduler_id = "none"]

\* Devices not seen since the last update disappear.
update_oor_devices(v) ==
  LET found == [d \in Devices |-> IF d \in v.oor THEN "no" ELSE v.found[d]]
  IN [v EXCEPT !.found = found, !.le = @ \ v.oor, !.oor = Listed(found)]

SetIdle(v) ==
  IF v.state = "IDLE" THEN v
  ELSE LET u == update_oor_devices([v EXCEPT !.state = "IDLE"])
       IN IF HasSessions(u) THEN Schedule(u) ELSE u

SetDiscov(v) == [v EXCEPT !.state = "DISCOV"]

CanResolve(v) == v.state = "SUSPENDED" \/ WithStatus(v, "required") # {}

\* Asks for the next name; the list's order is the order of signal strength.  The
\* kernel's socket takes every command: the devices for which it would not are
\* passed over in the code.
adapter_resolve_names(v) ==
  IF v.state = "SUSPENDED" THEN v
  ELSE LET d == CHOOSE e \in Devices : v.found[e] = "required"
       IN Send([v EXCEPT !.found[d] = "requested"], d)

SetResolvname(v) ==
  IF v.state = "RESOLVNAME" THEN v
  ELSE LET u == [v EXCEPT !.state = "RESOLVNAME"]
       IN IF CanResolve(u) THEN adapter_resolve_names(u) ELSE SetIdle(u)

SetSuspended(v) ==
  IF v.state = "SUSPENDED" THEN v
  ELSE Send(Unschedule([v EXCEPT !.state = "SUSPENDED", !.oor = {}]), "stop")

-----------------------------------------------------------------------------
(* Starting and stopping.                                                  *)

\* The kernel has no command to give up a name request.
pending_remote_name_cancel(v) == IF WithStatus(v, "requested") # {} THEN SetIdle(v) ELSE v

start_discovery(v) ==
  IF v.state \in {"SUSPENDED", "RESOLVNAME"} THEN v
  ELSE Send(pending_remote_name_cancel(v), "start")

\* remove_bredr keeps only devices found by LE.
remove_bredr(v) == [v EXCEPT !.found = [d \in Devices |->
                                          IF d \in v.le THEN v.found[d] ELSE "no"]]

stop_discovery_keep_oor(v, adapter_stop) ==
  LET u == remove_bredr(pending_remote_name_cancel(v))
  IN CASE u.state = "SUSPENDED" -> SetIdle(u)
       [] u.state # "SUSPENDED" /\ adapter_stop -> Send(Unschedule(u), "stop")
       [] OTHER -> Unschedule(u)

stop_discovery(v, adapter_stop) ==
  LET u == [remove_bredr(pending_remote_name_cancel(v)) EXCEPT !.oor = {}]
  IN CASE u.state = "SUSPENDED" -> SetIdle(u)
       [] u.state # "SUSPENDED" /\ adapter_stop -> Send(Unschedule(u), "stop")
       [] OTHER -> Unschedule(u)

\* session_remove: the last session stops the discovery.
session_free(v, c) ==
  LET u == [v EXCEPT !.refs[c] = 0]
  IN IF HasSessions(u) THEN u ELSE stop_discovery(u, TRUE)

adapter_resume_discovery(v) == SetIdle(v)

bonding_request_free(v) ==
  IF v.bonding THEN adapter_resume_discovery([v EXCEPT !.bonding = FALSE]) ELSE v

\* The sessions are freed one by one; only the last one has an effect.
btd_adapter_stop(v) ==
  LET stopped == stop_discovery(bonding_request_free(v), FALSE)
      freed == [stopped EXCEPT !.refs = [c \in Clients |-> 0]]
      u == IF HasSessions(stopped) THEN stop_discovery(freed, TRUE) ELSE freed
  IN [u EXCEPT !.up = FALSE, !.state = "IDLE"]

-----------------------------------------------------------------------------
(* D-Bus clients.                                                          *)

\* Nobody causes more commands while MaxCommands are on their way.
Quiet == Len(w.commands) <= MaxCommands

\* Nor do clients begin or end what may forget another source.
Tidy == Quiet /\ w.orphans <= MaxOrphans

adapter_start_discovery(c) ==
  /\ w.up /\ Tidy /\ w.refs[c] < MaxRefs
  /\ LET u == [w EXCEPT !.refs[c] = @ + 1]
         cleared == [w EXCEPT !.found = [d \in Devices |-> "no"], !.le = {}, !.oor = {}]
     IN w' = IF HasSessions(w) THEN u
             ELSE [start_discovery(cleared) EXCEPT !.refs[c] = 1]

adapter_stop_discovery_unchecked(c) ==
  /\ w.up /\ Quiet
  /\ w' = IF w.refs[c] # 1 THEN [w EXCEPT !.refs[c] = @ - 1] ELSE session_free(w, c)

adapter_stop_discovery(c) ==
  /\ w.up /\ Quiet /\ w.refs[c] > 0
  /\ w' = IF w.refs[c] > 1 THEN [w EXCEPT !.refs[c] = @ - 1] ELSE session_free(w, c)

\* The client leaves the bus; its references do not count any more.
session_owner_exit(c) ==
  /\ Quiet /\ w.refs[c] > 0
  /\ w' = session_free(w, c)

-----------------------------------------------------------------------------
(* Timers and bonding.                                                     *)

discovery_cb_keeps(which) ==
  /\ Quiet
  /\ IF which = "live" THEN w.scheduler_id = "live" ELSE w.orphans > 0
  /\ w.state # "RESOLVNAME"
  /\ w' = start_discovery(w)

\* which: "live" if scheduler_id names the source, "orphan" if not.  The
\* source stays while names are resolved.
discovery_cb(which) ==
  /\ Quiet
  /\ IF which = "live" THEN w.scheduler_id = "live" ELSE w.orphans > 0
  /\ w.state # "RESOLVNAME"
  /\ LET u == IF which = "live" THEN [w EXCEPT !.scheduler_id = "stale"]
                                ELSE [w EXCEPT !.orphans = @ - 1]
     IN w' = start_discovery(u)

\* bonding_request_new; only a discovery with sessions is suspended.
BondingBegins ==
  /\ "bonding" \in Environment /\ Quiet
  /\ w.up /\ ~w.bonding
  /\ LET u == [w EXCEPT !.bonding = TRUE]
     IN w' = IF HasSessions(w) THEN SetSuspended(u) ELSE u

BondingEnds ==
  /\ w.bonding /\ Tidy
  /\ w' = bonding_request_free(w)

-----------------------------------------------------------------------------
(* The kernel and its events (external; mgmtops.c handles them).           *)

\* mgmt_discovering
mgmt_discovering(v, val) ==
  CASE val -> SetDiscov(v)
    [] ~val /\ v.state = "DISCOV" -> SetResolvname(v)
    [] OTHER -> SetIdle(v)

\* A command that the kernel refuses is only logged.
KernelExecutes ==
  /\ w.commands # << >>
  /\ LET command == Head(w.commands)
         v == [w EXCEPT !.commands = Tail(@)]
     IN w' = CASE command = "start" /\ v.up /\ ~v.discovering ->
                    mgmt_discovering([v EXCEPT !.discovering = TRUE], TRUE)
               [] command = "stop" /\ v.discovering ->
                    mgmt_discovering([v EXCEPT !.discovering = FALSE], FALSE)
               [] command \in Devices /\ v.up -> [v EXCEPT !.asked = @ \cup {command}]
               [] OTHER -> v

KernelFinishes ==
  /\ w.discovering /\ Quiet
  /\ w' = mgmt_discovering([w EXCEPT !.discovering = FALSE], FALSE)

\* btd_event_device_found and adapter_update_found_devices.  how: "dual" is an
\* LE result of a device known as a BR/EDR one; has_name: does the result, or
\* the storage, give a name?  Names are asked for BR/EDR devices only.
DeviceFound(d, how, status, has_name) ==
  /\ w.discovering
  /\ status = "required" => how = "bredr" /\ HasSessions(w) /\ "names" \in Environment
  /\ status = "short" => how # "bredr" /\ has_name
  /\ LET new == w.found[d] = "no"
         renamed == has_name /\ (w.found[d] = "short" \/ d \notin w.named)
     IN w' = [w EXCEPT !.found[d] = IF new \/ renamed THEN status ELSE @,
                       !.named = CASE new \/ has_name ->
                                        IF has_name THEN @ \cup {d} ELSE @ \ {d}
                                   [] OTHER -> @,
                       !.oor = @ \ {d},
                       !.le = CASE how = "le" /\ new -> @ \cup {d}
                                [] how # "le" -> @ \ {d}
                                [] OTHER -> @]

\* btd_event_remote_name: the next name is asked for, or it was the last one.
remote_name_stays(v) == IF CanResolve(v) THEN adapter_resolve_names(v) ELSE v

remote_name(v) ==
  CASE CanResolve(v) -> adapter_resolve_names(v)
    [] ~CanResolve(v) /\ v.state = "RESOLVNAME" -> SetIdle(v)
    [] OTHER -> v

\* The request may fail; it is not repeated.
RemoteName(d, ok) ==
  /\ d \in w.asked /\ Quiet
  /\ LET listed == w.found[d] # "no"
         answered == [w EXCEPT !.asked = @ \ {d},
                               !.named = IF ok /\ listed THEN @ \cup {d} ELSE @,
                               !.found[d] = IF listed THEN "not_required" ELSE @]
     IN w' = remote_name(answered)

PowerOff == /\ "power" \in Environment /\ w.up /\ Tidy
            /\ w' = btd_adapter_stop([w EXCEPT !.discovering = FALSE, !.asked = {}])

PowerOn == /\ ~w.up
           /\ w' = [w EXCEPT !.up = TRUE, !.state = "IDLE"]

Next == \/ \E c \in Clients : \/ adapter_start_discovery(c)
                              \/ adapter_stop_discovery(c)
                              \/ session_owner_exit(c)
        \/ \E which \in {"live", "orphan"} : discovery_cb(which)
        \/ BondingBegins \/ BondingEnds
        \/ KernelExecutes \/ KernelFinishes
        \/ \E d \in Devices, how \in {"bredr", "le", "dual"}, has_name \in BOOLEAN,
             status \in {"required", "not_required", "short"} :
             DeviceFound(d, how, status, has_name)
        \/ \E d \in Devices, ok \in BOOLEAN : RemoteName(d, ok)
        \/ PowerOff \/ PowerOn

Spec == Init /\ [][Next]_vars

\* The kernel executes commands, ends discoveries and answers name requests;
\* timers fire; a bonding ends, if only by the kernel's timeout.
Fairness == /\ WF_vars(KernelExecutes) /\ WF_vars(KernelFinishes)
            /\ \A which \in {"live", "orphan"} : WF_vars(discovery_cb(which))
            /\ \A d \in Devices : WF_vars(\E ok \in BOOLEAN : RemoteName(d, ok))
            /\ WF_vars(BondingEnds)
FairSpec == Spec /\ Fairness

-----------------------------------------------------------------------------
(* Properties.                                                             *)

TypeOK ==
  /\ w.up \in BOOLEAN /\ w.bonding \in BOOLEAN /\ w.discovering \in BOOLEAN
  /\ w.state \in {"IDLE", "DISCOV", "RESOLVNAME", "SUSPENDED"}
  /\ w.refs \in [Clients -> 0..MaxRefs]
  /\ w.scheduler_id \in {"none", "live", "stale"}
  /\ w.orphans \in Nat
  /\ w.found \in [Devices -> NameStatus]
  /\ w.named \subseteq Devices
  /\ w.le \subseteq Devices /\ w.oor \subseteq Devices /\ w.asked \subseteq Devices
  /\ w.commands \in Seq({"start", "stop"} \cup Devices)

\* oor_devices points into found_devices: update_oor_devices frees what it
\* points to, so no pointer in it may outlive its device.
OorInFound == w.oor \subseteq Listed(w.found)

\* Name resolution ends: while the adapter resolves names, a name is asked
\* for.
Resolving == w.state = "RESOLVNAME" => w.asked # {} \/ \E i \in DOMAIN w.commands :
                                                         w.commands[i] \in Devices

\* adapter-api.txt on Discovering: it "indicates that a device discovery
\* procedure is active"; it is true exactly while the kernel discovers, once
\* it has executed the commands.
DiscoveringTold == w.commands = << >> => (w.state = "DISCOV" <=> w.discovering)

\* StartDiscovery "includes an inquiry procedure" for as long as the session
\* is held: discoveries are repeated for ever.
KeepsDiscovering == []<>(w.discovering \/ ~HasSessions(w) \/ ~w.up)

\* Once no client holds a session any more, discoveries end for good: no
\* source of discovery_cb, forgotten or not, keeps starting new ones.
DiscoveryEnds == <>[](~HasSessions(w)) => <>[](~w.discovering)

=============================================================================
