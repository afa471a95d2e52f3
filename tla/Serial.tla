-------------------------------- MODULE Serial --------------------------------
(***************************************************************************)
(* The serial plugin, two parts that share no state: the ports of a device,*)
(* in p, and a proxy, in r.                                                *)
(*                                                                         *)
(* serial/port.c: the serial ports of one device.  Connect searches for the *)
(* service, connects RFCOMM, has the kernel create a terminal and opens it, *)
(* again and again until its node is there.                                *)
(***************************************************************************)
EXTENDS Naturals, Sequences, SequencesExt

CONSTANTS Ports,
          Services, \* the ports of a service, which is searched for; the others have a channel
          MAX_OPEN_TRIES,
          Environment \* which of these happen as well: "two" searches at once, a search after a
                      \* connect that failed ("again"), a terminal that
                      \* cannot be opened ("giveup"), a connect while a timer of the port's last
                      \* owner runs ("late"), an owner who disconnects before it is
                      \* answered ("cancel"), the device goes ("remove") while a timer runs

VARIABLE p

\* context_list: the searches under way, by port; ntries: the tries that are left, of all
\* ports together.  Of a port: listener: it has an owner, who is watched; io: the channel,
\* or one that failed; dev: its terminal; timers: open_continue; wants: the
\* owner has no answer (history); fault: freed memory or a null message was used.
PortInit == p = [reg |-> FALSE, context_list |-> <<>>, ntries |-> MAX_OPEN_TRIES, fault |-> FALSE,
                 listener |-> [q \in Ports |-> FALSE], io |-> [q \in Ports |-> "none"],
                 dev |-> [q \in Ports |-> FALSE], fd |-> [q \in Ports |-> FALSE],
                 timers |-> [q \in Ports |-> 0], wants |-> [q \in Ports |-> FALSE]]

Searching(x, q) == Contains(x.context_list, q)

\* The oldest search for the device is given up, whoever asked for it.
bt_cancel_discovery(x) ==
  IF x.context_list = <<>> THEN x ELSE [x EXCEPT !.context_list = Tail(@)]

port_release(x, q) ==
  CASE x.dev[q] -> [x EXCEPT !.dev[q] = FALSE, !.fd[q] = FALSE]
    [] ~x.dev[q] /\ x.io[q] # "none" -> [x EXCEPT !.io[q] = "none"]
    [] OTHER -> bt_cancel_discovery(x)

Failed(x, q) == [x EXCEPT !.listener[q] = FALSE, !.wants[q] = FALSE]

-----------------------------------------------------------------------------

port_connect(q) ==
  /\ p.reg /\ ~p.listener[q]
  /\ p.timers[q] > 0 => "late" \in Environment
  /\ q \in Services /\ p.context_list # <<>> => "two" \in Environment
  /\ q \in Services /\ p.io[q] # "none" => "again" \in Environment
  /\ LET x == [p EXCEPT !.listener[q] = TRUE, !.wants[q] = TRUE]
     IN p' = IF q \in Services THEN [x EXCEPT !.context_list = Append(@, q)]
             ELSE [x EXCEPT !.io[q] = "connecting"]

get_record_cb(q, ok) ==
  /\ Searching(p, q)
  /\ LET x == [p EXCEPT !.context_list = SelectSeq(@, LAMBDA o : o # q)]
     IN p' = CASE ~p.listener[q] -> [x EXCEPT !.fault = TRUE]
               [] p.listener[q] /\ ok -> [x EXCEPT !.io[q] = "connecting"]
               [] OTHER -> Failed(x, q)

\* After an error the channel is kept.  Otherwise it becomes a terminal.
rfcomm_connect_cb(q, result) ==
  /\ p.io[q] = "connecting"
  /\ p' = CASE result = "error" -> Failed([p EXCEPT !.io[q] = "dead"], q)
            [] result = "nodevice" -> Failed([p EXCEPT !.io[q] = "none"], q)
            [] result = "wait" -> [p EXCEPT !.io[q] = "none", !.dev[q] = TRUE, !.timers[q] = @ + 1]
            [] OTHER -> [p EXCEPT !.io[q] = "none", !.dev[q] = TRUE, !.fd[q] = TRUE,
                                  !.wants[q] = FALSE]

\* open_notify, and the answer.
open_notify(x, q, ok) ==
  IF ok THEN [x EXCEPT !.fd[q] = TRUE, !.wants[q] = FALSE]
  ELSE [port_release(x, q) EXCEPT !.wants[q] = FALSE]

open_continue(q, ok) ==
  /\ p.timers[q] > 0
  /\ LET ended == [p EXCEPT !.timers[q] = @ - 1]
     IN CASE ~p.listener[q] -> p' = ended
          [] p.listener[q] /\ ok -> p.dev[q] /\ p' = open_notify(ended, q, TRUE)
          [] p.listener[q] /\ ~ok /\ p.ntries > 1 -> p' = [p EXCEPT !.ntries = @ - 1]
          [] OTHER -> /\ "giveup" \in Environment
                      /\ p' = open_notify([ended EXCEPT !.ntries = MAX_OPEN_TRIES], q, FALSE)

\* Mutant: the channel or the terminal is left.
port_owner_exited_kept(q) ==
  /\ p.listener[q]
  /\ p' = [p EXCEPT !.listener[q] = FALSE, !.wants[q] = FALSE]

port_owner_exited(q) ==
  /\ p.listener[q]
  /\ p' = [port_release(p, q) EXCEPT !.listener[q] = FALSE, !.wants[q] = FALSE]

port_disconnect(q) ==
  /\ p.reg /\ p.listener[q]
  /\ p.wants[q] => "cancel" \in Environment
  /\ p' = [port_release(p, q) EXCEPT !.listener[q] = FALSE]

port_register == ~p.reg /\ p' = [p EXCEPT !.reg = TRUE]

\* Every port is released and freed; its timer is not removed.
port_unregister ==
  /\ p.reg
  /\ (\E q \in Ports : p.timers[q] > 0 \/ p.wants[q]) => "remove" \in Environment
  /\ LET x == FoldFunctionOnSet(LAMBDA q, y : port_release(y, q), p, [q \in Ports |-> q], Ports)
     IN p' = [x EXCEPT !.reg = FALSE, !.listener = [q \in Ports |-> FALSE],
                       !.timers = [q \in Ports |-> 0],
                       !.fault = @ \/ \E q \in Ports : x.timers[q] > 0]

PortNext == \/ \E q \in Ports :
                 \/ \E ok \in BOOLEAN : get_record_cb(q, ok) \/ open_continue(q, ok)
                 \/ \E result \in {"ok", "wait", "nodevice", "error"} : rfcomm_connect_cb(q, result)
                 \/ port_connect(q) \/ port_owner_exited(q) \/ port_disconnect(q)
            \/ port_register \/ port_unregister

PortSpec == PortInit /\ [][PortNext]_p

-----------------------------------------------------------------------------

\* A port that has an owner is connected or being connected; otherwise it could not be used
\* again.  One without has no channel, terminal or search.
Used == \A q \in Ports :
          /\ p.listener[q] => Searching(p, q) \/ p.io[q] = "connecting" \/ p.dev[q]
          /\ ~p.listener[q] => ~Searching(p, q) /\ p.io[q] # "connecting" /\ ~p.dev[q]

\* An owner who has no answer waits for something that is under way, once.
Answered == \A q \in Ports :
              /\ p.wants[q] => Searching(p, q) \/ p.io[q] = "connecting" \/ p.timers[q] > 0
              /\ p.timers[q] > 0 /\ p.listener[q] => p.wants[q] /\ p.timers[q] = 1 /\ p.dev[q]

PortNoFault == ~p.fault

-----------------------------------------------------------------------------
(***************************************************************************)
(* serial/proxy.c: a proxy that a client creates and enables; a device that *)
(* connects to its RFCOMM channel is authorized and joined to a local       *)
(* terminal or socket.                                                     *)
(***************************************************************************)

\* Environment, in this part: which of these happen as well: the proxy goes while it is enabled
\* ("remove"), its record cannot be added ("record"), it is disabled
\* during an authorization ("late")

VARIABLE r

\* io: it listens; rfcomm: the stage of the device's channel; auth: auth_cb is to come; local:
\* the local channel; watching: the channels that forward_data watches, hup: that
\* have ended; fault: freed memory or null was used.
ProxyInit == r = [exists |-> FALSE, watch |-> FALSE, io |-> FALSE, record_id |-> FALSE,
                  rfcomm |-> "none", auth |-> FALSE, local |-> FALSE, watching |-> {}, hup |-> {},
                  fault |-> FALSE]

Closed(y) == [y EXCEPT !.rfcomm = "none", !.local = FALSE, !.watching = {}, !.hup = {}]

\* By a client, who is watched, or from the configuration.
create_proxy(watched) == ~r.exists /\ ~r.io /\ r' = [r EXCEPT !.exists = TRUE, !.watch = watched]

\* RemoveProxy, the client is gone, or the adapter is.
unregister_proxy ==
  /\ r.exists
  /\ r.io => "remove" \in Environment
  /\ r' = [r EXCEPT !.exists = FALSE, !.watch = FALSE]

\* If the record fails the pointer to the freed channel stays.
enable_proxy(ok) ==
  /\ r.exists /\ ~r.io
  /\ ~ok => "record" \in Environment
  /\ r' = [r EXCEPT !.io = TRUE, !.record_id = ok]

disable_proxy ==
  /\ r.exists /\ r.io
  /\ r.auth => "late" \in Environment
  /\ r' = [Closed(r) EXCEPT !.record_id = FALSE, !.io = FALSE]

\* A second device is refused.
confirm_event_cb ==
  /\ r.io /\ r.rfcomm = "none"
  /\ r' = [r EXCEPT !.rfcomm = "asked", !.auth = TRUE, !.fault = @ \/ ~r.exists]

auth_cb(ok) ==
  /\ r.auth
  /\ LET y == [r EXCEPT !.auth = FALSE, !.fault = @ \/ ~r.exists \/ r.rfcomm = "none"]
     IN r' = IF ok /\ r.rfcomm # "none" THEN [y EXCEPT !.rfcomm = "accepted"] ELSE Closed(y)

connect_event_cb(ok) ==
  /\ r.rfcomm = "accepted"
  /\ r' = IF ok THEN [r EXCEPT !.rfcomm = "open", !.local = TRUE, !.watching = {"rfcomm", "local"}]
          ELSE Closed(r)

Hangup(c) == r.local /\ c \notin r.hup /\ r' = [r EXCEPT !.hup = @ \cup {c}]

Other(c) == IF c = "rfcomm" THEN "local" ELSE "rfcomm"

\* Both channels are closed after one has ended; the watch of one that cannot be
\* forwarded is dropped.
forward_data(c) ==
  /\ c \in r.watching
  /\ r' = IF c \in r.hup THEN Closed(r)
          ELSE [r EXCEPT !.watching = IF Other(c) \in r.hup THEN @ \ {c} ELSE @]

ProxyNext == \/ \E ok \in BOOLEAN : \/ create_proxy(ok) \/ enable_proxy(ok) \/ auth_cb(ok)
                                    \/ connect_event_cb(ok)
             \/ unregister_proxy \/ disable_proxy \/ confirm_event_cb
             \/ \E c \in {"rfcomm", "local"} : Hangup(c) \/ forward_data(c)

ProxySpec == ProxyInit /\ [][ProxyNext]_r

-----------------------------------------------------------------------------

\* A proxy listens while it exists and is advertised.
Listening == r.io => r.exists /\ r.record_id

\* A device that is connected holds the proxy only until something under way ends, or
\* until the end of either channel is seen.
InUse == /\ r.rfcomm = "asked" <=> r.auth
         /\ r.local <=> r.rfcomm = "open"
         /\ r.rfcomm = "open" => r.watching # {}
         /\ r.rfcomm = "open" /\ r.hup # {} => r.hup \cap r.watching # {}

ProxyNoFault == ~r.fault
===============================================================================
