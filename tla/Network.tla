------------------------------- MODULE Network --------------------------------
(***************************************************************************)
(* The network plugin, two parts that share no state: a connection that is *)
(* made, in n, and the access point, in s.                                 *)
(*                                                                         *)
(* network/connection.c: one network connection that a client of the        *)
(* D-Bus interface makes: an L2CAP channel, the BNEP setup over it within a  *)
(* time limit, and the kernel's network interface.                          *)
(***************************************************************************)

CONSTANT Environment \* which of these happen as well: the device sends something "other" than
                     \* the answer first, the client aborts ("cancel") its connect, a new
                     \* connect comes before the watch of the last one ended ("reuse"), the
                     \* time limit is over in the turn of the main loop in which the client
                     \* leaves or the link is disconnected ("timeout"), the device is removed
                     \* ("remove") while a connection exists

VARIABLE n

\* io: the channel, while it is connected and the setup is done over it; setup: its watch;
\* stale: such a watch after the channel was shut down; kernel: the network interface;
\* watchdog: the watch over it; watch: the client's; wants: the client has no answer
\* (history); told: the Connected that was signalled; fault: freed memory or null was used.
ConnectionInit == n = [reg |-> FALSE, state |-> "DISCONNECTED", io |-> "none", setup |-> FALSE,
                       stale |-> FALSE, dc_timer |-> FALSE, kernel |-> FALSE, watchdog |-> FALSE,
                       watch |-> FALSE, dc_id |-> FALSE, wants |-> FALSE, told |-> FALSE, fault |-> FALSE]

cancel_connection(x, answered) ==
  [x EXCEPT !.watch = FALSE, !.wants = @ /\ ~answered, !.fault = @ \/ x.io = "none",
            !.io = "none", !.state = "DISCONNECTED", !.setup = FALSE, !.stale = @ \/ x.setup]

\* The interface goes down; the watchdog sees the channel end.
connection_destroy(x) ==
  CASE x.state = "CONNECTED" -> [x EXCEPT !.kernel = FALSE]
    [] x.state # "CONNECTED" /\ x.io # "none" -> cancel_connection(x, FALSE)
    [] OTHER -> x

-----------------------------------------------------------------------------
(* A connection is made.                                                   *)

connection_connect ==
  /\ n.reg /\ n.state = "DISCONNECTED"
  /\ n.stale => "reuse" \in Environment
  /\ n' = [n EXCEPT !.io = "connecting", !.state = "CONNECTING", !.wants = TRUE, !.watch = TRUE]

connect_cb(ok) ==
  /\ n.io = "connecting"
  /\ n' = IF ok THEN [n EXCEPT !.io = "open", !.setup = TRUE, !.dc_timer = TRUE]
          ELSE cancel_connection(n, TRUE)

\* Mutant: the setup fails without an answer.
bnep_setup_cb_silent(result) ==
  /\ n.setup
  /\ result = "other" => "other" \in Environment
  /\ LET x == [n EXCEPT !.dc_timer = FALSE]
     IN n' = CASE result = "other" -> x
               [] result = "fail" -> cancel_connection([x EXCEPT !.setup = FALSE], FALSE)
               [] OTHER -> [x EXCEPT !.setup = FALSE, !.io = "none", !.state = "CONNECTED",
                                     !.kernel = TRUE, !.watchdog = TRUE, !.dc_id = TRUE,
                                     !.wants = FALSE, !.told = TRUE]

\* Whatever comes stops the timer.
bnep_setup_cb(result) ==
  /\ n.setup
  /\ result = "other" => "other" \in Environment
  /\ LET x == [n EXCEPT !.dc_timer = FALSE]
     IN n' = CASE result = "other" -> x
               [] result = "fail" -> cancel_connection([x EXCEPT !.setup = FALSE], TRUE)
               [] OTHER -> [x EXCEPT !.setup = FALSE, !.io = "none", !.state = "CONNECTED",
                                     !.kernel = TRUE, !.watchdog = TRUE, !.dc_id = TRUE,
                                     !.wants = FALSE, !.told = TRUE]

\* The same callback, for a channel that was shut down.
SetupEnds == /\ n.stale
             /\ n' = [n EXCEPT !.stale = FALSE, !.dc_timer = FALSE, !.fault = @ \/ ~n.reg]

\* cancel_connection leaves the timer, which is stopped by the watch of the channel that
\* was shut down, unless it is dispatched first.
disconnect_timeout ==
  /\ n.dc_timer
  /\ n.stale => "timeout" \in Environment
  /\ n' = cancel_connection([n EXCEPT !.dc_timer = FALSE], TRUE)

-----------------------------------------------------------------------------
(* It ends.                                                                *)

\* Only the client that connected may do so.
connection_disconnect ==
  /\ n.reg /\ n.state # "DISCONNECTED"
  /\ n.wants => "cancel" \in Environment
  /\ n' = connection_destroy(n)

\* The client has left the bus.
ClientGone == n.watch /\ n' = connection_destroy([n EXCEPT !.watch = FALSE, !.wants = FALSE])

\* The link is being disconnected.
disconnect_cb == n.dc_id /\ n' = connection_destroy(n)

Hangup == n.kernel /\ n' = [n EXCEPT !.kernel = FALSE]

connection_bnep_watchdog_cb ==
             /\ n.watchdog /\ ~n.kernel
             /\ n' = [n EXCEPT !.watchdog = FALSE, !.told = FALSE, !.dc_id = FALSE, !.watch = FALSE,
                               !.state = "DISCONNECTED", !.fault = @ \/ ~n.reg]

connection_register == ~n.reg /\ n' = [n EXCEPT !.reg = TRUE]

connection_unregister ==
  /\ n.reg
  /\ n.state # "DISCONNECTED" \/ n.stale => "remove" \in Environment
  /\ n' = [connection_destroy([n EXCEPT !.dc_id = FALSE, !.dc_timer = FALSE]) EXCEPT !.reg = FALSE]

ConnectionNext == \/ connection_connect \/ SetupEnds \/ disconnect_timeout \/ connection_disconnect
                  \/ \E ok \in BOOLEAN : connect_cb(ok)
                  \/ \E result \in {"ok", "fail", "other"} : bnep_setup_cb(result)
                  \/ ClientGone \/ disconnect_cb \/ Hangup \/ connection_bnep_watchdog_cb
                  \/ connection_register \/ connection_unregister

ConnectionSpec == ConnectionInit /\ [][ConnectionNext]_n

-----------------------------------------------------------------------------

\* A connect that has no answer is under way, and its setup has a time limit; the
\* timer never outlives the setup.
Answered == /\ n.wants => n.state = "CONNECTING"
            /\ n.state = "CONNECTING" <=> n.io # "none"
            /\ n.io = "open" => n.dc_timer /\ n.setup
            /\ n.dc_timer => n.io = "open" \/ n.stale

\* Connected is what was signalled; somebody watches the interface and the link.
Watched == /\ n.state = "CONNECTED" <=> n.watchdog
           /\ n.told <=> n.watchdog
           /\ n.kernel => n.watchdog /\ n.dc_id

ConnectionNoFault == ~n.fault

-----------------------------------------------------------------------------
(***************************************************************************)
(* network/server.c: the network access point.  A client of the D-Bus       *)
(* interface registers it; devices connect, one after the other, are        *)
(* authorized, set up BNEP and get a network interface of the kernel.        *)
(***************************************************************************)

CONSTANTS Devices

\* Environment, in this part: which of these happen as well: a device that the adapter does not know
\* connects ("unknown"), the adapter goes ("remove") while an
\* authorization, an accept or the registration's watch is there, it
\* comes back before the interfaces it left have ended ("leak")

VARIABLE s

\* setup: the stage of the connection that is set up, and dst its device; auth: auth_cb is
\* to come; record: the service is registered; watch_id: its client's watch; sessions:
\* the devices with a session; kernel: with an interface; fault: freed memory or null was used.
None == "none"
ServerInit == s = [reg |-> FALSE, record |-> FALSE, watch_id |-> FALSE, setup |-> "none", dst |-> None,
                   auth |-> FALSE, timer |-> FALSE, sessions |-> {}, kernel |-> {}, fault |-> FALSE]

setup_destroy(x) == [x EXCEPT !.setup = "none", !.dst = None, !.timer = FALSE]

-----------------------------------------------------------------------------
(* A device connects.                                                      *)

\* how: what is known of its authentication, and whether authorization can be asked for.
confirm_event(d, how) ==
  /\ s.reg /\ s.setup = "none" /\ s.record
  /\ how = "unknown" => "unknown" \in Environment
  /\ LET x == [s EXCEPT !.dst = d, !.setup = "asked"]
     IN s' = CASE how = "unknown" -> x
               [] how = "authenticating" -> [x EXCEPT !.timer = TRUE]
               [] how = "ok" -> [x EXCEPT !.auth = TRUE]
               [] OTHER -> setup_destroy(x)

\* Again every few seconds, while the device is being authenticated.
authorization_handler(how) ==
  /\ s.timer
  /\ s' = IF how = "ok" THEN [s EXCEPT !.timer = FALSE, !.auth = TRUE] ELSE setup_destroy(s)

auth_cb(ok) ==
  /\ s.auth
  /\ LET x == [s EXCEPT !.auth = FALSE, !.fault = @ \/ ~s.reg \/ s.setup = "none"]
     IN s' = IF ok /\ s.setup # "none" THEN [x EXCEPT !.setup = "accepted"] ELSE setup_destroy(x)

connect_event(ok) ==
  /\ s.setup = "accepted"
  /\ LET x == [s EXCEPT !.fault = @ \/ ~s.reg]
     IN s' = IF ok THEN [x EXCEPT !.setup = "open"] ELSE setup_destroy(x)

\* The request, a hangup or nonsense; the kernel has one interface for a device.
bnep_setup(ok) ==
  /\ s.setup = "open"
  /\ s' = IF ok /\ s.record /\ s.dst \notin s.kernel
          THEN setup_destroy([s EXCEPT !.sessions = @ \cup {s.dst}, !.kernel = @ \cup {s.dst}])
          ELSE setup_destroy(s)

\* The device goes, or a client calls DisconnectDevice.
disconnect_device(d) == d \in s.kernel /\ s' = [s EXCEPT !.kernel = @ \ {d}]

server_bnep_watchdog_cb(d) ==
         /\ d \in s.sessions \ s.kernel
         /\ s' = [s EXCEPT !.sessions = @ \ {d}]

-----------------------------------------------------------------------------
(* The service.                                                            *)

register_server ==
  /\ s.reg /\ ~s.record
  /\ s' = [s EXCEPT !.record = TRUE, !.watch_id = TRUE]

\* unregister_server, or the client that registered has left the bus.
server_disconnect ==
  /\ s.watch_id
  /\ s' = [s EXCEPT !.record = FALSE, !.watch_id = FALSE, !.fault = @ \/ ~s.reg]

server_register ==
  /\ ~s.reg /\ ~s.watch_id
  /\ s.kernel # {} => "leak" \in Environment
  /\ s' = [s EXCEPT !.reg = TRUE]

\* The sessions are freed, their interfaces are not.
server_unregister ==
  /\ s.reg
  /\ s.auth \/ s.setup = "accepted" \/ s.watch_id => "remove" \in Environment
  /\ s' = [s EXCEPT !.reg = FALSE, !.record = FALSE, !.sessions = {}, !.timer = FALSE, !.dst = None,
                    !.setup = IF @ = "accepted" THEN @ ELSE "none"]

ServerNext == \/ \E d \in Devices :
                   \/ \E how \in {"unknown", "authenticating", "ok", "fail"} : confirm_event(d, how)
                   \/ disconnect_device(d) \/ server_bnep_watchdog_cb(d)
              \/ \E how \in {"ok", "fail"} : authorization_handler(how)
              \/ \E ok \in BOOLEAN : auth_cb(ok) \/ connect_event(ok) \/ bnep_setup(ok)
              \/ register_server \/ server_disconnect \/ server_register \/ server_unregister

ServerSpec == ServerInit /\ [][ServerNext]_s

-----------------------------------------------------------------------------

\* The one connection that is set up ends: something is under way for it.  Otherwise
\* every later device is refused.
SetupUnderWay == /\ s.setup = "asked" <=> s.auth \/ s.timer
                 /\ ~(s.auth /\ s.timer)
                 /\ s.setup \in {"none", "asked", "accepted", "open"}
                 /\ s.setup # "none" => s.reg

\* Every network interface belongs to a session, so that its end is signalled.
InterfacesOwned == s.reg => s.kernel \subseteq s.sessions

\* The service is advertised while its client is watched.
Registered == s.record <=> s.watch_id

ServerNoFault == ~s.fault
===============================================================================
