------------------------------- MODULE Input -------------------------------
(***************************************************************************)
(* input/device.c and input/server.c: the HID connection of one device, a   *)
(* control and an interrupt channel that are handed to the kernel's HIDP    *)
(* session.  A client connects, or the device does after authorization; a   *)
(* keyboard's link is encrypted first.                                     *)
(***************************************************************************)
EXTENDS Naturals

CONSTANT Environment \* which of these happen as well: the device connects while we do
                     \* ("crossing") or "again" while connected, it stops "half" way, the
                     \* encryption succeeds "late", when its channels are gone, a client disconnects to
                     \* "cancel" a connect, the device is unregistered ("remove") meanwhile

VARIABLE i

\* A channel: none, connecting (ours), open, hung up, or closed by us.  A closed
\* channel that is connecting calls nobody back.
\* pending: pending_connect; wants: its client has no answer (history); enc: the
\* link is being encrypted; kernel: the HIDP session; told: the Connected that
\* was signalled; dc_id, and watches: the disconnect watches that exist; confirm:
\* the device's control channel before it is ours; fault: freed memory was used.
Init == i = [reg |-> FALSE, pending |-> FALSE, wants |-> FALSE, ctrl |-> "none", intr |-> "none",
             ctrl_watch |-> FALSE, intr_watch |-> FALSE, enc |-> FALSE, kernel |-> FALSE,
             told |-> FALSE, dc_id |-> FALSE, watches |-> 0, confirm |-> "none", fault |-> FALSE]

Quiet(x) == x.ctrl = "none" /\ x.intr = "none" /\ ~x.ctrl_watch /\ ~x.intr_watch
Connecting(x) == x.pending /\ "connecting" \in {x.ctrl, x.intr}

\* g_io_channel_shutdown of a channel that may be there.
Shut(c) == IF c = "none" THEN "none" ELSE "closed"

-----------------------------------------------------------------------------
(* Both channels are there.                                                *)

ioctl_connadd(x, ok) == IF ok THEN [x EXCEPT !.kernel = TRUE] ELSE x

\* result: the session exists, could not be added, or waits for encryption.
input_device_connected(x, result) ==
  LET y == [x EXCEPT !.intr_watch = TRUE, !.ctrl_watch = TRUE, !.dc_id = TRUE, !.watches = @ + 1]
  IN IF result = "enc" THEN [y EXCEPT !.enc = TRUE]
     ELSE [ioctl_connadd(y, TRUE) EXCEPT !.told = TRUE]

input_device_connadd(x, result) ==
  IF result = "fail" THEN [x EXCEPT !.ctrl = "none", !.intr = "none"]
  ELSE input_device_connected(x, result)

\* The descriptors are closed under the channels if it fails.
encrypt_completed(encrypted, added) ==
  /\ i.enc
  /\ encrypted /\ ~i.intr_watch => "late" \in Environment
  /\ added => encrypted /\ {i.ctrl, i.intr} = {"open"}
  /\ LET x == [i EXCEPT !.enc = FALSE, !.told = @ \/ encrypted, !.fault = @ \/ ~i.reg]
     IN i' = IF added THEN ioctl_connadd(x, TRUE)
             ELSE [x EXCEPT !.ctrl = Shut(@), !.intr = Shut(@)]

-----------------------------------------------------------------------------
(* A client connects and disconnects.                                      *)

input_device_connect ==
  /\ i.reg /\ ~i.pending /\ ~i.kernel
  /\ "crossing" \in Environment \/ (Quiet(i) /\ i.confirm = "none")
  /\ i.enc => "late" \in Environment
  /\ i' = [i EXCEPT !.pending = TRUE, !.wants = TRUE, !.ctrl = "connecting"]

control_connect_cb(ok) ==
  /\ i.pending /\ i.ctrl = "connecting"
  /\ i' = IF ok THEN [i EXCEPT !.ctrl = "open", !.intr = "connecting"]
          ELSE [i EXCEPT !.ctrl = "none", !.pending = FALSE, !.wants = FALSE]

\* After a failure the client is answered, but pending_connect stays.
interrupt_connect_cb(result) ==
  /\ i.pending /\ i.intr = "connecting"
  /\ i.ctrl # "open" => result # "ok"
  /\ LET answered == [i EXCEPT !.wants = FALSE, !.intr = "open"]
     IN i' = IF result = "fail" THEN [answered EXCEPT !.intr = "none", !.ctrl = "none"]
             ELSE [input_device_connected(answered, result) EXCEPT !.pending = FALSE]

\* Also when nothing is connected: whatever channels there are are shut down.
connection_disconnect(x) ==
  [x EXCEPT !.intr = Shut(@), !.ctrl = Shut(@), !.kernel = FALSE]

input_device_disconnect ==
  /\ i.reg /\ (i.kernel \/ ~Quiet(i))
  /\ Connecting(i) => "cancel" \in Environment
  /\ ~i.ctrl_watch /\ ~Connecting(i) => "half" \in Environment
  /\ i' = connection_disconnect(i)

\* The link goes, or the device is to be removed: the watches are called.
disconnect_cb == i.watches > 0 /\ i' = connection_disconnect(i)

-----------------------------------------------------------------------------
(* The channels end.                                                       *)

\* The device hangs up; the session ends with both channels.
Hangup ==
  /\ "open" \in {i.ctrl, i.intr}
  /\ ~i.ctrl_watch /\ ~Connecting(i) => "half" \in Environment
  /\ i' = [i EXCEPT !.ctrl = IF @ = "open" THEN "hup" ELSE @,
                    !.intr = IF @ = "open" THEN "hup" ELSE @,
                    !.kernel = FALSE]

\* Mutant: the watch on the link stays.
intr_watch_cb_linked ==
  /\ i.intr_watch /\ i.intr \in {"hup", "closed"}
  /\ i' = [i EXCEPT !.told = FALSE, !.dc_id = FALSE, !.intr_watch = FALSE, !.intr = "none",
                    !.ctrl = IF i.intr = "hup" THEN Shut(@) ELSE @]

intr_watch_cb ==
  /\ i.intr_watch /\ i.intr \in {"hup", "closed"}
  /\ i' = [i EXCEPT !.told = FALSE, !.watches = IF i.dc_id THEN @ - 1 ELSE @, !.dc_id = FALSE,
                    !.intr_watch = FALSE, !.intr = "none",
                    !.ctrl = IF i.intr = "hup" THEN Shut(@) ELSE @]

ctrl_watch_cb ==
  /\ i.ctrl_watch /\ i.ctrl \in {"hup", "closed"}
  /\ i' = [i EXCEPT !.ctrl_watch = FALSE, !.ctrl = "none",
                    !.intr = IF i.ctrl = "hup" THEN Shut(@) ELSE @]

-----------------------------------------------------------------------------
(* The device connects: server.c.                                          *)

input_device_close_channels(x) ==
  IF x.reg THEN [x EXCEPT !.intr = Shut(@), !.ctrl = Shut(@)] ELSE x

MayArrive == /\ i.enc => "late" \in Environment
             /\ Connecting(i) => "crossing" \in Environment
             /\ i.kernel \/ i.ctrl_watch \/ i.intr_watch => "again" \in Environment
             /\ i.ctrl # "none" /\ ~i.ctrl_watch /\ ~Connecting(i) => "half" \in Environment

\* A second channel while the first is not authorized is refused.
confirm_event_cb(asked) ==
  /\ MayArrive
  /\ IF i.confirm # "auth" /\ asked THEN i' = [i EXCEPT !.confirm = "auth"]
     ELSE i' = input_device_close_channels(i)

auth_callback(ok) ==
  /\ i.confirm = "auth"
  /\ i' = IF ok THEN [i EXCEPT !.confirm = "accepted"]
          ELSE input_device_close_channels([i EXCEPT !.confirm = "none"])

\* The control channel, which has no watch yet; unless it is there already.
connect_event_cb(ok) ==
  /\ i.confirm = "accepted"
  /\ i' = [i EXCEPT !.confirm = "none",
                    !.ctrl = IF ok /\ i.reg /\ @ = "none" THEN "open" ELSE @]

\* The interrupt channel follows: input_device_set_channel.
input_device_set_channel(result) ==
  /\ i.reg /\ i.intr = "none" /\ i.ctrl # "none" /\ ~i.ctrl_watch
  /\ i.ctrl = "connecting" => "crossing" \in Environment
  /\ i.ctrl # "open" => result = "fail"
  /\ i' = input_device_connadd([i EXCEPT !.intr = "open"], result)

-----------------------------------------------------------------------------

input_device_register == ~i.reg /\ ~i.kernel /\ i' = [i EXCEPT !.reg = TRUE]

\* Refused while a connect is pending, not while the link is being encrypted.
input_device_unregister ==
  /\ i.reg /\ ~i.pending
  /\ i.enc => "remove" \in Environment
  /\ i' = [i EXCEPT !.reg = FALSE, !.ctrl = "none", !.intr = "none", !.ctrl_watch = FALSE,
                    !.intr_watch = FALSE, !.watches = IF i.dc_id THEN @ - 1 ELSE @,
                    !.dc_id = FALSE, !.told = FALSE]

\* The session ends with the link, which device.c takes down.
LinkEnds == ~i.reg /\ i.kernel /\ i' = [i EXCEPT !.kernel = FALSE]

Next == \/ input_device_connect \/ input_device_disconnect \/ disconnect_cb
        \/ \E ok \in BOOLEAN : \/ control_connect_cb(ok) \/ confirm_event_cb(ok)
                               \/ auth_callback(ok) \/ connect_event_cb(ok)
        \/ \E ok, added \in BOOLEAN : encrypt_completed(ok, added)
        \/ \E result \in {"ok", "fail", "enc"} : \/ interrupt_connect_cb(result)
                                                 \/ input_device_set_channel(result)
        \/ Hangup \/ intr_watch_cb \/ ctrl_watch_cb
        \/ input_device_register \/ input_device_unregister \/ LinkEnds

Spec == Init /\ [][Next]_i

-----------------------------------------------------------------------------

\* A channel stays only if somebody will see its end, or the device is about to
\* open the other one; the watch on the link is there as long as that of the
\* interrupt channel, and never twice.
Watched ==
  /\ i.ctrl_watch => i.ctrl # "none"
  /\ i.intr_watch => i.intr # "none"
  /\ i.intr # "none" => i.intr_watch \/ (i.intr = "connecting" /\ i.pending)
  /\ i.ctrl \in {"hup", "closed"} => i.ctrl_watch \/ i.intr = "connecting"
  /\ i.watches = IF i.dc_id THEN 1 ELSE 0
  /\ i.dc_id <=> i.intr_watch

\* Connected is signalled as the kernel has it, or its end is about to be seen.
Shown == /\ i.told => i.kernel \/ i.intr \in {"hup", "closed"}
         /\ i.kernel /\ i.reg => i.told

\* A client that connects is answered: its channel is being connected.
Answered == i.wants => Connecting(i)

\* No connection is used after it was freed.
NoFault == ~i.fault
=============================================================================
