---------------------------- MODULE MgmtBackend ----------------------------
(***************************************************************************)
(* plugins/mgmtops.c with src/manager.c: controllers that come and go on the  *)
(* management socket.  After its start the daemon asks for those that are      *)
(* there, their connections and their information, and registers an adapter   *)
(* for each; power, connections, encryption and out of band data are then     *)
(* told by messages that come in order, later than what they tell.           *)
(***************************************************************************)
EXTENDS Integers, Sequences, FiniteSets, SequencesExt

CONSTANTS
  Indices,     \* of controllers
  Devices,     \* remote ones
  ANDROID,     \* manager_find_adapter takes every adapter for the one it looks for
  MaxMessages, \* nothing else happens while so many messages wait
  Environment  \* what makes it go wrong: a device that comes or goes while its controller is read ("ghost"),
               \* or goes while its link is being encrypted ("lost"), power off or removal meanwhile ("dropped"), a
               \* controller that is off and has to be ("off"), that has no address ("noaddress"), or
               \* is left when the default one goes, and is off ("route")

VARIABLE w

NoInfo == [valid |-> FALSE, addr |-> 0, enabled |-> FALSE, connections |-> {}, callbacks |-> {}]
NoAdapter == [addr |-> 0, up |-> FALSE, connections |-> {}, services |-> FALSE, freed |-> FALSE]

\* Of the kernel: there, power, links, uuids, addr, busy (what it has still to answer) and messages.  Of
\* the daemon: max_index, controllers, adapters, of (an adapter's state), default_adapter_id, exit_timer,
\* oob_requests, waits (who waits for encryption).  off: controllers whose stored mode is "off".
Init ==
  \E there \in SUBSET Indices, power \in SUBSET Indices, off \in SUBSET Indices, links \in SUBSET Devices :
    /\ power \subseteq there /\ (links = {} \/ (\E i \in power : \A j \in power : i <= j))
    /\ off \subseteq power \/ "off" \in Environment
    /\ w = [there |-> there, power |-> power, off |-> off, uuids |-> {},
            links |-> [i \in Indices |-> IF i \in power /\ \A j \in power : i <= j THEN links ELSE {}],
            addr |-> [i \in Indices |-> i], busy |-> {}, messages |-> << <<"version">> >>, max_index |-> -1,
            controllers |-> [i \in Indices |-> NoInfo], adapters |-> <<>>, of |-> [i \in Indices |-> NoAdapter],
            default_adapter_id |-> -1, exit_timer |-> FALSE, oob_requests |-> {}, waits |-> {}]

Ids(v) == ToSet(v.adapters)
Tell(v, m) == [v EXCEPT !.messages = Append(@, m)]

-----------------------------------------------------------------------------
(* Commands; the kernel answers most of them at once, none for a controller   *)
(* that is gone.                                                           *)

read_info(v, i) == IF i \in v.there THEN Tell(v, <<"info", i, i \in v.power, v.addr[i]>>) ELSE v
get_connections(v, i) == IF i \in v.there THEN Tell(v, <<"connections", i, v.links[i]>>) ELSE v
clear_uuids(v, i) == [v EXCEPT !.uuids = @ \ {i}]
mgmt_add_uuid(v, i) == IF i \in v.there THEN [v EXCEPT !.uuids = @ \union {i}] ELSE v
\* Refused without a change; a status that nobody looks at.
mgmt_set_powered(v, i, on) ==
  IF i \in v.there /\ (i \in v.power) # on THEN [v EXCEPT !.busy = @ \union {<<"powered", i, on>>}] ELSE v

-----------------------------------------------------------------------------
(* src/manager.c                                                           *)

\* 0: none.  The address is not looked at on Android.
manager_find_adapter(v, addr) ==
  LET found == SelectSeq(v.adapters, LAMBDA i : ANDROID \/ v.of[i].addr = addr)
  IN IF found = <<>> THEN 0 ELSE Head(found)

\* hci_get_route: some controller that is up.
Routes(v) == IF v.power = {} THEN {-1} ELSE v.power

\* What may follow: the new default is the kernel's choice.
manager_remove_adapter(v, i) ==
  LET left == SelectSeq(v.adapters, LAMBDA j : j # i)
      gone == [v EXCEPT !.adapters = left, !.of[i] = NoAdapter, !.oob_requests = @ \ {i}, !.exit_timer = left = <<>>]
  IN {[gone EXCEPT !.default_adapter_id = r] :
        r \in IF v.default_adapter_id \in {i, -1} THEN Routes(v) ELSE {v.default_adapter_id}}

btd_manager_unregister_adapter(v, i) == IF i \in Ids(v) THEN manager_remove_adapter(v, i) ELSE {v}

\* An adapter that cannot be initialised stays in the list. The connections are taken over, the services are added.
adapter_init(v, i) ==
  [mgmt_add_uuid(v, i) EXCEPT !.controllers[i].connections = {},
     !.of[i] = [addr |-> v.controllers[i].addr, up |-> TRUE, connections |-> v.controllers[i].connections,
                services |-> TRUE, freed |-> FALSE]]

btd_manager_register_adapter(v, i) ==
  LET listed == [v EXCEPT !.adapters = Append(@, i)]
  IN IF v.controllers[i].addr = 0 THEN [listed EXCEPT !.of[i].freed = TRUE]
     ELSE [adapter_init(listed, i) EXCEPT !.exit_timer = FALSE,
             !.default_adapter_id = IF @ < 0 THEN i ELSE @]

-----------------------------------------------------------------------------
(* Messages.                                                               *)

add_controller(v, i) ==
  [v EXCEPT !.max_index = IF i > @ THEN i ELSE @, !.controllers[i] = [NoInfo EXCEPT !.valid = TRUE]]

\* The callbacks are freed, and not called.
remove_controller(v, i) ==
  IF i > v.max_index \/ ~v.controllers[i].valid THEN {v}
  ELSE {[u EXCEPT !.controllers[i] = NoInfo] : u \in btd_manager_unregister_adapter(v, i)}

mgmt_update_powered(v, i, on) ==
  LET u == [v EXCEPT !.controllers[i].enabled = on]
      a == manager_find_adapter(v, v.controllers[i].addr)
  IN IF a = 0 THEN u
     ELSE IF on THEN [u EXCEPT !.of[a].up = TRUE]
     ELSE [u EXCEPT !.controllers[i].callbacks = {}, !.of[a].up = FALSE, !.of[a].connections = {}]

read_info_complete(v, i, powered, addr) ==
  LET u == [v EXCEPT !.controllers[i].enabled = powered, !.controllers[i].addr = addr]
      r == btd_manager_register_adapter(u, i)
  IN IF i > v.max_index \/ i \in Ids(v) THEN u
     ELSE IF r.of[i].freed THEN r
     ELSE IF i \in v.off THEN mgmt_set_powered(r, i, FALSE)
     ELSE IF powered THEN mgmt_update_powered(r, i, TRUE) ELSE mgmt_set_powered(r, i, TRUE)

\* A controller that is not read again is added again.
read_index_list_complete(v, list) ==
  LET Step(u, i) == clear_uuids(get_connections(add_controller(u, i), i), i)
  IN FoldSeq(LAMBDA i, u : Step(u, i), v, SetToSeq(list))

get_connections_complete(v, i, links) ==
  IF i > v.max_index THEN v ELSE read_info([v EXCEPT !.controllers[i].connections = @ \union links], i)

btd_event_conn_complete(v, i, d) ==
  LET a == manager_find_adapter(v, v.controllers[i].addr)
  IN IF a = 0 THEN v ELSE [v EXCEPT !.of[a].connections = @ \union {d}]
btd_event_disconn_complete(v, i, d) ==
  LET a == manager_find_adapter(v, v.controllers[i].addr)
  IN IF a = 0 THEN v ELSE [v EXCEPT !.of[a].connections = @ \ {d}]

\* Encrypted, or authentication failed: everyone who waits for the device is told.
mgmt_encrypt_change_event(v, i, d) ==
  [v EXCEPT !.controllers[i].callbacks = {c \in @ : c # d}, !.waits = @ \ {<<i, d>>}]

mgmt_read_local_oob_data_complete(v, i) == IF i \in Ids(v) THEN [v EXCEPT !.oob_requests = @ \ {i}] ELSE v

mgmt_event ==
  /\ w.messages # <<>>
  /\ LET m == Head(w.messages)
         v == [w EXCEPT !.messages = Tail(@)]
     IN CASE m[1] = "version" -> w' = Tell(v, <<"list", v.there>>)
          [] m[1] = "list" -> w' = read_index_list_complete(v, m[2])
          [] m[1] = "connections" -> w' = get_connections_complete(v, m[2], m[3])
          [] m[1] = "info" -> w' = read_info_complete(v, m[2], m[3], m[4])
          [] m[1] = "added" -> w' = read_info(add_controller(v, m[2]), m[2])
          [] m[1] = "removed" -> w' \in remove_controller(v, m[2])
          [] m[1] = "powered" -> w' = mgmt_update_powered(v, m[2], m[3])
          [] m[1] = "connected" -> w' = btd_event_conn_complete(v, m[2], m[3])
          [] m[1] = "disconnected" -> w' = btd_event_disconn_complete(v, m[2], m[3])
          [] m[1] = "encrypted" -> w' = mgmt_encrypt_change_event(v, m[2], m[3])
          [] m[1] = "oob" -> w' = mgmt_read_local_oob_data_complete(v, m[2])

-----------------------------------------------------------------------------
(* Users.                                                                  *)

Room == Len(w.messages) < MaxMessages

mgmt_encrypt_link(i, d) ==
  /\ Room /\ i \in Ids(w) /\ d \in w.of[i].connections /\ <<i, d>> \notin w.waits
  /\ d \in w.links[i] \/ "lost" \in Environment
  /\ w' = [w EXCEPT !.controllers[i].callbacks = @ \union {d}, !.waits = @ \union {<<i, d>>},
                    !.busy = IF d \in w.links[i] THEN @ \union {<<"encrypted", i, d>>} ELSE @]

\* An error is answered too.
read_local_data(i) ==
  /\ Room /\ i \in Ids(w) /\ i \notin w.oob_requests
  /\ w' = [w EXCEPT !.oob_requests = @ \union {i}, !.busy = @ \union {<<"oob", i>>}]

set_powered(i) ==
  /\ Room /\ i \in Ids(w) /\ \A b \in w.busy : b[1] # "powered"
  /\ w.of[i].up = (i \in w.power)
  /\ w' = [mgmt_set_powered(w, i, ~w.of[i].up) EXCEPT !.off = IF w.of[i].up THEN @ \union {i} ELSE @ \ {i}]

\* The timer of the daemon without adapters ends it, and it is started again; or it is started again anyway.
Restart ==
  /\ w.exit_timer \/ (w.waits = {} /\ w.oob_requests = {} /\ w.busy = {} /\ w.messages = <<>>)
  /\ w' = [w EXCEPT !.messages = << <<"version">> >>, !.max_index = -1, !.controllers = [i \in Indices |-> NoInfo],
                    !.adapters = <<>>, !.of = [i \in Indices |-> NoAdapter], !.default_adapter_id = -1,
                    !.exit_timer = FALSE, !.busy = {}, !.off = @ \intersect w.power]

-----------------------------------------------------------------------------
(* The kernel.                                                             *)

Dropped(i) == \A d \in Devices : <<i, d>> \notin w.waits

\* A controller that comes is off, and registers the services anew.
Plug(i) ==
  /\ Room /\ i \notin w.there /\ (i \notin w.off \/ "off" \in Environment)
  /\ \E a \in {i} \union {z \in {0} : "noaddress" \in Environment} :
       w' = Tell([w EXCEPT !.there = @ \union {i}, !.addr[i] = a], <<"added", i>>)

Unplug(i) ==
  /\ Room /\ i \in w.there /\ (Dropped(i) \/ "dropped" \in Environment)
  /\ w.default_adapter_id = i => \/ w.there \ {i} \subseteq w.power \/ "route" \in Environment
  /\ w' = Tell([w EXCEPT !.there = @ \ {i}, !.power = @ \ {i}, !.links[i] = {}, !.uuids = @ \ {i}, !.off = @ \ {i},
                         !.busy = {b \in @ : b[2] # i}], <<"removed", i>>)

Powers(i, on) ==
  /\ <<"powered", i, on>> \in w.busy /\ (on \/ Dropped(i) \/ "dropped" \in Environment)
  /\ ~on => \A j \in Indices : <<"removed", j>> \notin ToSet(w.messages) \/ "route" \in Environment
  /\ w' = Tell([w EXCEPT !.power = IF on THEN @ \union {i} ELSE @ \ {i}, !.links[i] = IF on THEN @ ELSE {},
                         !.busy = {b \in @ : b # <<"powered", i, on>> /\ (on \/ b[1] # "encrypted" \/ b[2] # i)}],
               <<"powered", i, on>>)

Settled(i) == i \in Ids(w) \/ "ghost" \in Environment
Connects(i, d) ==
  /\ Room /\ i \in w.power /\ Settled(i) /\ \A j \in Indices : d \notin w.links[j]
  /\ w' = Tell([w EXCEPT !.links[i] = @ \union {d}], <<"connected", i, d>>)
Disconnects(i, d) ==
  /\ Room /\ d \in w.links[i] /\ Settled(i) /\ (<<i, d>> \notin w.waits \/ "lost" \in Environment)
  /\ w' = Tell([w EXCEPT !.links[i] = @ \ {d}, !.busy = @ \ {<<"encrypted", i, d>>}], <<"disconnected", i, d>>)

Answers == \E b \in w.busy : b[1] \in {"encrypted", "oob"} /\ w' = Tell([w EXCEPT !.busy = @ \ {b}], b)

Next ==
  \/ mgmt_event \/ Restart \/ Answers
  \/ \E i \in Indices : \/ read_local_data(i) \/ set_powered(i) \/ Plug(i) \/ Unplug(i)
                        \/ \E on \in BOOLEAN : Powers(i, on)
                        \/ \E d \in Devices : mgmt_encrypt_link(i, d) \/ Connects(i, d) \/ Disconnects(i, d)
Spec == Init /\ [][Next]_w

-----------------------------------------------------------------------------

Quiet == w.messages = <<>> /\ w.busy = {}

\* Once everything is told, the adapters are the controllers that are there, with their addresses and power,
\* one of them is the default, and the daemon ends only without any.
Registered ==
  /\ Cardinality(Ids(w)) = Len(w.adapters) /\ \A i \in Ids(w) : ~w.of[i].freed
  /\ w.adapters # <<>> => ~w.exit_timer
  /\ Quiet => /\ Ids(w) = w.there
              /\ \A i \in w.there : w.of[i].addr = w.addr[i] /\ w.of[i].up = (i \in w.power)
              /\ w.there # {} => w.default_adapter_id \in w.there

\* The connections and services of an adapter are then those of its controller.
Connected == Quiet => \A i \in w.there : w.of[i].connections = w.links[i] /\ (i \in w.uuids) = w.of[i].services

\* Whoever waits for an encrypted link or for out of band data is answered.
Answered ==
  /\ \A c \in w.waits : /\ c[2] \in w.controllers[c[1]].callbacks
                        /\ <<"encrypted", c[1], c[2]>> \in w.busy \union ToSet(w.messages)
  /\ \A i \in w.oob_requests : {<<"oob", i>>, <<"removed", i>>} \intersect (w.busy \union ToSet(w.messages)) # {}

Safe == Registered /\ Connected /\ Answered
=============================================================================
