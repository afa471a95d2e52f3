-------------------------------- MODULE Btio --------------------------------
(***************************************************************************)
(* Bluetooth sockets as GIOChannels (btio/btio.c): one channel that connects, *)
(* one that listens and the one it accepts, each with the options it was     *)
(* given and, while something is expected of it, a watch of the main loop.   *)
(* The users of the channels and the kernel are external.                    *)
(***************************************************************************)
EXTENDS Integers, FiniteSets, TLC

CONSTANTS Types,      \* of sockets: "l2raw", "l2cap", "rfcomm", "sco"
          Args,       \* option lists: functions from names of options
          Environment \* what else happens: "reuse", "stalled", "oldkernel", "leparams", "errno"

VARIABLE s

Channels == {"client", "server", "accepted"}

-----------------------------------------------------------------------------
(* Options.                                                                *)

Low == 1
Medium == 2
High == 3

\* parse_set_opts: what is not given has its default.
Defaults == [sec |-> Medium, master |-> -1, imtu |-> 0, active |-> TRUE, cid |-> 0, params |-> "zero"]
parse_set_opts(args) == args @@ Defaults

\* A new socket; the link mode of the kernel has its level and its role.
NewSocket == [lm |-> {"auth"}, imtu |-> 672, active |-> FALSE]
lm_map == {<<"auth", Low>>, <<"encrypt", Medium>>, <<"secure", High>>}
LinkMode(level) == {f[1] : f \in {g \in lm_map : g[2] <= level}}

\* set_sec_level: where there is no BT_SECURITY, l2cap_set_lm replaces the whole link mode.
set_sec_level(o, level) ==
  [o EXCEPT !.lm = LinkMode(level) \cup (IF "oldkernel" \in Environment THEN {} ELSE @ \cap {"master"})]
l2cap_set_master(o, master) == [o EXCEPT !.lm = IF master = 1 THEN @ \cup {"master"} ELSE @ \ {"master"}]
get_sec_level(o) ==
  IF "secure" \in o.lm THEN High ELSE IF "encrypt" \in o.lm THEN Medium ELSE IF "auth" \in o.lm THEN Low ELSE 0

l2cap_set(o, sec, imtu, master, active) ==
  LET a == [o EXCEPT !.imtu = IF imtu # 0 THEN imtu ELSE @]
      b == IF master >= 0 THEN l2cap_set_master(a, master) ELSE a
      c == IF sec # 0 THEN set_sec_level(b, sec) ELSE b
  IN [c EXCEPT !.active = active]
rfcomm_set(o, sec, master, active) ==
  LET c == [IF sec # 0 THEN set_sec_level(o, sec) ELSE o EXCEPT !.active = active]
  IN IF master >= 0 THEN l2cap_set_master(c, master) ELSE c
sco_set(o, mtu) == [o EXCEPT !.imtu = IF mtu # 0 THEN mtu ELSE @]

\* The options of bt_io_set and, for a raw socket fewer of them, of create_io.
SetAll(o, a) ==
  CASE s.type \in {"l2raw", "l2cap"} -> l2cap_set(o, a.sec, a.imtu, a.master, a.active)
    [] s.type = "rfcomm" -> rfcomm_set(o, a.sec, a.master, a.active)
    [] s.type = "sco" -> sco_set(o, a.imtu)
Created(a) ==
  IF s.type = "l2raw" THEN l2cap_set(NewSocket, a.sec, 0, -1, a.active) ELSE SetAll(NewSocket, a)

\* set_le_params refuses parameters that are not in range, the zeros of parse_set_opts too: its
\* error is set although the channel is created.
set_le_params(a) == ~(s.type = "l2cap" /\ a.cid = 4 /\ a.params = "zero")

l2cap_get(o, n) == CASE n = "sec" -> get_sec_level(o) [] n = "master" -> "master" \in o.lm [] OTHER -> o[n]
rfcomm_get(o, n) == CASE n = "sec" -> get_sec_level(o) [] n = "master" -> "master" \in o.lm [] n = "active" -> o.active
sco_get(o, n) == CASE n = "imtu" -> o.imtu
bt_io_get(o, n) ==
  CASE s.type \in {"l2raw", "l2cap"} -> l2cap_get(o, n)
    [] s.type = "rfcomm" -> rfcomm_get(o, n)
    [] s.type = "sco" -> sco_get(o, n)

\* What the caller asked for in so many words.
Wanted(args) ==
  [n \in DOMAIN args \cap
     (CASE s.type = "l2cap" -> {"sec", "imtu", "master", "active"} [] s.type = "l2raw" -> {"sec", "active"}
        [] s.type = "rfcomm" -> {"sec", "master", "active"} [] s.type = "sco" -> {"imtu"}) |->
     IF n = "master" THEN args[n] = 1 ELSE args[n]]

-----------------------------------------------------------------------------
(* Channels.  A watch keeps a reference; the last one closes the socket.   *)

NoChannel ==
  [open |-> FALSE, user |-> FALSE, watch |-> "none", cond |-> "none", link |-> "none", told |-> "no",
   aborted |-> FALSE, destroys |-> 0, confirm |-> FALSE, queued |-> FALSE, opts |-> NewSocket, wanted |-> <<>>]

Init == \E type \in Types :
        s = [type |-> type, chan |-> [c \in Channels |-> NoChannel], accepts |-> FALSE,
             ret |-> [io |-> TRUE, error |-> FALSE, errno |-> TRUE], fault |-> FALSE]

ch(c) == s.chan[c]
Returned(io, error, errno) == [io |-> io, error |-> error, errno |-> errno]

\* The socket is closed; its peer is told.  With a server go the connections it has not accepted.
Lost(link) == CASE link = "up" -> "down" [] link \in {"connecting", "deferred"} -> "failed" [] OTHER -> link
Close(w, c) ==
  LET peer == IF c = "client" THEN "accepted" ELSE "client"
      gone == [w EXCEPT !.chan[c].open = FALSE, !.chan[c].link = "none",
                        !.chan[c].opts = NewSocket, !.chan[c].wanted = <<>>]
  IN CASE c = "server" /\ w.chan["accepted"].queued ->
            [gone EXCEPT !.chan["accepted"] = NoChannel, !.chan["client"].link = Lost(@)]
       [] c = "server" -> gone
       [] OTHER -> [gone EXCEPT !.chan[peer].link = Lost(@)]
Unref(w, c) == IF w.chan[c].open /\ ~w.chan[c].user /\ w.chan[c].watch = "none" THEN Close(w, c) ELSE w

\* The watch ends: connect_remove, accept_remove and server_remove.
Remove(w, c) ==
  Unref([w EXCEPT !.chan[c].watch = "none", !.chan[c].cond = "none", !.chan[c].destroys = @ + 1], c)

Fresh(args) ==
  [NoChannel EXCEPT !.open = TRUE, !.user = TRUE, !.opts = Created(parse_set_opts(args)), !.wanted = Wanted(args)]
Idle(c) == ~ch(c).open /\ ~ch(c).user /\ ch(c).watch = "none"
MayAsk(args) == ~set_le_params(parse_set_opts(args)) => "leparams" \in Environment

\* connect_add, accept_add and server_add.
Watched(channel, watch, link) == [channel EXCEPT !.watch = watch, !.link = link, !.told = "no"]

\* bt_io_connect.  A socket, an option or the connection may be refused: of the latter the
\* caller is told -1 as an error number.
bt_io_connect(args, how) ==
  /\ Idle("client") /\ MayAsk(args)
  /\ how = "refused" => "errno" \in Environment
  /\ s' = IF how = "ok"
          THEN [s EXCEPT !.chan["client"] = Watched(Fresh(args), "connect", "connecting"),
                         !.ret = Returned(TRUE, ~set_le_params(parse_set_opts(args)), TRUE)]
          ELSE [s EXCEPT !.ret = Returned(FALSE, TRUE, how = "create")]

bt_io_listen(args, confirm, how) ==
  /\ Idle("server") /\ MayAsk(args)
  /\ s' = IF how = "ok" /\ s.type # "l2raw"
          THEN [s EXCEPT !.chan["server"] = [Watched(Fresh(args), "server", "listening") EXCEPT !.confirm = confirm],
                         !.ret = Returned(TRUE, ~set_le_params(parse_set_opts(args)), TRUE)]
          ELSE [s EXCEPT !.ret = Returned(FALSE, TRUE, TRUE)]

\* bt_io_set puts the defaults in the place of what is not given again; those of the role
\* and of the MTU mean that they stay.
bt_io_set(c, args) ==
  LET kept == DOMAIN ch(c).wanted \cap {"master", "imtu"}
  IN /\ ch(c).open
     /\ s' = [s EXCEPT !.chan[c].opts = SetAll(@, parse_set_opts(args)),
                       !.chan[c].wanted = Wanted(args) @@ [n \in kept |-> @[n]]]

\* bt_io_accept: a socket that is not writable yet is read, which lets the kernel accept the
\* connection; after 200 times EAGAIN it gives up, and sets no error.
bt_io_accept(how) ==
  /\ ch("accepted").open /\ ch("accepted").user /\ ch("accepted").watch = "none" /\ ch("accepted").told = "no"
  /\ how = "stalled" => "stalled" \in Environment /\ ch("accepted").link = "deferred"
  /\ how = "failed" => ch("accepted").link \notin {"up", "deferred"}
  /\ how = "ok" => ch("accepted").link \in {"up", "deferred"}
  /\ s' = IF how = "ok"
          THEN [s EXCEPT !.chan["accepted"] = Watched(@, "accept", "up"),
                         !.chan["client"].link = IF @ = "connecting" THEN "up" ELSE @,
                         !.accepts = TRUE, !.ret = Returned(TRUE, FALSE, TRUE)]
          ELSE [s EXCEPT !.ret = Returned(FALSE, how = "failed", TRUE)]

\* The user closes its channel at once, or only drops its reference.
Shutdown(c) ==
  /\ ch(c).user
  /\ s' = Close([s EXCEPT !.chan[c].user = FALSE, !.chan[c].aborted = TRUE], c)
Drop(c) ==
  /\ ch(c).user
  /\ s' = Unref([s EXCEPT !.chan[c].user = FALSE], c)

-----------------------------------------------------------------------------
(* The kernel.                                                             *)

\* The connection arrives at the server, and waits for its user if BT_DEFER_SETUP is set; or
\* nobody listens.  A raw socket needs the link only.
Arrive ==
  /\ ch("client").link = "connecting" /\ Idle("accepted") /\ ~ch("accepted").queued
  /\ s' = IF s.type = "l2raw" THEN [s EXCEPT !.chan["client"].link = "up"]
          ELSE IF ch("server").link # "listening"
          THEN [s EXCEPT !.chan["client"].link = "failed"]
          ELSE [s EXCEPT !.chan["accepted"] = [NoChannel EXCEPT !.opts = ch("server").opts, !.wanted = ch("server").wanted,
                                                !.queued = TRUE, !.confirm = ch("server").confirm,
                                                !.link = IF ch("server").confirm THEN "deferred" ELSE "up"],
                         !.chan["client"].link = IF ch("server").confirm THEN @ ELSE "up", !.accepts = FALSE]
LinkLost == \* the remote side goes out of range
  /\ ch("client").link \in {"connecting", "up"}
  /\ s' = [s EXCEPT !.chan["client"].link = Lost(@), !.chan["accepted"].link = Lost(@)]

\* The main loop polls the channel; callbacks of others run before its own.
Poll(c) ==
  /\ ch(c).watch \in {"connect", "accept"} /\ ch(c).cond = "none"
  /\ s' \in {[s EXCEPT !.chan[c].cond = x] : x \in
       IF ~ch(c).open THEN {"nval"} \cup (IF "reuse" \in Environment THEN {"out"} ELSE {})
       ELSE CASE ch(c).link = "up" -> {"out"} [] ch(c).link \in {"failed", "down"} -> {"hup"} [] OTHER -> {}}

-----------------------------------------------------------------------------
(* Callbacks.                                                              *)

\* check_nval: the user has closed the socket, and no other one has got its number since.
check_nval(c) == ~ch(c).open /\ ~("reuse" \in Environment /\ ch(c).cond = "out")

Tell(w, c, result) ==
  [w EXCEPT !.chan[c].told = result, !.fault = @ \/ w.chan[c].told # "no" \/ w.chan[c].aborted]

\* connect_cb asks for SO_ERROR; accept_cb takes the condition.
connect_cb ==
  /\ ch("client").watch = "connect" /\ ch("client").cond # "none"
  /\ s' = IF ch("client").cond = "nval" \/ check_nval("client") THEN Remove(s, "client")
          ELSE Remove(Tell(s, "client", IF ch("client").cond = "out" /\ ch("client").link # "failed" THEN "ok" ELSE "error"),
                      "client")
accept_cb ==
  /\ ch("accepted").watch = "accept" /\ ch("accepted").cond # "none"
  /\ s' = IF ch("accepted").cond = "nval" \/ check_nval("accepted") THEN Remove(s, "accepted")
          ELSE Remove(Tell(s, "accepted", IF ch("accepted").cond = "out" THEN "ok" ELSE "error"), "accepted")

\* server_cb: the new channel is the user's if it keeps a reference; without confirm it is told
\* at once.
server_cb(keep) ==
  /\ ch("server").watch = "server"
  /\ IF ~ch("server").open THEN s' = Remove(s, "server")
     ELSE /\ ch("accepted").queued
          /\ s' = Unref([s EXCEPT !.chan["accepted"].open = TRUE, !.chan["accepted"].user = keep,
                                  !.chan["accepted"].queued = FALSE,
                                  !.chan["accepted"].told = IF ch("server").confirm THEN "no" ELSE "ok"], "accepted")

Next ==
  \/ \E args \in Args, how \in {"ok", "create", "refused"} : bt_io_connect(args, how)
  \/ \E args \in Args, confirm \in BOOLEAN, how \in {"ok", "fail"} : bt_io_listen(args, confirm, how)
  \/ \E c \in Channels : \/ \E args \in Args : bt_io_set(c, args)
                         \/ Shutdown(c) \/ Drop(c) \/ Poll(c)
  \/ \E how \in {"ok", "failed", "stalled"} : bt_io_accept(how)
  \/ Arrive \/ LinkLost \/ connect_cb \/ accept_cb
  \/ \E keep \in BOOLEAN : server_cb(keep)

Spec == Init /\ [][Next]_s

-----------------------------------------------------------------------------

\* A callback is called once, and not after its user has closed the channel; with it goes what
\* the user gave for it, once.
CalledOnce ==
  /\ ~s.fault
  /\ \A c \in Channels : ch(c).destroys <= 1 /\ (ch(c).watch = "none" /\ ch(c).told # "no" /\ c = "client" => ch(c).destroys = 1)

\* A socket is open as long as its user or a watch has it: none is leaked, none closed under way.
Held == \A c \in Channels : /\ ch(c).open => ch(c).user \/ ch(c).watch # "none"
                            /\ ch(c).user => ch(c).open

\* Where the server's user is asked, the client's is told of a connection only once it accepted.
Confirmed == /\ ch("client").link = "up" /\ ch("accepted").confirm => s.accepts
             /\ ch("client").told = "ok" => ch("client").link # "connecting"

\* The role and the MTU of a channel are those asked for last, its level and its power mode
\* those of the last call if that named them, and a call that fails says why.
Configured == \A c \in Channels : \A n \in DOMAIN ch(c).wanted : bt_io_get(ch(c).opts, n) = ch(c).wanted[n]
Explained == s.ret.io = ~s.ret.error /\ s.ret.errno
=============================================================================
