------------------------------ MODULE Gateway -------------------------------
(***************************************************************************)
(* audio/gateway.c: the Handsfree role.  A client's Connect, a connection   *)
(* of the remote gateway or a stream of the audio socket brings up RFCOMM,  *)
(* whose descriptor is passed to the agent; SCO follows.                    *)
(***************************************************************************)
EXTENDS Integers, FiniteSets

CONSTANTS
  Clients,    \* callers of Connect
  Environment \* what makes it go wrong: connects that overlap ("overlap"), an authorization
              \* that is denied, or a connection lost before it is accepted ("denied"), an answer of the agent for an
              \* earlier connection ("latereply"), SCO that connects after RFCOMM was closed
              \* ("latesco"), a stream requested without RFCOMM ("cold") or before the agent
              \* has answered ("busy"), SCO of the remote
              \* side while the client's is under way ("twosco"), a device removed
              \* while something is under way ("remove")

VARIABLE g

\* rfcomm, sco, agent, msg: as in struct gateway, rfcomm "auth" until it is accepted and "dead" after
\* the remote gateway has closed it; cb:
\* sco_start_cb is set; waiting: Connects without an answer; stream: the socket's client waits;
\* search, conn, accept, sconn, news: searches, connects, accepts, SCO connects and calls of
\* the agent under way, news with the connection each is about: the current one or an old one.
New == [state |-> "disconnected", rfcomm |-> "none", sco |-> FALSE, cb |-> FALSE, agent |-> FALSE,
        msg |-> "none", waiting |-> {}, stream |-> FALSE, search |-> 0, conn |-> 0,
        accept |-> "none", sconn |-> 0, news |-> {}, gone |-> FALSE, fault |-> FALSE]
Init == g = New

change_state(v, s) == [v EXCEPT !.state = s]
Reply(v) == [v EXCEPT !.waiting = @ \ {v.msg}]
sco_start_cb(v) == IF v.cb THEN [v EXCEPT !.stream = FALSE] ELSE v
UnderWay == g.search + g.conn + g.sconn > 0 \/ g.accept # "none"

gateway_close(v) ==
  change_state([v EXCEPT !.rfcomm = "none", !.sco = FALSE, !.cb = @ /\ ~v.sco, !.news = {"old" : n \in v.news}],
               "disconnected")

-----------------------------------------------------------------------------
(* The agent and the clients.                                              *)

register_agent == ~g.agent /\ g' = [g EXCEPT !.agent = TRUE]
agent_exited == g.agent /\ g' = [g EXCEPT !.agent = FALSE]

get_records(v) == [v EXCEPT !.search = @ + 1]

ag_connect(c) ==
  /\ g.agent /\ c \notin g.waiting
  /\ "overlap" \in Environment \/ (~UnderWay /\ g.rfcomm = "none")
  /\ "latereply" \in Environment \/ g.news = {}
  /\ g' = [get_records(g) EXCEPT !.msg = c, !.waiting = @ \union {c}]

ag_disconnect ==
  /\ g.rfcomm # "none" /\ (g.rfcomm # "auth" \/ "denied" \in Environment) /\ g' = gateway_close(g)

\* A record without a channel is an error as well; without a socket everything is closed too.
get_record_cb(ok, socket) ==
  LET v == [g EXCEPT !.search = @ - 1]
      failed == sco_start_cb(change_state(Reply(IF ok THEN gateway_close(v) ELSE v), "disconnected"))
  IN /\ g.search > 0
     /\ g' = CASE g.gone -> [v EXCEPT !.fault = TRUE]
               [] ~g.gone /\ ok /\ socket -> change_state([v EXCEPT !.conn = @ + 1], "connecting")
               [] OTHER -> failed

Connected(v, ok, sent) ==
  LET up == Reply([v EXCEPT !.rfcomm = "up", !.news = IF sent THEN @ \union {"current"} ELSE @])
      failed == change_state(Reply(IF ok THEN v ELSE sco_start_cb(v)), "disconnected")
  IN IF v.gone THEN [v EXCEPT !.fault = TRUE] ELSE IF ok /\ v.agent THEN up ELSE failed

rfcomm_connect_cb(ok, sent) ==
  \/ g.conn > 0 /\ g' = Connected([g EXCEPT !.conn = @ - 1], ok, sent)
  \/ /\ g.accept = "accepting" /\ ((ok /\ g.agent) \/ "denied" \in Environment)
     /\ g' = Connected([g EXCEPT !.accept = "none"], ok, sent)

newconnection_reply(n, ok) ==
  LET v == [g EXCEPT !.news = @ \ {n}]
  IN /\ n \in g.news
     /\ g' = CASE g.gone -> [v EXCEPT !.fault = TRUE]
               [] ~g.gone /\ g.rfcomm = "none" -> v
               [] ~g.gone /\ g.rfcomm # "none" /\ ok -> change_state(v, "connected")
               [] OTHER -> gateway_close(v)

-----------------------------------------------------------------------------
(* Connections of the remote gateway: hf_io_cb and gateway_auth_cb of       *)
(* manager.c, sco_server_cb of main.c.                                      *)

gateway_connect_rfcomm(v) == [v EXCEPT !.rfcomm = "auth", !.accept = "auth"]
hf_io_cb ==
  /\ ~g.gone /\ g.state # "connected" /\ g.accept = "none"
  /\ "overlap" \in Environment \/ (~UnderWay /\ g.rfcomm = "none")
  /\ "latereply" \in Environment \/ g.news = {}
  /\ g' = gateway_connect_rfcomm(g)

gateway_start_service(v) == IF v.rfcomm = "none" THEN [v EXCEPT !.accept = "none"] ELSE [v EXCEPT !.accept = "accepting"]
gateway_auth_cb(ok) ==
  /\ g.accept = "auth" /\ ((ok /\ ~g.gone) \/ "denied" \in Environment)
  /\ g' = IF ok THEN gateway_start_service(g) ELSE [g EXCEPT !.accept = "none"]

\* The remote gateway closes RFCOMM (external).  The daemon has no watch on it: the agent
\* reads the end of its descriptor, and gateway.c goes on as before.
RemoteCloses == g.rfcomm = "up" /\ g' = [g EXCEPT !.rfcomm = "dead"]

gateway_connect_sco ==
  /\ ~g.gone /\ g.state = "connected" /\ ~g.sco
  /\ g.sconn = 0 \/ "twosco" \in Environment
  /\ g' = change_state([g EXCEPT !.sco = TRUE], "playing")
sco_io_cb == g.sco /\ g' = change_state([g EXCEPT !.sco = FALSE], "connected")

-----------------------------------------------------------------------------
(* Streams of unix.c.                                                      *)

gateway_request_stream ==
  LET v == [g EXCEPT !.cb = TRUE, !.stream = TRUE]
  IN /\ ~g.gone /\ ~g.stream
     /\ \/ /\ g.rfcomm = "none" /\ "cold" \in Environment
           /\ g' = get_records(v)
        \/ /\ g.rfcomm # "none" /\ ~g.sco /\ (g.rfcomm # "auth" \/ "denied" \in Environment)
           /\ "current" \notin g.news \/ "busy" \in Environment
           /\ g' = [v EXCEPT !.sconn = @ + 1]
        \/ g.sco /\ g' = g

\* With RFCOMM it calls back at once.
gateway_config_stream ==
  /\ ~g.gone /\ ~g.stream
  /\ \/ /\ g.rfcomm = "none" /\ "cold" \in Environment
        /\ g' = get_records([g EXCEPT !.cb = TRUE, !.stream = TRUE])
     \/ g.rfcomm # "none" /\ g' = g

\* An error closes everything.
sco_connect_cb(ok) ==
  LET v == sco_start_cb([g EXCEPT !.sconn = @ - 1, !.sco = TRUE])
  IN /\ g.sconn > 0 /\ (g.rfcomm # "none" \/ ~ok \/ "latesco" \in Environment)
     /\ g' = IF g.gone THEN [v EXCEPT !.fault = TRUE] ELSE IF ok THEN v ELSE gateway_close(v)

gateway_suspend_stream ==
  /\ g.sco /\ (g.rfcomm # "none" \/ "latesco" \in Environment)
  /\ g' = change_state([g EXCEPT !.sco = FALSE, !.cb = FALSE], "connected")

gateway_cancel_stream ==
  /\ ~g.gone /\ (g.stream \/ g.sco) /\ g' = [gateway_close(g) EXCEPT !.stream = FALSE]

gateway_unregister ==
  /\ ~g.gone /\ ((~UnderWay /\ g.news = {}) \/ "remove" \in Environment)
  /\ g' = [gateway_close(g) EXCEPT !.gone = TRUE, !.agent = FALSE, !.stream = FALSE]
gateway_init == g.gone /\ ~UnderWay /\ g.news = {} /\ g' = [New EXCEPT !.waiting = g.waiting, !.fault = g.fault]

-----------------------------------------------------------------------------

Next == \/ ~g.gone /\ (register_agent \/ agent_exited \/ ag_disconnect \/ \E c \in Clients : ag_connect(c))
        \/ \E ok, also \in BOOLEAN : get_record_cb(ok, also) \/ rfcomm_connect_cb(ok, also)
        \/ \E n \in {"current", "old"}, ok \in BOOLEAN : newconnection_reply(n, ok)
        \/ hf_io_cb \/ (\E ok \in BOOLEAN : gateway_auth_cb(ok) \/ sco_connect_cb(ok))
        \/ RemoteCloses \/ gateway_connect_sco \/ sco_io_cb \/ gateway_request_stream \/ gateway_config_stream
        \/ gateway_suspend_stream \/ gateway_cancel_stream \/ gateway_unregister \/ gateway_init
Spec == Init /\ [][Next]_g

-----------------------------------------------------------------------------

\* State says connected only while the daemon keeps an RFCOMM channel that came up and that
\* the agent has taken, and playing only while SCO is up; SCO is kept no longer than
\* RFCOMM.  Whether the remote gateway has closed RFCOMM the daemon does not know: State
\* then stays connected until Disconnect, an error of SCO or the audio socket closes it.
Shown == /\ g.state \in {"connected", "playing"} => g.rfcomm \in {"up", "dead"} /\ "current" \notin g.news
         /\ g.state = "playing" => g.sco
         /\ g.sco => g.rfcomm \in {"up", "dead"}

\* A caller of Connect, and a client that waits for SCO, wait for something that is under way.
Answered == /\ \A c \in g.waiting : c = g.msg /\ g.search + g.conn > 0
            /\ g.stream => g.cb /\ g.sconn > 0

\* No RFCOMM channel is kept that nobody has accepted or will accept, unless its authorization
\* is denied or it is lost before it is accepted ("denied"), and nothing that is under way comes
\* back after the device was removed.
Kept == (g.rfcomm = "auth" => g.accept # "none") /\ ~g.fault

Safe == Shown /\ Answered /\ Kept
=============================================================================
