---------------------------- MODULE AttribServer ----------------------------
(***************************************************************************)
(* src/attrib-server.c: the GATT server.  The attributes below Base are in  *)
(* the daemon's own database; above it the handles belong to servers on     *)
(* D-Bus, which are asked with calls that they answer later.  A client's    *)
(* request that the database cannot answer alone stays in channel->op while *)
(* server after server is asked.  One client, with one channel at a time.   *)
(*                                                                         *)
(* An attribute is [type, size, val]: the size stands for the 16 or 128     *)
(* bits of the UUID, which decides what fits into one answer; val is the    *)
(* value that FindByType compares.                                         *)
(***************************************************************************)
EXTENDS Naturals, Integers, Sequences, FiniteSets, SequencesExt

CONSTANTS Builtin,     \* the database: a sequence of attributes with their handle h
          Attrs,       \* the attributes of each server on D-Bus, by its path
          Restricted,  \* servers whose carrier is not the client's
          Room,        \* entries that fit into an answer: (mtu - 2) / size
          HandleSpace, \* 0x10000
          Ends,        \* the last handles of the client's requests
          MaxSerial, Environment

VARIABLE g

Paths == DOMAIN Attrs
None == [path |-> "none", lo |-> 0, hi |-> 0]

\* What a client asks for: an opcode, a type and for FindByType a value.
Requests == {[op |-> "group", type |-> "prim"], [op |-> "type", type |-> "char"],
             [op |-> "type", type |-> "clicfg"], [op |-> "info", type |-> "any"],
             [op |-> "find", type |-> "prim"]}
NoRequest == [op |-> "none", type |-> "none", start |-> 0, end |-> 0]

\* The client's side: a discovery goes on from the last handle that it was told.
Idle == [op |-> "none", type |-> "none", end |-> 0, next |-> 0, found |-> << >>,
         missed |-> {}, result |-> "none"]

Init ==
  g = [servers |-> << >>, serial |-> 0, \* gatt_server_list as in the file, SerialNum
       on |-> FALSE, paired |-> FALSE, refs |-> 0, \* the channel, its GAttrib
       op |-> NoRequest, adl |-> << >>, size |-> 0, call |-> None, write |-> "none",
       ind |-> FALSE, sci |-> "none", cserial |-> 0, \* indications, channel->serial
       stored |-> {}, sci_cfg |-> -1, \* the file clicfg_<address>
       view |-> {}, \* what the servers believe about the last session
       unheard |-> {}, \* configurations whose write was not seen answered in it
       client |-> Idle]

-----------------------------------------------------------------------------
(* The handles of the servers.                                             *)

attrib_db_find_end == IF Builtin = << >> THEN 1 ELSE Builtin[Len(Builtin)].h + 1

Count(p) == Len(Attrs[p])

\* create_server_entry: each server begins where the one before it ends.
Bases(servers) ==
  LET base[k \in 1..Len(servers)] ==
        IF k = 1 THEN attrib_db_find_end ELSE base[k - 1] + Count(servers[k - 1])
  IN [p \in ToSet(servers) |->
        base[CHOOSE k \in 1..Len(servers) : servers[k] = p]]

BaseOf(v, p) == Bases(v.servers)[p]
Past(v, p) == BaseOf(v, p) + Count(p)

\* The servers in the list whose range ends after the handle.
From(v, handle) == SelectSeq(v.servers, LAMBDA p : Past(v, p) > handle)

\* No server, or none that begins within the range.
NoServers(v, end) ==
  v.servers = << >> \/ attrib_db_find_end > end

-----------------------------------------------------------------------------
(* The GAttrib's references and answers.                                   *)

g_attrib_ref(v) == [v EXCEPT !.refs = @ + 1]
g_attrib_unref(v) == [v EXCEPT !.refs = @ - 1]

\* server_resp: an answer gives up the reference that channel_handler took.
\* Error: the code, or "none" with the entries of adl.
Respond(v, adl, error) ==
  LET last == adl[Len(adl)]
      c == v.client
      listing == c.op # "none"
      next == IF c.op \in {"group", "find"} THEN last.end + 1 ELSE last.h + 1
  IN g_attrib_unref(
       [v EXCEPT !.op = NoRequest, !.adl = << >>, !.size = 0, !.call = None, !.write = "none",
                 !.client = IF ~listing THEN @
                            ELSE IF error # "none" THEN [c EXCEPT !.result = error]
                            ELSE [c EXCEPT !.found = @ \o adl, !.next = next,
                                           !.result = IF next > c.end THEN "NOT_FOUND" ELSE "none"]])

Answer(v, adl) == Respond(v, adl, IF adl = << >> THEN "NOT_FOUND" ELSE "none")

-----------------------------------------------------------------------------
(* Asking the servers: dbus_read_by_group, dbus_read_by_type,              *)
(* dbus_find_info and dbus_find_by_type.                                   *)

\* Mutant: always from the server's first attribute on.
Ask_first(v, p, start) ==
  [v EXCEPT !.call =
     [path |-> p, lo |-> 0,
      hi |-> IF v.op.end < Past(v, p) THEN v.op.end - BaseOf(v, p) ELSE Count(p) - 1]]

\* The range is that of the server; handles are 16 bits wide.
Ask(v, p, start) ==
  LET base == BaseOf(v, p)
  IN [v EXCEPT !.call =
        [path |-> p, lo |-> IF start > base THEN start - base ELSE 0,
         hi |-> IF v.op.end < Past(v, p) THEN (v.op.end - base) % HandleSpace ELSE Count(p) - 1]]

\* Only dbus_read_by_type heeds the carrier.
Eligible(v, start) ==
  SelectSeq(From(v, start), LAMBDA p : v.op.op # "type" \/ p \notin Restricted)

Forward(v, start) ==
  LET servers == Eligible(v, start)
  IN IF servers = << >> THEN Answer(v, v.adl) ELSE Ask(v, Head(servers), start)

Matches(r, a) == /\ r.type \in {a.type, "any"}
                 /\ r.op = "find" => a.val = "s"

\* The end of the service that begins at index i of a sequence of attributes.
ServiceEnd(attrs, i) ==
  LET later == {j \in i + 1..Len(attrs) : attrs[j].type = "prim"}
  IN IF later = {} THEN Len(attrs) ELSE (CHOOSE j \in later : \A k \in later : j <= k) - 1

\* What the database has for a request: entries of one size, and whether the
\* walk ended early: behind the range, at another size.  read_by_group takes the
\* end of the range as excluded; of the configurations only one is taken.
Walk(r) ==
  LET Within(a) == IF r.op = "group" THEN a.h < r.end ELSE a.h <= r.end
      seen == {i \in 1..Len(Builtin) : Builtin[i].h >= r.start /\ Within(Builtin[i])}
      found == SelectSeq([i \in 1..Len(Builtin) |-> i],
                         LAMBDA i : i \in seen /\ Matches(r, Builtin[i]))
      OneSize(i) == r.op = "find" \/ Builtin[i].size = Builtin[found[1]].size
      same == IF \A k \in 1..Len(found) : OneSize(found[k]) THEN Len(found)
              ELSE (CHOOSE k \in 1..Len(found) :
                      ~OneSize(found[k]) /\ \A j \in 1..k - 1 : OneSize(found[j])) - 1
      some == IF r.type = "clicfg" /\ same > 1 THEN 1 ELSE same
      \* The last handle that was seen of the service at i.
      End(i) == CHOOSE h \in {Builtin[j].h : j \in seen} :
                  \E j \in seen : /\ Builtin[j].h = h /\ j <= ServiceEnd(Builtin, i)
                                 /\ \A n \in seen : n <= ServiceEnd(Builtin, i) => n <= j
  IN [adl |-> [k \in 1..some |->
                 [h |-> Builtin[found[k]].h,
                  end |-> IF r.op \in {"group", "find"} THEN End(found[k]) ELSE Builtin[found[k]].h]],
      size |-> IF found = << >> THEN 0 ELSE Builtin[found[1]].size,
      terminated |-> same < Len(found) \/ \E a \in ToSet(Builtin) : ~Within(a)]

\* read_by_group, read_by_type, find_info, find_by_type.
List(v, r) ==
  LET w == Walk(r)
      full == Room[w.size] <= Len(w.adl)
      adl == IF full THEN SubSeq(w.adl, 1, Room[w.size]) ELSE w.adl
      asked == [v EXCEPT !.op = r]
  IN IF v.servers # << >> /\ attrib_db_find_end <= r.start THEN Forward(asked, r.start)
     ELSE IF w.adl = << >>
          THEN IF w.terminated \/ NoServers(v, r.end) THEN Answer(asked, << >>)
               ELSE Forward(asked, r.start)
     ELSE IF full \/ w.terminated \/ NoServers(v, r.end) THEN Answer(asked, adl)
     ELSE Forward([asked EXCEPT !.adl = adl, !.size = w.size], r.start)

-----------------------------------------------------------------------------
(* The servers' answers: read_by_group_reply, read_by_chr_reply,           *)
(* read_by_inc_reply, read_by_type_reply, find_info_reply and              *)
(* find_by_type_reply.                                                     *)

\* The first attribute of the range that was asked for, or none.
FoundBy(v) ==
  LET attrs == Attrs[v.call.path]
      hits == {i \in 1..Len(attrs) : /\ i - 1 >= v.call.lo /\ i - 1 <= v.call.hi
                                     /\ Matches(v.op, attrs[i])}
  IN IF hits = {} THEN 0 ELSE CHOOSE i \in hits : \A j \in hits : i <= j

\* UUIDs of 16 bits can be sent as 128, but values are what they are.
Fits(v, size) == \/ v.adl = << >> \/ v.op.op = "find" \/ size = v.size
                 \/ v.size = 128 /\ v.op.type # "clicfg"

\* The next server, from handle on, or the answer.
Continue(v, handle) ==
  IF v.adl # << >> /\ Len(v.adl) >= Room[v.size] THEN Answer(v, v.adl)
  ELSE IF From(v, handle) = << >> THEN Answer(v, v.adl)
  ELSE Forward(v, handle)

Append1(v, i) ==
  LET p == v.call.path
      a == Attrs[p][i]
      h == BaseOf(v, p) + i - 1
      end == IF v.op.op \in {"group", "find"} THEN BaseOf(v, p) + ServiceEnd(Attrs[p], i) - 1 ELSE h
      u == [v EXCEPT !.adl = Append(@, [h |-> h, end |-> end]),
                     !.size = IF @ = 0 THEN a.size ELSE @]
      next == (end + 1) % HandleSpace
  IN IF next = 0 \/ next > v.op.end THEN Answer(u, u.adl) ELSE Continue(u, next)

\* An error, or nothing: on to the next server.
SkipServer(v) == Continue(v, Past(v, v.call.path) % HandleSpace)

Reply ==
  /\ g.on /\ g.call # None /\ g.op.op \in {"group", "type", "info", "find"}
  /\ LET i == FoundBy(g)
     IN g' = IF i = 0 THEN SkipServer(g)
             ELSE IF ~Fits(g, Attrs[g.call.path][i].size) THEN Answer(g, g.adl)
             ELSE Append1(g, i)

\* The server does not answer for REQUEST_TIMEOUT, or with another error, which
\* only read_by_type_reply hands on.
ReplyError ==
  /\ g.on /\ g.call # None /\ g.op.op \in {"group", "type", "info", "find"}
  /\ "fails" \in Environment
  /\ LET u == [g EXCEPT !.client.missed = @ \union {g.call.path}]
     IN g' = IF g.op.op = "type" /\ g.op.type = "clicfg"
             THEN Respond(u, u.adl, IF u.adl = << >> THEN "UNLIKELY" ELSE "none")
             ELSE SkipServer(u)

-----------------------------------------------------------------------------
(* Reads and writes of one attribute.                                      *)

\* The configurations: the one of Service Changed and those of the servers.
Configs(v) == UNION {{<<p, i>> : i \in {j \in 1..Count(p) : Attrs[p][j].type = "clicfg"}} :
                       p \in ToSet(v.servers)}
Handle(v, c) == BaseOf(v, c[1]) + c[2] - 1
ConfigAt(v, handles) == {c \in Configs(v) : Handle(v, c) \in handles}

\* cache_cli_cfg and client_set_configurations for Service Changed: the serial
\* number is stored instead of the value.
WriteServiceChanged(on) ==
  /\ g.on /\ g.op = NoRequest /\ g.client.op = "none"
  /\ g' = [g EXCEPT !.sci_cfg = IF on THEN g.serial ELSE -1]

\* write_value, dbus_write: a server is asked to write; the file is written with its
\* answer.
Write(c, on) ==
  /\ g.on /\ g.op = NoRequest /\ g.client.op = "none" /\ c \in Configs(g)
  /\ g' = [g_attrib_ref(g) EXCEPT !.op = [NoRequest EXCEPT !.op = "write", !.start = Handle(g, c)],
                                  !.call = [None EXCEPT !.path = c[1]],
                                  !.write = IF on THEN "on" ELSE "off"]

\* The server (external) takes the value that is being written.
Taken(v) == LET c == ConfigAt(v, {v.op.start})
            IN [v EXCEPT !.view = IF v.write = "on" THEN @ \union c ELSE @ \ c]

\* cache_cli_cfg
Cached(v) == [v EXCEPT !.stored = IF v.write = "on" THEN @ \union {v.op.start}
                                  ELSE @ \ {v.op.start},
                       !.unheard = @ \ ConfigAt(v, {v.op.start})]

\* The write of a server whose answer is not seen: it may have been taken.
Unheard(v) == {[u EXCEPT !.unheard = @ \union ConfigAt(v, {v.op.start})] : u \in {v, Taken(v)}}

\* write_reply: the server has taken the value, or refused it; or it did not
\* answer in REQUEST_TIMEOUT.
write_reply ==
  /\ g.on /\ g.op.op = "write"
  /\ g' \in {Respond(v, << >>, "none") : v \in {Cached(Taken(g)), g} \union Unheard(g)}

\* read_value, read_blob and dbus_read: to a server of another carrier no call is made.
Read(p) ==
  /\ g.on /\ g.op = NoRequest /\ g.client.op = "none" /\ p \in ToSet(g.servers) \ Restricted
  /\ "read" \in Environment
  /\ g' = [g_attrib_ref(g) EXCEPT !.op = [NoRequest EXCEPT !.op = "read", !.start = BaseOf(g, p)],
                                  !.call = [None EXCEPT !.path = p]]

read_reply == g.on /\ g.op.op = "read" /\ g' = Respond(g, << >>, "none")

-----------------------------------------------------------------------------
(* channel_handler, for the requests that list attributes.                 *)

\* Mutant: the serial number is not stored.
update_client_serial_unstored(v) == [v EXCEPT !.cserial = v.serial]

\* read_by_group and find_by_type of the primary services bring the client's
\* serial number up to date.
update_client_serial(v) ==
  [v EXCEPT !.cserial = v.serial, !.sci_cfg = IF @ = -1 THEN @ ELSE v.serial]

Send(v, r) ==
  LET u == g_attrib_ref(v)
  IN List(IF r.op \in {"group", "find"} /\ v.cserial < v.serial THEN update_client_serial(u) ELSE u, r)

Discover(r, end) ==
  /\ g.on /\ g.op = NoRequest /\ g.client.op = "none"
  /\ g' = LET u == [g EXCEPT !.client = [Idle EXCEPT !.op = r.op, !.type = r.type, !.end = end]]
          IN Send(u, [op |-> r.op, type |-> r.type, start |-> 1, end |-> end])

DiscoverMore ==
  /\ g.on /\ g.op = NoRequest /\ g.client.op # "none" /\ g.client.result = "none"
  /\ g' = Send(g, [op |-> g.client.op, type |-> g.client.type,
                   start |-> g.client.next, end |-> g.client.end])

\* The client is content.
Discovered == /\ g.client.result # "none"
              /\ g' = [g EXCEPT !.client = Idle]

-----------------------------------------------------------------------------
(* Channels.                                                               *)

\* attrib_server_attach: the stored configurations are told to the servers, and
\* a client that has missed a change of the services gets an indication.
Attach(paired) ==
  /\ ~g.on
  /\ LET cfg == paired /\ g.sci_cfg # -1
         sci == cfg /\ g.sci_cfg < g.serial
     IN g' = [g EXCEPT !.on = TRUE, !.paired = paired,
                       !.cserial = IF cfg THEN g.sci_cfg ELSE 0,
                       !.sci = IF sci THEN "sent" ELSE "none",
                       !.refs = IF sci THEN 2 ELSE 1,
                       !.view = IF paired THEN ConfigAt(g, g.stored) ELSE {},
                       !.unheard = {}]

\* sci_return: confirmed, or an error.
sci_return(ok) ==
  /\ g.on /\ g.sci = "sent"
  /\ LET u == g_attrib_unref([g EXCEPT !.sci = IF ok THEN "none" ELSE "failed"])
     IN g' = IF ok THEN update_client_serial(u) ELSE u

server_indicate ==
  /\ g.on /\ ~g.ind /\ g.servers # << >>
  /\ g' = g_attrib_ref([g EXCEPT !.ind = TRUE])

IndReturn(v) == g_attrib_unref([v EXCEPT !.ind = FALSE])
ind_return == g.on /\ g.ind /\ g' = IndReturn(g)

\* channel_destroy: the servers are told that the configurations are off.
channel_destroy(v) ==
  LET u == IF v.ind THEN IndReturn(v) ELSE v
  IN [u EXCEPT !.on = FALSE, !.paired = FALSE, !.view = @ \ ConfigAt(v, v.stored),
               !.refs = 0, !.op = NoRequest, !.adl = << >>, !.size = 0, !.call = None,
               !.write = "none", !.sci = "none", !.cserial = 0, !.client = Idle]

\* The link is lost, or GATT_TIMEOUT after an indication.  The answer to a call that
\* is still out finds no channel (is_channel_valid); a write went before the messages of
\* zero_cli_cfg.
channel_disconnect ==
  /\ g.on
  /\ g' \in {channel_destroy(v) : v \in IF g.op.op = "write" THEN Unheard(g) ELSE {g}}

-----------------------------------------------------------------------------
(* RegisterServer and DeregisterServer, only while no client is connected. *)

register_server(p) ==
  /\ ~g.on /\ p \notin ToSet(g.servers) /\ g.serial < MaxSerial
  /\ g' = [g EXCEPT !.servers = Append(@, p), !.serial = @ + 1]

\* The handles of the servers behind it change; those stored do not.
deregister_server(p) ==
  /\ ~g.on /\ p \in ToSet(g.servers) /\ g.serial < MaxSerial
  /\ g' = [g EXCEPT !.servers = SelectSeq(@, LAMBDA q : q # p), !.serial = @ + 1]

-----------------------------------------------------------------------------

Next ==
  \/ \E p \in Paths : register_server(p) \/ deregister_server(p) \/ Read(p)
  \/ \E r \in Requests, end \in Ends : Discover(r, end)
  \/ DiscoverMore \/ Discovered
  \/ Reply \/ ReplyError \/ write_reply \/ read_reply
  \/ \E on \in BOOLEAN : Attach(on) \/ sci_return(on) \/ WriteServiceChanged(on)
  \/ \E c \in Configs(g), on \in BOOLEAN : Write(c, on)
  \/ server_indicate \/ ind_return \/ channel_disconnect

Spec == Init /\ [][Next]_g

-----------------------------------------------------------------------------
(* Properties.                                                             *)

\* Every attribute that a request can find, by its handle.
All(v, r) ==
  LET own == {[h |-> Builtin[i].h, path |-> "own",
               end |-> IF r.op \in {"group", "find"}
                       THEN Builtin[ServiceEnd(Builtin, i)].h ELSE Builtin[i].h] :
                i \in {j \in 1..Len(Builtin) : Matches(r, Builtin[j])}}
      Of(p) == {[h |-> BaseOf(v, p) + i - 1, path |-> p,
                 end |-> BaseOf(v, p) - 1 + IF r.op \in {"group", "find"}
                                            THEN ServiceEnd(Attrs[p], i) ELSE i] :
                  i \in {j \in 1..Count(p) : Matches(r, Attrs[p][j])}}
  IN own \union UNION {Of(p) : p \in {q \in ToSet(v.servers) : r.op # "type" \/ q \notin Restricted}}

\* A client that lists attributes, answer after answer, from the first handle on,
\* is told each once and in order, over the database and all servers, whatever
\* the sizes and the room in an answer; it misses none but those of servers that
\* did not answer.
ListsAll ==
  LET c == g.client
      all == {a \in All(g, c) : a.h <= c.end}
      handles == [k \in 1..Len(c.found) |-> c.found[k].h]
  IN c.op # "none" =>
       /\ \A k \in 1..Len(c.found) - 1 : handles[k] < handles[k + 1]
       /\ \A k \in 1..Len(c.found) : \E a \in all : a.h = c.found[k].h /\ a.end = c.found[k].end
       /\ c.result = "NOT_FOUND" =>
            \A a \in all : a.path \in c.missed \/ a.h \in ToSet(handles)

\* Whoever waits for the GAttrib holds a reference to it: the channel, the
\* request that is being answered, each indication.
References ==
  g.on => g.refs = 1 + (IF g.op # NoRequest THEN 1 ELSE 0) + (IF g.ind THEN 1 ELSE 0)
                     + (IF g.sci = "sent" THEN 1 ELSE 0)

\* A paired client that wants to know of changed services is not left with old
\* ones: it has the indication before it, or refused it.
ChangeIndicated ==
  g.on /\ g.paired /\ g.sci_cfg # -1 /\ g.sci_cfg < g.serial => g.sci # "none"

\* The servers know the configurations of the session, and none after it; but for those
\* whose write they did not answer in time or before the link was lost, which the code
\* does not take back.
ConfigsKnown ==
  /\ g.on /\ g.paired => /\ g.view \subseteq ConfigAt(g, g.stored) \union g.unheard
                         /\ ConfigAt(g, g.stored) \subseteq g.view \union g.unheard
  /\ ~g.on => g.view \subseteq g.unheard
=============================================================================
