----------------------------- MODULE SdpServer -----------------------------
(***************************************************************************)
(* src/sdpd-*.c: the records of services, kept by the daemon and by local   *)
(* clients of the SDP socket, and the answers to remote clients, which are   *)
(* cached and sent in parts when they are long.                             *)
(***************************************************************************)
EXTENDS Naturals, Sequences, SequencesExt

CONSTANTS Locals,     \* the sockets of local clients
          Remotes,    \* remote clients
          Adapters,   \* where they connect
          Registered, \* what local clients register: for an adapter or all, and whether to persist
          MaxHandle,  \* bound: of records
          Attributes, \* of a record
          Room,       \* what fits into one answer
          MaxTime,    \* bound: of the clock
          Environment \* which of these happen as well: two answers are cached within one
                      \* "second", a record is registered or updated with a handle that the
                      \* client has chosen ("given"), a client removes the records of "others"

VARIABLE d

\* service_db: by handle, the record's attributes, its version and owner (history);
\* access_db: the adapter it is for; socket_index: the records to remove with a socket;
\* plugins: the handles that the daemon's plugins have;
\* cstates: the answers that are cached, the newest first; asked: of a remote client, its
\* request, the whole answer at that time (history), what it has got, its continuation
\* state, or that it got an "error" or something else in the end; fault: a record was
\* removed that is not there, or the assertion on an update fails.
Idle == [kind |-> "none", whole |-> <<>>, got |-> <<>>, timestamp |-> 0, sent |-> 0]
BDADDR_ANY == "any"
Init == d = [service_db |-> <<>>, access_db |-> <<>>, socket_index |-> {}, plugins |-> {}, open |-> {},
             cstates |-> <<>>, now |-> 1, asked |-> [r \in Remotes |-> Idle], fault |-> FALSE]

Handles(x) == DOMAIN x.service_db

Put(f, h, v) == [k \in DOMAIN f \cup {h} |-> IF k = h THEN v ELSE f[k]]
Drop(f, h) == [k \in DOMAIN f \ {h} |-> f[k]]

-----------------------------------------------------------------------------
(* The database.                                                           *)

sdp_next_handle(x) == CHOOSE h \in 1 .. MaxHandle + 1 :
                        h \notin Handles(x) /\ \A k \in 1 .. h - 1 : k \in Handles(x)

sdp_record_add(x, h, a, owner) ==
  [x EXCEPT !.service_db = Put(@, h, [version |-> 0, owner |-> owner]), !.access_db = Put(@, h, a)]

sdp_record_remove(x, h) ==
  IF h \in Handles(x) THEN [x EXCEPT !.service_db = Drop(@, h), !.access_db = Drop(@, h)]
  ELSE [x EXCEPT !.fault = TRUE]

sdp_check_access(x, h, a) ==
  h \in DOMAIN x.access_db => x.access_db[h] = a \/ BDADDR_ANY \in {x.access_db[h], a}

\* Mutant: the first record of the socket only.
sdp_svcdb_collect_all_one(x, sock) ==
  LET mine == {i \in x.socket_index : i.sock = sock}
      first == {i \in mine : \A k \in mine : i.handle <= k.handle}
  IN FoldFunctionOnSet(LAMBDA h, y : sdp_record_remove(y, h),
                       [x EXCEPT !.socket_index = @ \ first],
                       [h \in 1 .. MaxHandle |-> h], {i.handle : i \in first})

\* The index is kept in the order of the sockets, so that the search may end at the
\* first later one.
sdp_svcdb_collect_all(x, sock) ==
  LET mine == {i \in x.socket_index : i.sock = sock}
  IN FoldFunctionOnSet(LAMBDA h, y : sdp_record_remove(y, h),
                       [x EXCEPT !.socket_index = @ \ mine],
                       [h \in 1 .. MaxHandle |-> h], {i.handle : i \in mine})

-----------------------------------------------------------------------------
(* The daemon and local clients.                                           *)

add_record_to_server(a) ==
  LET h == sdp_next_handle(d)
  IN /\ h <= MaxHandle
     /\ d' = [sdp_record_add(d, h, a, "daemon") EXCEPT !.plugins = @ \cup {h}]

\* The index of sockets is not looked at.
remove_record_from_server(h) ==
  LET x == [d EXCEPT !.plugins = @ \ {h}]
  IN /\ h \in d.plugins
     /\ d' = IF h \in Handles(d) THEN sdp_record_remove(x, h) ELSE x

io_accept_event(sock) == sock \notin d.open /\ d' = [d EXCEPT !.open = @ \cup {sock}]

\* The extraction adds a record that has a handle, which then is no longer
\* made collectable; one whose handle is there already has its attributes replaced.
service_register_req(sock, h, as) ==
  /\ sock \in d.open
  /\ IF h = 0 THEN sdp_next_handle(d) <= MaxHandle ELSE "given" \in Environment
  /\ LET new == sdp_next_handle(d)
         owner == IF as.persist THEN "persist" ELSE sock
         item == [sock |-> sock, handle |-> new]
     IN d' = CASE h = 0 -> [sdp_record_add(d, new, as.adapter, owner) EXCEPT
                              !.socket_index = IF as.persist THEN @ ELSE @ \cup {item}]
               [] h \in Handles(d) -> [d EXCEPT !.service_db[h].version = 1 - @]
               [] OTHER -> sdp_record_add(d, h, as.adapter, owner)

\* Whose record it is is not asked.  A record that begins with a handle g (0: none) is
\* looked up by that one, and asserted to be the record that is updated.
service_update_req(sock, h, g) ==
  /\ sock \in d.open /\ h \in Handles(d)
  /\ g \notin {0, h} => "given" \in Environment
  /\ d' = IF g \in {0, h} THEN [d EXCEPT !.service_db[h].version = 1 - @]
          ELSE [d EXCEPT !.fault = TRUE]

service_remove_req(sock, h) ==
  /\ sock \in d.open /\ h \in Handles(d)
  /\ d.service_db[h].owner \notin {sock, "persist"} => "others" \in Environment
  /\ d' = sdp_record_remove([d EXCEPT !.socket_index = {i \in @ : i.handle # h}], h)

io_session_event(sock) ==
  /\ sock \in d.open
  /\ d' = [sdp_svcdb_collect_all(d, sock) EXCEPT !.open = @ \ {sock}]

-----------------------------------------------------------------------------
(* Remote clients.                                                         *)

extract_attrs(x, h) == [k \in 1 .. Attributes |-> <<h, x.service_db[h].version, k>>]

Found(x, a) == SetToSortSeq({h \in Handles(x) : sdp_check_access(x, h, a)}, <)

\* A search for all records, the attributes of one, or the attributes of all.
Answer(x, kind, h, a) ==
  LET found == Found(x, a)
  IN CASE kind = "search" -> [k \in DOMAIN found |-> <<found[k]>>]
       [] kind = "attr" -> IF h \in Handles(x) THEN extract_attrs(x, h) ELSE <<>>
       [] OTHER -> FlattenSeq([k \in DOMAIN found |-> extract_attrs(x, found[k])])

\* An answer that does not fit is cached under the time.
sdp_cstate_alloc_buf(x, data) ==
  [x EXCEPT !.cstates = <<[timestamp |-> x.now, data |-> data]>> \o @]

\* A short answer is sent at once.
Request(r, kind, h, a) ==
  LET data == Answer(d, kind, h, a)
      asked == [kind |-> kind, whole |-> data, got |-> SubSeq(data, 1, Room),
                timestamp |-> d.now, sent |-> Room]
  IN /\ d.asked[r].kind = "none" /\ Len(data) > Room
     /\ (\E k \in DOMAIN d.cstates : d.cstates[k].timestamp = d.now) => "second" \in Environment
     /\ d' = [sdp_cstate_alloc_buf(d, data) EXCEPT !.asked[r] = asked]

sdp_get_cached_rsp(x, timestamp) == {k \in DOMAIN x.cstates : x.cstates[k].timestamp = timestamp}

\* The cache is freed with the last part, but not that of a search.
Continue(r) ==
  LET q == d.asked[r]
      cached == sdp_get_cached_rsp(d, q.timestamp)
      i == CHOOSE k \in cached : \A o \in cached : k <= o
      data == d.cstates[i].data
      sent == IF q.sent + Room < Len(data) THEN q.sent + Room ELSE Len(data)
      got == q.got \o SubSeq(data, q.sent + 1, sent)
  IN /\ q.kind \in {"search", "attr", "search_attr"}
     /\ d' = CASE cached = {} -> [d EXCEPT !.asked[r].kind = "error"]
               [] cached # {} /\ sent < Len(data) ->
                    [d EXCEPT !.asked[r] = [q EXCEPT !.got = got, !.sent = sent]]
               [] OTHER -> [d EXCEPT !.asked[r] =
                                       [Idle EXCEPT !.kind = IF got = q.whole THEN @ ELSE "other"],
                                     !.cstates = IF q.kind = "search" THEN @ ELSE RemoveAt(@, i)]

\* The client has gone; what was cached for it stays.
Leaves(r) == d.asked[r].kind # "none" /\ d' = [d EXCEPT !.asked[r] = Idle]

Tick == d.now < MaxTime /\ d' = [d EXCEPT !.now = @ + 1]

Next == \/ \E a \in Adapters : add_record_to_server(a)
        \/ \E sock \in Locals, h \in 0 .. MaxHandle, as \in Registered :
             service_register_req(sock, h, as)
        \/ \E h \in 1 .. MaxHandle :
             \/ remove_record_from_server(h)
             \/ \E sock \in Locals :
                  \/ \E g \in 0 .. MaxHandle : service_update_req(sock, h, g)
                  \/ service_remove_req(sock, h)
        \/ \E sock \in Locals : io_accept_event(sock) \/ io_session_event(sock)
        \/ \E r \in Remotes :
             \/ Continue(r) \/ Leaves(r)
             \/ \E a \in Adapters, h \in 1 .. MaxHandle, kind \in {"search", "attr", "search_attr"} :
                  Request(r, kind, h, a)
        \/ Tick

Spec == Init /\ [][Next]_d

-----------------------------------------------------------------------------

\* What a client has got of an answer is a part of it from the beginning, and all of
\* it at the end, whatever happens to the records meanwhile; no valid
\* continuation state is refused.
AnswersWhole == \A r \in Remotes :
                  /\ d.asked[r].kind \notin {"error", "other"}
                  /\ IsPrefix(d.asked[r].got, d.asked[r].whole)

\* Every record has its access data; those of clients go with them, unless they are to
\* persist, and those of others stay: the index of sockets holds just these.
Collected == /\ DOMAIN d.access_db = Handles(d)
             /\ {i.sock : i \in d.socket_index} \subseteq d.open
             /\ \A h \in Handles(d), sock \in Locals :
                  d.service_db[h].owner = sock <=> [sock |-> sock, handle |-> h] \in d.socket_index
             /\ \A i \in d.socket_index : i.handle \in Handles(d)
             /\ ~d.fault
=============================================================================
