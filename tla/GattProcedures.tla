--------------------------- MODULE GattProcedures ---------------------------
(***************************************************************************)
(* The procedures of a GATT client (attrib/gatt.c) on the attribute database *)
(* of the server (src/attrib-server.c), byte for byte as the ATT PDUs of     *)
(* attrib/att.c carry them: services, characteristics and values are found   *)
(* and read in pieces that fit the MTU, written, and told to the clients     *)
(* that have configured it.  The database has the services of               *)
(* register_core_services, those of plugins/gatt-example.c and one of        *)
(* another plugin, whose value may be written; servers on the bus are in     *)
(* AttribServer.                                                             *)
(***************************************************************************)
EXTENDS Integers, Sequences, FiniteSets, FiniteSetsExt, SequencesExt

CONSTANTS Mtus,       \* pairs of the client's buffer and the server's MTU
          Levels,     \* security levels of the channel
          Names,      \* lengths of the adapter's name at its start
          Lengths,    \* lengths of values that are set
          MaxChanges, \* changes of values and of configurations, at most
          Environment \* what else happens: "asymmetric", "offset", "longtype", "longwrite",
                      \* "configs", "secondary", "twice", "moved", "indicate", "empty", "zero"

VARIABLE s

Last16 == 65535

\* Bytes

U16(v) == <<v % 256, v \div 256>>
GetU16(p, i) == p[i + 1] + 256 * p[i + 2]
From(p, i) == SubSeq(p, i + 1, Len(p))
Cut(p, n) == SubSeq(p, 1, Min({Len(p), n}))
Text(n) == [i \in 1..n |-> i]

\* UUIDs are the bytes of their short or long form; a short one stands for the Bluetooth base.
To128(u) ==
  IF Len(u) = 16 THEN u
  ELSE <<251, 52, 155, 95, 128, 0, 0, 128, 0, 16, 0, 0>> \o u \o <<0, 0>>
Same(u, v) == IF Len(u) = Len(v) THEN u = v ELSE To128(u) = To128(v)
Prim == U16(10240)
Snd == U16(10241)
Include == U16(10242)
Char == U16(10243)
DeviceName == U16(10752)
Appearance == U16(10753)
ServiceChanged == U16(10757)
UserDesc == U16(10497)
CliCfg == U16(10498)
Fmt == U16(10500)
Vendor(n) == U16(40960 + n)             \* the UUIDs of gatt-example.c
Long(n) == [i \in 1..16 |-> 16 * n + i - 1]

\* Opcodes and error codes of att.h
Op ==
  [error |-> 1, mtuReq |-> 2, mtuRsp |-> 3, infoReq |-> 4, infoRsp |-> 5, findReq |-> 6, findRsp |-> 7,
   typeReq |-> 8, typeRsp |-> 9, readReq |-> 10, readRsp |-> 11, blobReq |-> 12, blobRsp |-> 13,
   groupReq |-> 16, groupRsp |-> 17, writeReq |-> 18, writeRsp |-> 19, notify |-> 27, indicate |-> 29,
   confirm |-> 30, writeCmd |-> 82]
Ecode ==
  [handle |-> 1, read |-> 2, write |-> 3, pdu |-> 4, authentication |-> 5, unsupported |-> 6,
   offset |-> 7, authorization |-> 8, notFound |-> 10, io |-> 128, group |-> 16]

\* Encoding: the PDU, empty if it does not fit the buffer of len bytes.

enc_error_resp(opcode, h, status, len) ==
  IF len < 5 THEN <<>> ELSE <<Op.error, opcode>> \o U16(h) \o <<status>>

EncRange(opcode, start, end, rest, len) ==
  IF len < 5 + Len(rest) THEN <<>> ELSE <<opcode>> \o U16(start) \o U16(end) \o rest
enc_read_by_grp_req(start, end, uuid, len) == EncRange(Op.groupReq, start, end, uuid, len)
enc_read_by_type_req(start, end, uuid, len) == EncRange(Op.typeReq, start, end, uuid, len)
enc_find_info_req(start, end, len) == EncRange(Op.infoReq, start, end, <<>>, len)
enc_find_by_type_req(start, end, uuid, value, len) ==
  IF len < 7 \/ Len(uuid) # 2 THEN <<>>
  ELSE EncRange(Op.findReq, start, end, uuid \o Cut(value, len - 7), len)

\* As many elements of l bytes as there is room for.
EncList(head, list, l, len) ==
  head \o FlattenSeq([i \in 1..Min({Len(list), (len - Len(head)) \div l}) |-> Cut(list[i], l)])
enc_read_by_grp_resp(list, l, len) ==
  IF len < l + 2 THEN <<>> ELSE EncList(<<Op.groupRsp, l>>, list, l, len)
enc_find_by_type_resp(list, len) == IF len < 5 THEN <<>> ELSE EncList(<<Op.findRsp>>, list, 4, len)
enc_find_info_resp(format, list, l, len) ==
  IF len < l + 2 THEN <<>> ELSE EncList(<<Op.infoRsp, format>>, list, l, len)
enc_read_by_type_resp(list, l, len) ==
  LET fits == Min({len - 2, l}) IN EncList(<<Op.typeRsp, fits>>, list, fits, len)

EncHandle(opcode, h, rest, len) == IF len < 3 THEN <<>> ELSE <<opcode>> \o U16(h) \o Cut(rest, len - 3)
enc_write_req(h, value, len) == EncHandle(Op.writeReq, h, value, len)
enc_write_cmd(h, value, len) == EncHandle(Op.writeCmd, h, value, len)
enc_read_req(h, len) == EncHandle(Op.readReq, h, <<>>, len)
enc_read_blob_req(h, offset, len) == IF len < 5 THEN <<>> ELSE EncHandle(Op.blobReq, h, U16(offset), len)
enc_mtu_req(mtu, len) == EncHandle(Op.mtuReq, mtu, <<>>, len)
enc_mtu_resp(mtu, len) == EncHandle(Op.mtuRsp, mtu, <<>>, len)
enc_read_resp(value, len) == <<Op.readRsp>> \o Cut(value, len - 1)
enc_read_blob_resp(value, offset, len) == <<Op.blobRsp>> \o Cut(From(value, offset), len - 1)
enc_write_resp == <<Op.writeRsp>>

\* A notification or an indication of an attribute is sent whole or not at all.
enc_notification(a, len) ==
  IF len < Len(a.data) + 3 THEN <<>> ELSE EncHandle(Op.notify, a.h, a.data, len)
enc_indication(a, len) ==
  IF len < Len(a.data) + 3 THEN <<>> ELSE EncHandle(Op.indicate, a.h, a.data, len)

\* Decoding of requests; the callers have checked the opcode.

DecRange(p) == [start |-> GetU16(p, 1), end |-> GetU16(p, 3)]
dec_read_by_grp_req(p) == [start |-> GetU16(p, 1), end |-> GetU16(p, 3), uuid |-> Cut(From(p, 5), 16)]
dec_read_by_type_req(p) == dec_read_by_grp_req(p)
dec_find_by_type_req(p) ==
  [start |-> GetU16(p, 1), end |-> GetU16(p, 3), uuid |-> SubSeq(p, 6, 7), value |-> From(p, 7)]
dec_find_info_req(p) == DecRange(p)
dec_read_req(p) == GetU16(p, 1)
dec_read_blob_req(p) == [h |-> GetU16(p, 1), offset |-> GetU16(p, 3)]
dec_write_req(p) == [h |-> GetU16(p, 1), value |-> From(p, 3)]
dec_mtu_req(p) == GetU16(p, 1)

\* The shortest PDU the decoding function of a request takes.
MinLen(opcode) ==
  CASE opcode \in {Op.groupReq, Op.typeReq, Op.findReq} -> 7
    [] opcode \in {Op.infoReq, Op.blobReq} -> 5
    [] OTHER -> 3

\* Decoding of responses: lists of elements.

DecList(p, l) == [i \in 1..((Len(p) - 2) \div l) |-> SubSeq(p, 3 + (i - 1) * l, 2 + i * l)]
dec_read_by_grp_resp(p) == DecList(p, p[2])
dec_read_by_type_resp(p) == DecList(p, p[2])
dec_find_info_resp(p) == DecList(p, CASE p[2] = 1 -> 4 [] p[2] = 2 -> 18 [] OTHER -> 2)
dec_find_by_type_resp(p) ==
  [i \in 1..((Len(p) - 1) \div 4) |-> [start |-> GetU16(p, 4 * i - 3), end |-> GetU16(p, 4 * i - 1)]]
dec_mtu_resp(p) == GetU16(p, 1)

\* The database: attributes in the order of their handles.

Attr(h, type, read, write, data) ==
  [h |-> h, type |-> type, read |-> read, write |-> write, data |-> data, place |-> 0]
Fixed(h, type, data) == Attr(h, type, "none", "no", data)
IsService(a) == Same(a.type, Prim) \/ Same(a.type, Snd)
Find(db, h) == SelectSeq(db, LAMBDA a : a.h = h)
attrib_db_add(db, a) ==
  IF Find(db, a.h) # <<>> THEN db
  ELSE SelectSeq(db, LAMBDA b : b.h < a.h) \o <<a>> \o SelectSeq(db, LAMBDA b : b.h > a.h)

\* attrib_db_find_avail: the first gap before a service that is wide enough, else the end.
attrib_db_find_avail(db, n) ==
  LET gaps == {i \in 2..Len(db) : IsService(db[i]) /\ db[i].h - db[i - 1].h - 1 >= n}
  IN IF gaps # {} THEN db[Min(gaps) - 1].h + 1
     ELSE IF Last(db).h # Last16 /\ Last16 - Last(db).h >= n THEN Last(db).h + 1
     ELSE 0

register_core_services ==
  <<Fixed(1, Prim, U16(6144)),
    Fixed(4, Char, <<2>> \o U16(6) \o DeviceName), Fixed(6, DeviceName, <<>>),
    Fixed(7, Char, <<2>> \o U16(8) \o Appearance), Fixed(8, Appearance, U16(0)),
    Fixed(16, Prim, U16(6145)),
    Fixed(17, Char, <<32>> \o U16(18) \o ServiceChanged),
    Attr(18, ServiceChanged, "no", "no", <<>>),
    Attr(19, CliCfg, "none", "none", <<>>)>>
NameHandle == 6
SvcChgHandle == 18

\* A service is a sequence of templates: a template is an attribute whose handle is an offset;
\* the declaration of a characteristic takes the handle that follows its own.
Decl(props, uuid) == [type |-> Char, read |-> "none", write |-> "no", data |-> <<props>>, uuid |-> uuid]
Item(type, data) == [type |-> type, read |-> "none", write |-> "no", data |-> data, uuid |-> <<>>]
Placed(item, h) ==
  Attr(h, item.type, item.read, item.write,
       IF Same(item.type, Char) THEN item.data \o U16(h + 1) \o item.uuid ELSE item.data)
Register(db, items) ==
  LET h == attrib_db_find_avail(db, Len(items))
  IN IF h = 0 THEN db
     ELSE FoldLeft(LAMBDA d, i : attrib_db_add(d, Placed(items[i], h + i - 1)), db,
                   [i \in 1..Len(items) |-> i])
Span(db, items) == LET h == attrib_db_find_avail(db, Len(items)) IN U16(h) \o U16(h + Len(items) - 1)

register_battery_service ==
  <<Item(Prim, Vendor(2)), Decl(2, Vendor(3)), Item(Vendor(3), <<4>>),
    [Item(CliCfg, U16(0)) EXCEPT !.write = "authentication"]>>
Manufacturer(name, serial) ==
  <<Item(Snd, Vendor(5)), Decl(2, Vendor(12)), Item(Vendor(12), Text(name)),
    Decl(2, Vendor(13)), Item(Vendor(13), Text(serial))>>
register_manuf1_service == Manufacturer(23, 13)
register_manuf2_service == Manufacturer(20, 16)
register_termometer_service(manuf1, manuf2) ==
  <<Item(Prim, Vendor(4)), Item(Include, manuf1 \o Vendor(5)), Item(Include, manuf2 \o Vendor(14)),
    Decl(2, Vendor(6)), Item(Vendor(6), <<138, 2>>), Item(Fmt, Text(7)), Item(UserDesc, Text(19)),
    Decl(2, Vendor(9)), Item(Vendor(9), <<39>>), Item(Fmt, Text(8)), Item(UserDesc, Text(25))>>
register_vendor_service == <<Item(Snd, Vendor(14)), Decl(2, Vendor(15)), Item(Vendor(15), Text(6))>>
register_weight_service(vendor) ==
  <<Item(Prim, Long(1)), Item(Include, vendor \o Vendor(5)), Decl(2, Long(2)), Item(Long(2), <<130, 85, 0, 0>>),
    Item(Fmt, Text(8)), Item(UserDesc, Text(15))>>

gatt_example_init(db) ==
  LET d1 == Register(db, register_battery_service)
      manuf1 == Span(d1, register_manuf1_service)
      d2 == Register(d1, register_manuf1_service)
      manuf2 == Span(d2, register_manuf2_service)
      d3 == Register(d2, register_manuf2_service)
      d4 == Register(d3, register_termometer_service(manuf1, manuf2))
      vendor == Span(d4, register_vendor_service)
      d5 == Register(d4, register_vendor_service)
  IN Register(d5, register_weight_service(vendor))

\* The service of another plugin: a value that may be written, notified and indicated.
NotesValue == Long(4)
Notes ==
  <<Item(Prim, Long(3)), Decl(58, NotesValue), [Item(NotesValue, <<7>>) EXCEPT !.write = "none"],
    [Item(CliCfg, U16(0)) EXCEPT !.write = "none"]>>

\* The server

\* att_check_reqs: 0 if the channel may do it.
att_check_reqs(level, reqs, refused) ==
  CASE reqs = "authentication" /\ level # "high" -> Ecode.authentication
    [] reqs = "authorization" /\ level = "low" -> Ecode.authorization
    [] reqs = "no" -> refused
    [] OTHER -> 0

\* What a client has configured, as read_cli_cfg finds it in the file.
Cfg(chan, h) == IF h \in DOMAIN chan.cfg THEN chan.cfg[h] ELSE 0

\* client_cfg_attribute: what a client has configured stands for the attribute.
client_cfg_attribute(w, a) ==
  IF Same(a.type, CliCfg) THEN [a EXCEPT !.read = "none", !.write = "authorization",
                                         !.data = U16(Cfg(w.chan[1], a.h))]
  ELSE a

\* read_by_group: the groups that start in the range with values of one size; a group ends before
\* the next service, the last one with the database if its end is reached.
GroupStep(acc, a, w, start, end, uuid) ==
  LET n == Len(acc.groups)
      closed == IF acc.old /\ IsService(a)
                THEN [acc EXCEPT !.groups[n].end = acc.last, !.old = FALSE] ELSE acc
      status == att_check_reqs(w.level, a.read, Ecode.read)
  IN CASE acc.stop \/ a.h < start -> acc
       [] a.h >= end -> [acc EXCEPT !.stop = TRUE]
       [] ~Same(a.type, uuid) -> [closed EXCEPT !.last = IF closed.old THEN a.h ELSE @]
       [] n > 0 /\ acc.size # Len(a.data) -> [closed EXCEPT !.stop = TRUE]
       [] status # 0 -> [closed EXCEPT !.stop = TRUE, !.error = status, !.last = a.h]
       [] OTHER -> [closed EXCEPT !.groups = Append(@, [h |-> a.h, end |-> 0, data |-> a.data]),
                                  !.old = TRUE, !.last = a.h, !.size = Len(a.data)]

read_by_group(w, r) ==
  LET acc == FoldLeft(LAMBDA x, a : GroupStep(x, a, w, r.start, r.end, r.uuid),
                      [groups |-> <<>>, old |-> FALSE, last |-> r.end, size |-> 0, stop |-> FALSE, error |-> 0],
                      w.db)
      n == Len(acc.groups)
      groups == [acc.groups EXCEPT ![n].end = IF acc.stop THEN acc.last ELSE Last(w.db).h]
      error(h, status) == enc_error_resp(Op.groupReq, h, status, w.mtu)
  IN CASE r.start > r.end \/ r.start = 0 -> error(r.start, Ecode.handle)
       [] ~Same(r.uuid, Prim) /\ ~Same(r.uuid, Snd) -> error(0, Ecode.group)
       [] acc.error # 0 -> error(acc.last, acc.error)
       [] n = 0 -> error(r.start, Ecode.notFound)
       [] OTHER -> enc_read_by_grp_resp(
                     [i \in 1..n |-> U16(groups[i].h) \o U16(groups[i].end) \o groups[i].data],
                     acc.size + 4, w.mtu)

\* read_by_type: attributes of one size.  The configurations of the client share one place: they
\* are to be told one at a time, but the next one has been put there when the loop ends.
TypeStep(acc, orig, w, start, end, uuid) ==
  LET a == client_cfg_attribute(w, orig)
      status == att_check_reqs(w.level, a.read, Ecode.read)
  IN CASE acc.stop \/ a.h < start -> acc
       [] a.h > end -> [acc EXCEPT !.stop = TRUE]
       [] ~Same(a.type, uuid) -> acc
       [] status # 0 -> [acc EXCEPT !.stop = TRUE, !.error = status, !.last = a.h]
       [] acc.types # <<>> /\ acc.size # 0 /\ acc.size # Len(a.data) -> [acc EXCEPT !.stop = TRUE]
       [] acc.types # <<>> /\ Same(a.type, CliCfg) -> [acc EXCEPT !.types = <<a>>, !.stop = TRUE]
       [] OTHER -> [acc EXCEPT !.types = Append(@, a), !.size = Len(a.data)]

read_by_type(w, r) ==
  LET acc == FoldLeft(LAMBDA x, a : TypeStep(x, a, w, r.start, r.end, r.uuid),
                      [types |-> <<>>, size |-> 0, stop |-> FALSE, error |-> 0, last |-> 0], w.db)
      l == acc.size + 2
      room == Cut(acc.types, (w.mtu - 2) \div l)
      error(h, status) == enc_error_resp(Op.typeReq, h, status, w.mtu)
  IN CASE r.start > r.end \/ r.start = 0 -> error(r.start, Ecode.handle)
       [] acc.error # 0 -> error(acc.last, acc.error)
       [] acc.types = <<>> -> error(r.start, Ecode.notFound)
       [] OTHER -> enc_read_by_type_resp([i \in 1..Len(room) |-> U16(room[i].h) \o room[i].data], l, w.mtu)

\* find_info: attributes whose types have one width.
find_info(w, r) ==
  LET asked == SelectSeq(w.db, LAMBDA a : a.h >= r.start /\ a.h <= r.end)
      other == {i \in 1..Len(asked) : Len(asked[i].type) # Len(asked[1].type)}
      info == Cut(asked, IF other = {} THEN Len(asked) ELSE Min(other) - 1)
      error(h, status) == enc_error_resp(Op.infoReq, h, status, w.mtu)
  IN CASE r.start > r.end \/ r.start = 0 -> error(r.start, Ecode.handle)
       [] asked = <<>> -> error(r.start, Ecode.notFound)
       [] OTHER -> enc_find_info_resp(IF Len(asked[1].type) = 2 THEN 1 ELSE 2,
                     [i \in 1..Len(info) |-> U16(info[i].h) \o info[i].type], Len(asked[1].type) + 2, w.mtu)

\* find_by_type: the ranges of the services whose value is the UUID asked for.
FindStep(acc, a, start, end, uuid, value) ==
  LET n == Len(acc.ranges)
  IN CASE acc.stop \/ a.h < start -> acc
       [] a.h > end -> [acc EXCEPT !.stop = TRUE]
       [] Len(a.data) \in {2, 16} /\ Same(a.type, uuid) /\ Same(a.data, value) ->
            [acc EXCEPT !.ranges = Append(@, [start |-> a.h, end |-> a.h]), !.open = TRUE]
       [] acc.open /\ IsService(a) -> [acc EXCEPT !.open = FALSE]
       [] acc.open /\ ~IsService(a) -> [acc EXCEPT !.ranges[n].end = a.h]
       [] OTHER -> acc

find_by_type(w, r) ==
  LET acc == FoldLeft(LAMBDA x, a : FindStep(x, a, r.start, r.end, r.uuid, r.value),
                      [ranges |-> <<>>, open |-> FALSE, stop |-> FALSE], w.db)
      list == [i \in 1..Len(acc.ranges) |-> U16(acc.ranges[i].start) \o U16(acc.ranges[i].end)]
      error(h, status) == enc_error_resp(Op.findReq, h, status, w.mtu)
  IN CASE r.start > r.end \/ r.start = 0 -> error(r.start, Ecode.handle)
       [] Len(r.value) \notin {2, 16} -> error(r.start, Ecode.pdu)
       [] list = <<>> -> error(r.start, Ecode.notFound)
       [] OTHER -> enc_find_by_type_resp(list, w.mtu)

read_value(w, h) ==
  LET a == client_cfg_attribute(w, Find(w.db, h)[1])
      status == att_check_reqs(w.level, a.read, Ecode.read)
  IN CASE Find(w.db, h) = <<>> -> enc_error_resp(Op.readReq, h, Ecode.handle, w.mtu)
       [] status # 0 -> enc_error_resp(Op.readReq, h, status, w.mtu)
       [] OTHER -> enc_read_resp(a.data, w.mtu)

read_blob(w, r) ==
  LET a == client_cfg_attribute(w, Find(w.db, r.h)[1])
      status == att_check_reqs(w.level, a.read, Ecode.read)
  IN CASE Find(w.db, r.h) = <<>> -> enc_error_resp(Op.blobReq, r.h, Ecode.handle, w.mtu)
       [] status = 0 /\ Len(a.data) <= r.offset -> enc_error_resp(Op.blobReq, r.h, Ecode.offset, w.mtu)
       [] status # 0 -> enc_error_resp(Op.blobReq, r.h, status, w.mtu)
       [] OTHER -> enc_read_blob_resp(a.data, r.offset, w.mtu)

\* attrib_notify_clients: every client in turn; the lists hold the places of the attributes.  An
\* indication that does not fit ends the loop.
Listed(list, h) == \E i \in 1..Len(list) : list[i].h = h
NotifyStep(acc, c, w, a) ==
  LET chan == w.chan[c]
      mtu == IF c = 1 THEN w.mtu ELSE chan.mtu
      send(told, pdu) == IF pdu = <<>> THEN told ELSE Append(told, [to |-> c, pdu |-> pdu])
      notified == IF Listed(chan.notify, a.h) THEN send(acc.told, enc_notification(a, mtu)) ELSE acc.told
      skipped == Listed(chan.notify, a.h) /\ enc_notification(a, mtu) = <<>>
  IN IF acc.stop THEN acc
     ELSE IF skipped \/ ~Listed(chan.indicate, a.h) THEN [acc EXCEPT !.told = notified]
     ELSE [acc EXCEPT !.told = send(notified, enc_indication(a, mtu)),
                      !.stop = enc_indication(a, mtu) = <<>>]
Dangling(w) ==
  \E c \in 1..2 : \E e \in ToSet(w.chan[c].notify \o w.chan[c].indicate) :
    Find(w.db, e.h) = <<>> \/ Find(w.db, e.h)[1].place # e.place

attrib_notify_clients(w, a) ==
  [w EXCEPT !.told = FoldLeft(LAMBDA x, c : NotifyStep(x, c, w, a), [told |-> <<>>, stop |-> FALSE], <<1, 2>>).told,
            !.fault = @ \/ Dangling(w), !.changed = a.h]

\* attrib_db_update: the attribute may get another place in memory.
attrib_db_update(w, h, data, place) ==
  LET i == CHOOSE n \in 1..Len(w.db) : w.db[n].h = h
      a == [w.db[i] EXCEPT !.data = data, !.place = place]
  IN attrib_notify_clients([w EXCEPT !.db[i] = a], a)

\* client_set_configurations: the characteristic the configuration belongs to is looked for in
\* the attributes before it.
Configured(w, h) ==
  FoldLeft(LAMBDA x, a :
             IF a.h >= h THEN x
             ELSE IF Same(a.type, Char) THEN [x EXCEPT !.props = a.data[1], !.h = GetU16(a.data, 1)]
             ELSE IF a.h = x.h THEN [x EXCEPT !.value = <<a>>] ELSE x,
           [props |-> 0, h |-> 0, value |-> <<>>], w.db)
Bit(v, b) == (v \div b) % 2 = 1
Listing(list, on, a) ==
  LET e == [h |-> a.h, place |-> a.place] IN IF on THEN Append(list, e) ELSE RemoveFirst(list, e)
client_set_configurations(w, h, v) ==
  LET x == Configured(w, h)
      refused == [w |-> w, status |-> Ecode.pdu]
      cached == [w EXCEPT !.chan[1].cfg = (h :> IF h = SvcChgHandle + 1 /\ v # 0 THEN 2 ELSE v) @@ @,
                          !.changed = 0]
  IN CASE x.value = <<>> -> [w |-> w, status |-> 0]
       [] v >= 4 -> refused
       [] w.level = "low" -> [w |-> w, status |-> Ecode.authorization]
       [] Bit(v, 1) /\ ~Bit(x.props, 16) -> refused
       [] Bit(v, 2) /\ ~Bit(x.props, 32) -> refused
       [] x.value[1].h = SvcChgHandle -> [w |-> cached, status |-> 0]
       [] OTHER -> [w |-> [cached EXCEPT !.chan[1].notify = Listing(@, Bit(v, 1), x.value[1]),
                                         !.chan[1].indicate = Listing(@, Bit(v, 2), x.value[1])],
                    status |-> 0]

write_value(w, r, place) ==
  LET found == Find(w.db, r.h)
      status == att_check_reqs(w.level, found[1].write, Ecode.write)
      set == client_set_configurations(w, r.h, GetU16(r.value, 0))
      error(code) == [w EXCEPT !.rsp = enc_error_resp(Op.writeReq, r.h, code, w.mtu)]
  IN CASE found = <<>> -> error(Ecode.handle)
       [] status # 0 -> error(status)
       [] Same(found[1].type, CliCfg) /\ set.status # 0 -> error(set.status)
       [] Same(found[1].type, CliCfg) -> [set.w EXCEPT !.rsp = enc_write_resp]
       [] OTHER -> [attrib_db_update(w, r.h, r.value, place) EXCEPT !.rsp = enc_write_resp]

\* mtu_exchange: the client is told the MTU there was.
mtu_exchange(w, mtu) ==
  [w EXCEPT !.mtu = IF mtu < 23 THEN 23 ELSE Min({mtu, @}), !.rsp = enc_mtu_resp(w.mtu, w.mtu)]

\* channel_handler: the request is decoded and answered; a command is not.
ChannelHandler(w, p, place) ==
  LET v == [w EXCEPT !.req = <<>>]
      answer(pdu) == [v EXCEPT !.rsp = IF pdu = <<>> THEN enc_error_resp(p[1], 0, Ecode.io, w.mtu) ELSE pdu]
  IN CASE Len(p) < MinLen(p[1]) -> answer(enc_error_resp(p[1], 0, Ecode.pdu, w.mtu))
       [] p[1] = Op.groupReq -> answer(read_by_group(w, dec_read_by_grp_req(p)))
       [] p[1] = Op.typeReq -> answer(read_by_type(w, dec_read_by_type_req(p)))
       [] p[1] = Op.readReq -> answer(read_value(w, dec_read_req(p)))
       [] p[1] = Op.blobReq -> answer(read_blob(w, dec_read_blob_req(p)))
       [] p[1] = Op.mtuReq /\ w.le -> mtu_exchange(v, dec_mtu_req(p))
       [] p[1] = Op.infoReq -> answer(find_info(w, dec_find_info_req(p)))
       [] p[1] = Op.findReq -> answer(find_by_type(w, dec_find_by_type_req(p)))
       [] p[1] \in {Op.writeReq, Op.writeCmd} -> write_value(v, dec_write_req(p), place)
       [] OTHER -> answer(enc_error_resp(p[1], 0, Ecode.unsupported, w.mtu))

\* The client

NoOp == [kind |-> "none", from |-> 0, end |-> 0, uuid |-> <<>>, h |-> 0, offset |-> 0, buffer |-> <<>>]
NotDone == [op |-> NoOp, err |-> 0, list |-> <<>>, dirty |-> FALSE]

\* A procedure whose first request does not fit the buffer is not started.
Start(op, pdu) ==
  /\ s.op = NoOp /\ s.req = <<>> /\ ~s.crashed
  /\ pdu # <<>>
  /\ s' = [s EXCEPT !.op = op, !.req = pdu, !.list = <<>>, !.dirty = FALSE, !.done = NotDone,
              !.n = IF op.kind \in {"write", "command"} THEN @ + 1 ELSE @]

Finish(w, err, list) ==
  [w EXCEPT !.op = NoOp, !.list = <<>>, !.rsp = <<>>, !.dirty = FALSE,
            !.done = [op |-> w.op, err |-> err, list |-> list, dirty |-> w.dirty]]

\* The next request of a procedure, from the handle after those that have been found.
Continue(w, start, pdu) ==
  [w EXCEPT !.req = pdu, !.rsp = <<>>, !.fault = @ \/ start <= w.op.from, !.op.from = start]

encode_discover_primary(start, uuid, len) ==
  IF uuid = <<>> THEN enc_read_by_grp_req(start, Last16, Prim, len)
  ELSE enc_find_by_type_req(start, Last16, Prim, uuid, len)

gatt_discover_primary(uuid) ==
  Start([NoOp EXCEPT !.kind = IF uuid = <<>> THEN "primaries" ELSE "primary", !.from = 1, !.uuid = uuid],
        encode_discover_primary(1, uuid, s.buf))
gatt_discover_char(start, end, uuid) ==
  Start([NoOp EXCEPT !.kind = "chars", !.from = start, !.end = end, !.uuid = uuid, !.h = start],
        enc_read_by_type_req(start, end, Char, s.buf))
gatt_read_char_by_uuid(start, uuid) ==
  Start([NoOp EXCEPT !.kind = "type", !.from = start, !.uuid = uuid],
        enc_read_by_type_req(start, Last16, uuid, s.buf))
gatt_find_info(start) ==
  Start([NoOp EXCEPT !.kind = "info", !.from = start], enc_find_info_req(start, Last16, s.buf))
gatt_read_char(h, offset) ==
  IF offset = 0 THEN Start([NoOp EXCEPT !.kind = "read", !.h = h], enc_read_req(h, s.buf))
  ELSE Start([NoOp EXCEPT !.kind = "blob", !.h = h, !.offset = offset], enc_read_blob_req(h, offset, s.buf))
gatt_write_char(h, value) ==
  Start([NoOp EXCEPT !.kind = "write", !.h = h, !.buffer = value], enc_write_req(h, value, s.buf))
gatt_write_cmd(h, value) ==
  Start([NoOp EXCEPT !.kind = "command", !.h = h, !.buffer = value], enc_write_cmd(h, value, s.buf))
gatt_exchange_mtu(mtu) ==
  Start([NoOp EXCEPT !.kind = "mtu", !.offset = mtu], enc_mtu_req(mtu, s.buf))

\* The callbacks of the procedures

Status(w) == IF w.rsp[1] = Op.error THEN w.rsp[5] ELSE 0
Err(w) == IF Status(w) = Ecode.notFound THEN 0 ELSE Status(w)
Crash(w) == [w EXCEPT !.crashed = TRUE, !.rsp = <<>>, !.op = NoOp]

primary_all_cb(w) ==
  LET list == dec_read_by_grp_resp(w.rsp)
      known == w.rsp[2] \in {6, 20}
      found == [i \in 1..Len(list) |-> [start |-> GetU16(list[i], 0), end |-> GetU16(list[i], 2),
                                        uuid |-> To128(From(list[i], 4))]]
      end == IF list = <<>> THEN 0 ELSE GetU16(Last(list), 2)
      v == [w EXCEPT !.list = IF known THEN @ \o found ELSE @]
  IN CASE Status(w) # 0 -> Finish(w, Err(w), w.list)
       [] w.rsp[2] = 0 -> Crash(w)
       [] end # Last16 -> Continue(v, end + 1, encode_discover_primary(end + 1, <<>>, w.buf))
       [] OTHER -> Finish(v, 0, v.list)

primary_by_uuid_cb(w) ==
  LET ranges == dec_find_by_type_resp(w.rsp)
      v == [w EXCEPT !.list = @ \o ranges]
      end == Last(ranges).end
  IN IF Status(w) # 0 THEN Finish(w, Err(w), w.list)
     ELSE IF ranges = <<>> THEN Finish(w, 0, w.list)
     ELSE IF end = Last16 THEN Finish(v, 0, v.list)
     ELSE Continue(v, end + 1, encode_discover_primary(end + 1, w.op.uuid, w.buf))

\* char_discovered_cb: with a UUID asked for, the first other characteristic ends the list, and
\* the search goes on behind it.
char_discovered_cb(w) ==
  LET list == dec_read_by_type_resp(w.rsp)
      uuid(e) == To128(From(e, 5))
      other == IF w.op.uuid = <<>> THEN {} ELSE {i \in 1..Len(list) : uuid(list[i]) # To128(w.op.uuid)}
      taken == Cut(list, IF other = {} THEN Len(list) ELSE Min(other) - 1)
      last == IF list = <<>> THEN 0 ELSE GetU16(IF other = {} THEN Last(list) ELSE list[Min(other)], 0)
      v == [w EXCEPT !.list = @ \o [i \in 1..Len(taken) |->
                [h |-> GetU16(taken[i], 0), props |-> taken[i][3], value |-> GetU16(taken[i], 3), uuid |-> uuid(taken[i])]]]
  IN CASE Status(w) # 0 -> Finish(w, Err(w), w.list)
       [] w.rsp[2] = 0 -> Crash(w)
       [] last # 0 -> Continue(v, last + 1, enc_read_by_type_req(last + 1, w.op.end, Char, w.buf))
       [] OTHER -> Finish(v, 0, v.list)

Blob(w, buffer) ==
  [w EXCEPT !.op.kind = "blob", !.op.buffer = buffer, !.rsp = <<>>,
            !.req = enc_read_blob_req(w.op.h, Len(buffer) - 1, w.buf)]
read_char_helper(w) ==
  IF Status(w) # 0 \/ Len(w.rsp) < w.buf THEN Finish(w, Status(w), w.rsp) ELSE Blob(w, w.rsp)
read_blob_helper(w) ==
  LET buffer == w.op.buffer \o From(w.rsp, 1)
  IN IF Status(w) # 0 \/ Len(w.rsp) = 1 THEN Finish(w, 0, w.op.buffer)
     ELSE IF Len(w.rsp) < w.buf THEN Finish(w, 0, buffer)
     ELSE Blob(w, buffer)

\* exchange_mtu_cb of the tool and g_attrib_set_mtu.
g_attrib_set_mtu(mtu) == Min({Max({mtu, 23}), 256})
exchange_mtu_cb(w) ==
  IF Status(w) # 0 THEN Finish(w, Status(w), <<>>)
  ELSE Finish([w EXCEPT !.buf = g_attrib_set_mtu(Min({dec_mtu_resp(w.rsp), w.op.offset}))], 0, <<>>)

Callback ==
  /\ s.rsp # <<>>
  /\ s' = CASE s.op.kind = "primaries" -> primary_all_cb(s)
            [] s.op.kind = "primary" -> primary_by_uuid_cb(s)
            [] s.op.kind = "chars" -> char_discovered_cb(s)
            [] s.op.kind = "read" -> read_char_helper(s)
            [] s.op.kind = "blob" -> read_blob_helper(s)
            [] s.op.kind = "mtu" -> exchange_mtu_cb(s)
            [] s.op.kind \in {"type", "info"} /\ Status(s) = 0 ->
                 Finish(s, 0, IF s.op.kind = "info" THEN dec_find_info_resp(s.rsp) ELSE dec_read_by_type_resp(s.rsp))
            [] OTHER -> Finish(s, Status(s), <<>>)

\* The server answers; another one may answer with a list of no elements or of elements without
\* length.
Places == IF "moved" \in Environment THEN {0, 1} ELSE {0}
Foreign(w, e) == [w EXCEPT !.req = <<>>, !.rsp = <<w.req[1] + 1, IF e = "zero" THEN 0 ELSE 6>>]
Served(w, place) ==
  LET v == ChannelHandler(w, w.req, place) IN IF w.op.kind = "command" THEN Finish(v, 0, <<>>) ELSE v
Serve ==
  /\ s.req # <<>>
  /\ s' \in {Served(s, place) : place \in Places} \cup
            {Foreign(s, e) : e \in IF s.op.kind \in {"primaries", "chars"} THEN {"empty", "zero"} \cap Environment ELSE {}}

\* Changes of the database; what is under way then may tell either state.
Changed(w) == [w EXCEPT !.n = @ + 1, !.dirty = w.op # NoOp, !.done = NotDone]
NotesHandle == LET l == SelectSeq(s.db, LAMBDA a : a.type = NotesValue) IN IF l = <<>> THEN 0 ELSE l[1].h

attrib_gap_set(len) ==
  /\ s.n < MaxChanges
  /\ s' = Changed(attrib_db_update(s, NameHandle, Text(len), 0))
PluginUpdates(len) ==
  /\ s.n < MaxChanges /\ NotesHandle # 0
  /\ (\E c \in 1..2 : s.chan[c].indicate # <<>> /\ len + 3 > (IF c = 1 THEN s.mtu ELSE s.chan[c].mtu))
       => "indicate" \in Environment
  /\ s' \in {Changed(attrib_db_update(s, NotesHandle, Text(len), place)) : place \in Places}

\* The other client configures its notifications.
PeerConfigures(v) ==
  /\ s.n < MaxChanges /\ NotesHandle # 0 /\ s.chan[2].cfg[0] # v /\ s.op = NoOp
  /\ LET a == Find(s.db, NotesHandle)[1]
     IN s' = [Changed(s) EXCEPT !.chan[2].notify = Listing(@, Bit(v, 1), a),
                                !.chan[2].indicate = Listing(@, Bit(v, 2), a), !.chan[2].cfg[0] = v,
                                !.changed = 0]

\* The database as the plugins and adapter_init have left it when the client connects.
Databases(name) ==
  LET core == [a \in DOMAIN register_core_services |->
                 IF register_core_services[a].h = NameHandle
                 THEN [register_core_services[a] EXCEPT !.data = Text(name)] ELSE register_core_services[a]]
      notes == Register(core, Notes)
  IN {notes, Register(gatt_example_init(core), Notes)} \cup
     (IF "secondary" \in Environment THEN {Register(notes, register_manuf1_service)} ELSE {})

Init ==
  \E m \in Mtus, level \in Levels : \E db \in UNION {Databases(n) : n \in Names} :
    s = [db |-> db, mtu |-> m[2], buf |-> m[1], le |-> m[2] = 23, level |-> level,
         chan |-> <<[mtu |-> m[2], notify |-> <<>>, indicate |-> <<>>, cfg |-> <<>>],
                    [mtu |-> 48, notify |-> <<>>, indicate |-> <<>>, cfg |-> (0 :> 0)]>>,
         req |-> <<>>, rsp |-> <<>>, op |-> NoOp, list |-> <<>>, done |-> NotDone, dirty |-> FALSE,
         told |-> <<>>, changed |-> 0, fault |-> FALSE, crashed |-> FALSE, n |-> 0]

\* Services as they are: every group starts with its declaration and ends before the next one.
Services(db) ==
  [i \in {j \in 1..Len(db) : IsService(db[j])} |->
     LET next == {j \in (i + 1)..Len(db) : IsService(db[j])}
     IN [start |-> db[i].h, end |-> db[IF next = {} THEN Len(db) ELSE Min(next) - 1].h]]

TypeReadable(start, uuid) ==
  LET l == SelectSeq(s.db, LAMBDA a : a.h >= start /\ Same(a.type, uuid))
  IN /\ Same(uuid, CliCfg) /\ Len(l) > 1 => "configs" \in Environment
     /\ ~Same(uuid, CliCfg) /\ l # <<>> /\ Len(l[1].data) + 4 > s.mtu => "longtype" \in Environment

Discover ==
  \/ \E u \in {<<>>, U16(6145), To128(Vendor(4)), Long(3)} : gatt_discover_primary(u)
  \/ LET r == Services(s.db) IN \E i \in DOMAIN r : \E u \in {<<>>, DeviceName, Vendor(9)} :
       r[i].end > r[i].start /\ gatt_discover_char(r[i].start, r[i].end, u)
  \/ \E start \in {1, 24} : gatt_find_info(start)

ReadValues ==
  \/ \E start \in {1, 19}, u \in {DeviceName, UserDesc, ServiceChanged, CliCfg} :
       TypeReadable(start, u) /\ gatt_read_char_by_uuid(start, u)
  \/ \E h \in {NameHandle, 18, 19, NotesHandle} \ {0},
        offset \in IF "offset" \in Environment THEN {0, 5} ELSE {0} : gatt_read_char(h, offset)

WriteValues ==
  /\ s.n < MaxChanges
  /\ \/ \E l \in Lengths : /\ NotesHandle # 0
                           /\ l + 3 > s.buf => "longwrite" \in Environment
                           /\ gatt_write_char(NotesHandle, Text(l)) \/ gatt_write_cmd(NotesHandle, Text(l))
     \/ \E h \in {NotesHandle + 1, 12, 19} \ {1}, v \in {0, 1, 2, 4} :
          /\ v = Cfg(s.chan[1], h) => "twice" \in Environment
          /\ gatt_write_char(h, U16(v))

Next ==
  \/ Discover \/ ReadValues \/ WriteValues \/ Serve \/ Callback
  \/ \E mtu \in {10, 40} : gatt_exchange_mtu(mtu)
  \/ \E len \in Lengths : attrib_gap_set(len) \/ PluginUpdates(len)
  \/ \E v \in 1..2 : PeerConfigures(v)

Spec == Init /\ [][Next]_s

-----------------------------------------------------------------------------

\* What is found is what there is.
Expected(op) ==
  LET r == Services(s.db)
      rows == SelectSeq([i \in 1..Len(s.db) |-> i], LAMBDA i : Same(s.db[i].type, Prim))
      chars == SelectSeq(s.db, LAMBDA a : /\ Same(a.type, Char) /\ a.h >= op.h /\ a.h <= op.end
                                          /\ op.uuid # <<>> => Same(From(a.data, 3), op.uuid))
      row(i) == [start |-> r[i].start, end |-> r[i].end, uuid |-> To128(s.db[i].data)]
      all == [j \in 1..Len(rows) |-> row(rows[j])]
      asked == SelectSeq(all, LAMBDA x : Same(x.uuid, op.uuid))
  IN CASE op.kind = "primaries" -> all
       [] op.kind = "primary" -> [j \in 1..Len(asked) |-> [start |-> asked[j].start, end |-> asked[j].end]]
       [] op.kind = "chars" -> [j \in 1..Len(chars) |->
            [h |-> chars[j].h, props |-> chars[j].data[1], value |-> GetU16(chars[j].data, 1),
             uuid |-> To128(From(chars[j].data, 3))]]

\* The result of the last procedure, if nothing changed while it was under way: services and
\* characteristics are found all, in order, with their ends; a value is read whole, whatever its
\* length and the MTU; a list of values or types starts with the first there is and leaves none
\* out; what is written is there.
Found ==
  LET d == s.done
      op == d.op
      a == client_cfg_attribute(s, Find(s.db, op.h)[1])
      typed == SelectSeq(s.db, LAMBDA b : b.h >= op.from /\ (op.kind = "info" \/ Same(b.type, op.uuid)))
      whole(b) == U16(b.h) \o (IF op.kind = "info" THEN b.type ELSE client_cfg_attribute(s, b).data)
  IN op.kind # "none" /\ ~d.dirty =>
       CASE op.kind \in {"primaries", "primary", "chars"} -> d.err = 0 /\ d.list = Expected(op)
         [] op.kind \in {"read", "blob"} ->
              d.err = (IF a.read = "no" THEN Ecode.read ELSE 0) /\ (d.err = 0 => From(d.list, 1) = From(a.data, op.offset))
         [] op.kind \in {"type", "info"} ->
              IF d.err # 0 THEN typed # <<>> => typed[1].read = "no"
              ELSE d.list # <<>> /\ d.list = [i \in 1..Len(d.list) |-> whole(typed[i])]
         [] op.kind \in {"write", "command"} ->
              d.err = 0 => a.data = op.buffer \/ (op.h = SvcChgHandle + 1 /\ a.data = U16(2))
         [] op.kind = "mtu" -> s.buf = s.mtu

\* A change of a value is told once to each client that has configured it, if it fits its MTU.
Told ==
  LET h == s.changed
      a == Find(s.db, h)[1]
      cfg(c) == IF h # NotesHandle THEN 0 ELSE IF c = 1 THEN Cfg(s.chan[1], h + 1) ELSE s.chan[2].cfg[0]
      mtu(c) == IF c = 1 THEN s.mtu ELSE s.chan[c].mtu
      told(c, opcode) == Cardinality({i \in 1..Len(s.told) : s.told[i].to = c /\ s.told[i].pdu[1] = opcode})
      due(c, b) == IF Bit(cfg(c), b) /\ Len(a.data) + 3 <= mtu(c) THEN 1 ELSE 0
  IN h # 0 => \A c \in 1..2 : told(c, Op.notify) = due(c, 1) /\ told(c, Op.indicate) = due(c, 2)

\* PDUs fit, a procedure makes progress, and no list holds an attribute that has moved.
Sound == ~s.fault /\ ~s.crashed /\ Len(s.req) <= s.buf /\ Len(s.rsp) <= s.mtu
=============================================================================
