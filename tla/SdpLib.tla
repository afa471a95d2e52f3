-------------------------------- MODULE SdpLib --------------------------------
(***************************************************************************)
(* The client side of SDP (lib/sdp.c): service records, and sessions with  *)
(* a server.                                                               *)
(*                                                                         *)
(* How a record is put together with the sdp_set_ functions, sized and     *)
(* generated as a PDU (sdp_gen_record_pdu), extracted from one             *)
(* (sdp_extract_pdu), copied (sdp_copy_record) and read with the sdp_get_  *)
(* functions.                                                              *)
(*                                                                         *)
(* A data element is [t, w, v, u]: its type, the width of its value (of    *)
(* its length field, for strings and sequences), its value, and unitSize.  *)
(* A PDU is a sequence of bytes; a byte has Byte values (256 in the code,  *)
(* fewer here, so that one-byte lengths are reached).                      *)
(***************************************************************************)
EXTENDS Integers, Sequences, FiniteSets, FiniteSetsExt, SequencesExt

CONSTANTS Byte,       \* values of a byte, more than the largest data type descriptor
          MaxAttrs,   \* attributes of a record, at most
          Strings,    \* lengths of strings
          Uuids,      \* UUIDs
          Environment \* what else callers and peers do: "flat", "long", "text", "again", "null",
                      \* "alternatives", "cut"

VARIABLE srec

Handle == 0          \* SDP_ATTR_RECORD_HANDLE
ClassList == 1       \* SDP_ATTR_SVCLASS_ID_LIST
ServiceId == 3       \* SDP_ATTR_SERVICE_ID
ProtoList == 4       \* SDP_ATTR_PROTO_DESC_LIST
LangList == 6        \* SDP_ATTR_LANG_BASE_ATTR_ID_LIST
ProfileList == 9     \* SDP_ATTR_PFILE_DESC_LIST
DocUrl == 10         \* SDP_ATTR_DOC_URL
AddProtoList == 13   \* SDP_ATTR_ADD_PROTO_DESC_LIST
Name == 256          \* SDP_ATTR_SVCNAME_PRIMARY
Features == 771      \* SDP_ATTR_SUPPORTED_FEATURES_LIST
Null == [t |-> "null", w |-> 0, v |-> 0, u |-> 0]

\* Data elements

Lengthed == {"text", "url", "seq", "alt"}
Nested == {"seq", "alt"}

\* sdp_data_alloc, sdp_data_alloc_with_length and sdp_seq_alloc: unitSize counts the descriptor
\* and the value, for a sequence its length field and its elements.
Alloc(t, w, v) ==
  [t |-> t, w |-> w, v |-> v,
   u |-> CASE t = "nil" -> 1
           [] t \in {"text", "url"} -> 1 + Len(v)
           [] t \in Nested -> 1 + w + FoldLeft(LAMBDA n, e : n + e.u, 0, v)
           [] OTHER -> 1 + w]

Seq8(s) == Alloc("seq", 1, s)
Text(n) == [i \in 1..n |-> 65]

\* The descriptor of a type: SDP_UINT8 and the others of bluetooth/sdp.h.
Class(t) ==
  CASE t = "nil" -> 0 [] t = "uint" -> 1 [] t = "int" -> 2 [] t = "uuid" -> 3
    [] t = "text" -> 4 [] t = "bool" -> 5 [] t = "seq" -> 6 [] t = "alt" -> 7 [] t = "url" -> 8
SizeIndex(t, w) ==
  IF t \in Lengthed THEN CASE w = 1 -> 5 [] w = 2 -> 6 [] w = 4 -> 7
  ELSE CASE w = 0 -> 0 [] w = 1 -> 0 [] w = 2 -> 1 [] w = 4 -> 2 [] w = 8 -> 3 [] w = 16 -> 4
Dtd(t, w) == 8 * Class(t) + SizeIndex(t, w)
Types ==
  {<<"nil", 0>>, <<"bool", 1>>} \cup ({"uint", "int"} \X {1, 2, 4, 8, 16}) \cup
  ({"uuid"} \X {2, 4, 16}) \cup (Lengthed \X {1, 2, 4})

\* UUIDs

BaseTail == [i \in 1..12 |-> i]       \* the Bluetooth base UUID after its first four bytes
Digits(v, w) == [i \in 1..w |-> IF w - i > 3 THEN 0 ELSE (v \div Byte ^ (w - i)) % Byte]
Number(b) == FoldLeft(LAMBDA n, x : n * Byte + x, 0, SubSeq(b, Len(b) - 3, Len(b)))
NumberOf(b) == IF Len(b) <= 4 THEN FoldLeft(LAMBDA n, x : n * Byte + x, 0, b) ELSE Number(b)

\* sdp_uuid_to_uuid128, sdp_uuid16_to_uuid128, sdp_uuid32_to_uuid128.
ToUuid128(u) == IF u.w = 16 THEN u.v ELSE Digits(u.v, 4) \o BaseTail

\* sdp_uuid128_to_uuid and sdp_uuid_to_proto: the short form, if the UUID has one.
ToUuid(u) ==
  IF u.w # 16 \/ SubSeq(u.v, 5, 16) # BaseTail THEN u
  ELSE LET n == NumberOf(SubSeq(u.v, 1, 4))
       IN [u EXCEPT !.w = IF n < Byte * Byte THEN 2 ELSE 4, !.v = n]
ToProto(u) == IF ToUuid(u).w = 16 THEN 0 ELSE ToUuid(u).v

Uuid(x) == Alloc("uuid", x.w, x.v)
Same(e) == [w |-> e.w, v |-> e.v]

\* Records

Blank == [attrs |-> <<>>, class |-> Null, pattern |-> {}, handle |-> 0, hang |-> FALSE]

\* sdp_data_get.
Get(rec, id) ==
  LET s == SelectSeq(rec.attrs, LAMBDA a : a.id = id) IN IF s = <<>> THEN Null ELSE s[1].e
Has(rec, id) == Get(rec, id) # Null

\* extract_svclass_uuid.
SvClass(e, class) ==
  IF e.t = "seq" /\ e.v # <<>> /\ Head(e.v).t = "uuid" THEN Same(Head(e.v)) ELSE class

\* sdp_list_insert_sorted with sdp_attrid_comp_func, and the service class that follows.
Insert(rec, id, e, more) ==
  LET before == SelectSeq(rec.attrs, LAMBDA a : a.id < id)
      after == SelectSeq(rec.attrs, LAMBDA a : a.id >= id)
  IN [rec EXCEPT !.attrs = before \o <<[id |-> id, e |-> e, more |-> more]>> \o after,
                 !.class = IF id = ClassList THEN SvClass(e, @) ELSE @]

\* sdp_attr_add: an attribute that is there stays.
Add(rec, id, e, more) == IF Has(rec, id) THEN rec ELSE Insert(rec, id, e, more)

\* sdp_attr_remove.
WithoutAttr(rec, id) ==
  [rec EXCEPT !.attrs = SelectSeq(@, LAMBDA a : a.id # id),
              !.class = IF id = ClassList THEN Null ELSE @]

\* sdp_attr_replace, for sdp_attr_add_new too: the one that is there is freed.
Replace(rec, id, e) ==
  Insert([rec EXCEPT !.attrs = SelectSeq(@, LAMBDA a : a.id # id)], id, e, <<>>)

\* sdp_pattern_add_uuid, sdp_pattern_add_uuidseq.
Pattern(rec, uuids) == [rec EXCEPT !.pattern = @ \cup {ToUuid128(u) : u \in uuids}]

\* Generating

\* sdp_get_data_type: the descriptor and the length field.
DataType(e) == 1 + IF e.t \in Lengthed THEN e.w ELSE 0

\* sdp_get_data_size and sdp_gen_buffer: what an element takes of the buffer, as the code counts
\* it: three bytes for an attribute identifier at every level, the elements of a sequence twice.
RECURSIVE GenBuffer(_, _)
GenBuffer(size, e) ==
  LET s1 == size + (IF size = 0 /\ e.t = "nil" THEN 2 ELSE 0) + 3 + DataType(e)
      nested == FoldLeft(GenBuffer, s1, e.v)
      s2 == CASE e.t \in Nested -> nested + (nested - s1)
              [] e.t \in {"text", "url"} -> s1 + e.u - 1
              [] OTHER -> s1 + e.w
  IN IF s2 > Byte - 1 /\ e.t = "seq" /\ e.w = 1 THEN s2 + 1 ELSE s2

\* sdp_set_seq_len, sdp_set_data_type and sdp_gen_pdu: the descriptor, the length cut to its
\* field, the value with its high byte first.
RECURSIVE GenPdu(_)
GenPdu(e) ==
  LET value == CASE e.t \in Nested -> FlattenSeq([i \in 1..Len(e.v) |-> GenPdu(e.v[i])])
                 [] e.t = "nil" -> <<>>
                 [] e.t = "uuid" /\ e.w = 16 -> e.v
                 [] e.t \in {"text", "url"} -> e.v
                 [] OTHER -> Digits(e.v, e.w)
  IN <<Dtd(e.t, e.w)>> \o (IF e.t \in Lengthed THEN Digits(Len(value), e.w) ELSE <<>>) \o value

\* sdp_set_attrid.
AttrId(id) == <<Dtd("uint", 2)>> \o Digits(id, 2)

\* sdp_append_to_pdu and sdp_append_to_buf: the first attribute opens a sequence with one byte of
\* length; when the PDU outgrows it the sequence gets two.
AppendToBuf(b, a) ==
  LET all == (IF b = <<>> THEN <<Dtd("seq", 1), 0>> ELSE b) \o
               AttrId(a.id) \o GenPdu(a.e)
      wide == all[1] # Dtd("seq", 1) \/ Len(all) > Byte - 1
      body == SubSeq(all, IF all[1] = Dtd("seq", 1) THEN 3 ELSE 4, Len(all))
  IN IF wide THEN <<Dtd("seq", 2)>> \o Digits(Len(body), 2) \o body
     ELSE <<Dtd("seq", 1), Len(body)>> \o body

\* sdp_gen_record_pdu: the buffer it allocates and what it writes.
BufSize(rec) == FoldLeft(LAMBDA n, a : GenBuffer(n, a.e), 0, rec.attrs)
GenRecord(rec) == FoldLeft(AppendToBuf, <<>>, rec.attrs)

\* Extracting

Failure == [e |-> Null, n |-> 0, uuids |-> {}, hang |-> FALSE]

\* sdp_extract_seqtype: the bytes of the header, 0 on failure, and the length it gives.
SeqType(b, p, w) ==
  IF Len(b) - p < w THEN [n |-> 0, size |-> 0]
  ELSE [n |-> 1 + w, size |-> NumberOf(SubSeq(b, p + 1, p + w))]

\* An element of n bytes; of the extracted ones only strings have a unitSize.
Extracted(t, w, v, n) ==
  [Failure EXCEPT !.n = n, !.e = [Alloc(t, w, v) EXCEPT
                             !.u = IF t \in {"text", "url"} THEN @ ELSE 0]]

\* extract_int.
ExtractInt(b, p, t, w) ==
  IF Len(b) - p < w THEN Failure
  ELSE Extracted(t, w, NumberOf(SubSeq(b, p + 1, p + w)), 1 + w)

\* sdp_uuid_extract and extract_uuid: the record gets the UUID to be searched by.
ExtractUuid(b, p, w) ==
  LET bytes == SubSeq(b, p + 1, p + w)
      v == IF w = 16 THEN bytes ELSE NumberOf(bytes)
  IN IF Len(b) - p < w THEN Failure
     ELSE [Extracted("uuid", w, v, 1 + w) EXCEPT !.uuids = {[w |-> w, v |-> v]}]

\* extract_str: a string with four bytes of length is not taken.
ExtractStr(b, p, t, w) ==
  LET head == SeqType(b, p, w)
      end == p + w + head.size
  IN IF w = 4 \/ head.n = 0 \/ end > Len(b) THEN Failure
     ELSE Extracted(t, w, SubSeq(b, p + 1 + w, end), head.n + head.size)

\* sdp_extract_attr at p, and the loop of extract_seq.  A sequence ends where its length says or
\* where an element cannot be read, and its elements may use the rest of the PDU; a sequence
\* without a whole header is an empty element of no bytes, on which the loop of the sequence
\* around it makes no progress.
RECURSIVE ExtractAttr(_, _), ExtractSeq(_, _, _)
ExtractAttr(b, p) ==
  LET known == {x \in Types : p <= Len(b) /\ Dtd(x[1], x[2]) = b[p]}
      t == (CHOOSE x \in known : TRUE)[1]
      w == (CHOOSE x \in known : TRUE)[2]
      head == SeqType(b, p, w)
      s == ExtractSeq(b, p + head.n, head.size)
  IN CASE known = {} -> Failure
       [] t \in {"text", "url"} -> ExtractStr(b, p, t, w)
       [] t = "uuid" -> ExtractUuid(b, p, w)
       [] t \in Nested ->
            IF head.n = 0 THEN Extracted(t, w, <<>>, 0)
            ELSE [Extracted(t, w, s.v, head.n + s.n) EXCEPT !.uuids = s.uuids, !.hang = s.hang]
       [] OTHER -> ExtractInt(b, p, t, w)
ExtractSeq(b, p, size) ==
  LET x == ExtractAttr(b, p)
      rest == ExtractSeq(b, p + x.n, size - x.n)
      none == [v |-> <<>>, n |-> 0, uuids |-> {}, hang |-> FALSE]
  IN IF size <= 0 \/ x.e = Null THEN none
     ELSE IF x.n = 0 THEN [none EXCEPT !.hang = TRUE]
     ELSE [v |-> <<x.e>> \o rest.v, n |-> x.n + rest.n, uuids |-> x.uuids \cup rest.uuids,
           hang |-> x.hang \/ rest.hang]

\* sdp_extract_pdu: attribute after attribute until the length is used up or one cannot be read.
RECURSIVE ExtractAttrs(_, _, _, _)
ExtractAttrs(b, p, size, rec) ==
  LET id == NumberOf(SubSeq(b, p + 1, p + 2))
      x == ExtractAttr(b, p + 3)
      added == Pattern(Replace([rec EXCEPT !.hang = @ \/ x.hang,
                                  !.handle = IF id = Handle THEN x.e.v ELSE @], id, x.e), x.uuids)
  IN IF size <= 0 \/ Len(b) - p < 2 \/ x.e = Null THEN rec
     ELSE ExtractAttrs(b, p + 3 + x.n, size - 3 - x.n, added)

ExtractPdu(b) ==
  LET w == IF b = <<>> THEN 0 ELSE CASE b[1] = Dtd("seq", 1) -> 1 [] b[1] = Dtd("seq", 2) -> 2
      head == SeqType(b, 1, w)
  IN IF b = <<>> \/ head.n = 0 THEN Blank ELSE ExtractAttrs(b, 1 + head.n, head.size, Blank)

\* Copying

\* sdp_data_value and sdp_copy_seq: inside a sequence a string is copied with unitSize as its
\* length, one byte more than it has.
RECURSIVE CopySeq(_)
CopySeq(s) ==
  [i \in 1..Len(s) |->
     Alloc(s[i].t, s[i].w,
           CASE s[i].t \in Nested -> CopySeq(s[i].v)
             [] s[i].t \in {"text", "url"} -> Append(s[i].v, 0)
             [] OTHER -> s[i].v)]

\* sdp_copy_attrlist, sdp_copy_pattern and sdp_copy_record.
Copy(rec) ==
  LET copied(a) == [id |-> a.id, more |-> <<>>,
                    e |-> Alloc(a.e.t, a.e.w, IF a.e.t \in Nested THEN CopySeq(a.e.v) ELSE a.e.v)]
  IN [rec EXCEPT !.attrs = [i \in 1..Len(@) |-> copied(@[i])]]
-----------------------------------------------------------------------------
\* Setting and reading attributes

L2cap == [w |-> 2, v |-> 256]
Rfcomm == [w |-> 2, v |-> 3]
Uint8(n) == Alloc("uint", 1, n)
Uint16(n) == Alloc("uint", 2, n)

\* access_proto_to_dataseq: a protocol is a UUID and its parameters; its UUID is for searching.
ProtoSeq(protos) == Seq8([i \in 1..Len(protos) |-> Seq8(protos[i])])
ProtoUuids(protos) == {Same(protos[i][1]) : i \in 1..Len(protos)}

\* What a caller passes is kept in want, to compare with what can be read.
Set(rec, id, value) ==
  srec' = [rec |-> rec, want |-> [i \in DOMAIN srec.want \cup {id} |-> IF i = id THEN value ELSE srec.want[i]]]

\* Callers give a record its service class first, keep it, and do not set an attribute that only
\* sdp_attr_add sets twice.
MaySet(id, once) ==
  /\ id \in DOMAIN srec.want \/ Cardinality(DOMAIN srec.want) < MaxAttrs
  /\ ClassList \in DOMAIN srec.want \cup {id} \/ "flat" \in Environment
  /\ once => (id \notin DOMAIN srec.want \/ "again" \in Environment)

\* sdp_set_uuidseq_attr, for sdp_set_service_classes.
SetUuids(id, uuids) ==
  /\ MaySet(id, FALSE)
  /\ uuids # <<>>
  /\ Set(Pattern(Replace(srec.rec, id, Seq8([i \in 1..Len(uuids) |-> Uuid(uuids[i])])), Range(uuids)),
         id, uuids)

\* sdp_set_access_protos: the alternatives hang on the first one.
SetAccessProtos(lists) ==
  /\ MaySet(ProtoList, TRUE)
  /\ LET rec == Pattern(srec.rec, UNION {ProtoUuids(lists[i]) : i \in 1..Len(lists)})
         seqs == [i \in 1..Len(lists) |-> ProtoSeq(lists[i])]
     IN Set(Add(rec, ProtoList, Head(seqs), Tail(seqs)), ProtoList, lists)

\* sdp_set_add_access_protos.
SetAddAccessProtos(lists) ==
  /\ MaySet(AddProtoList, TRUE)
  /\ LET rec == Pattern(srec.rec, UNION {ProtoUuids(lists[i]) : i \in 1..Len(lists)})
     IN Set(Add(rec, AddProtoList, Seq8([i \in 1..Len(lists) |-> ProtoSeq(lists[i])]), <<>>),
            AddProtoList, lists)

\* sdp_set_lang_attr: a code, an encoding and a base for each language.
SetLang(langs) ==
  /\ MaySet(LangList, TRUE)
  /\ Set(Add(srec.rec, LangList, Seq8(FlattenSeq([i \in 1..Len(langs) |->
            [j \in 1..3 |-> Uint16(langs[i][j])]])), <<>>), LangList, langs)

\* sdp_set_profile_descs: a UUID and a version for each profile.
SetProfileDescs(profiles) ==
  /\ MaySet(ProfileList, TRUE)
  /\ LET desc(p) == Seq8(<<Uuid(p[1]), Uint16(p[2])>>)
     IN Set(Add(Pattern(srec.rec, {profiles[i][1] : i \in 1..Len(profiles)}), ProfileList,
                Seq8([i \in 1..Len(profiles) |-> desc(profiles[i])]), <<>>), ProfileList, profiles)

\* sdp_set_service_id and, for another attribute, sdp_set_group_id.
SetServiceId(u) ==
  /\ MaySet(ServiceId, FALSE)
  /\ Set(Pattern(Replace(srec.rec, ServiceId, Uuid(u)), {u}), ServiceId, u)

\* sdp_set_info_attr: the name, as the description and the provider; one not given is left as it
\* was.
SetInfo(n) ==
  /\ MaySet(Name, FALSE)
  /\ Set(Replace(srec.rec, Name, Alloc("text", 1, Text(n))), Name, Text(n))

\* sdp_set_url_attr: the document, as the executable and the icon; one not given cannot be
\* allocated, and is left as it was.
SetUrl(n) ==
  /\ MaySet(DocUrl, FALSE)
  /\ Set(Replace(srec.rec, DocUrl, Alloc("url", 1, Text(n))), DocUrl, Text(n))

\* sdp_attr_add_new with an integer, as for the record's handle.
SetInt(id, e) == MaySet(id, FALSE) /\ Set(Replace(srec.rec, id, e), id, e.v)

\* sdp_set_supp_feat (sdp_seq_alloc_with_length): lists of numbers and strings.
SetSuppFeat(lists) ==
  /\ MaySet(Features, FALSE)
  /\ Set(Replace(srec.rec, Features, Seq8([i \in 1..Len(lists) |-> Seq8(lists[i])])), Features, lists)

\* sdp_attr_remove; and a caller that passes sdp_set_access_protos no list, to have the attribute
\* removed: it stays.
RemoveAttr(id) ==
  /\ id \in DOMAIN srec.want
  /\ id = ClassList => "flat" \in Environment
  /\ srec' \in {[rec |-> rec, want |-> [i \in DOMAIN srec.want \ {id} |-> srec.want[i]]] :
                  rec \in {WithoutAttr(srec.rec, id)} \cup
                    IF id = ProtoList /\ "null" \in Environment THEN {srec.rec} ELSE {}}

\* sdp_copy_record; and a record generated by one side and extracted by the other, whole or,
\* when the PDU is cut, as far as its attributes are complete.
Copied == srec' = [srec EXCEPT !.rec = Copy(@)]
Sent ==
  LET pdu == GenRecord(srec.rec)
      all == srec.rec.attrs
      end(i) == (IF pdu[1] = Dtd("seq", 1) THEN 2 ELSE 3) +
                  FoldLeft(LAMBDA x, a : x + 3 + Len(GenPdu(a.e)), 0, SubSeq(all, 1, i))
  IN /\ all # <<>>
     /\ \E n \in {Len(pdu)} \cup IF "cut" \in Environment THEN 1..Len(pdu) ELSE {} :
          srec' = [rec |-> ExtractPdu(SubSeq(pdu, 1, n)),
                   want |-> [i \in {all[j].id : j \in {k \in 1..Len(all) : n = Len(pdu) \/ end(k) <= n}}
                               |-> srec.want[i]]]

\* The sdp_get_ functions

\* sdp_get_uuidseq_attr.
GetUuidSeq(e) == [i \in 1..Len(e.v) |-> Same(e.v[i])]

\* sdp_get_access_protos and sdp_get_add_access_protos; a parameter is compared by type and value.
Leaf(e) == <<e.t, e.w, e.v>>
ProtoLists(seqs) ==
  [i \in 1..Len(seqs) |-> [j \in 1..Len(seqs[i].v) |->
     [k \in 1..Len(seqs[i].v[j].v) |-> Leaf(seqs[i].v[j].v[k])]]]
GetAccessProtos(rec) ==
  LET a == SelectSeq(rec.attrs, LAMBDA x : x.id = ProtoList)[1] IN ProtoLists(<<a.e>> \o a.more)
GetAddAccessProtos(rec) == ProtoLists(Get(rec, AddProtoList).v)
Leaves(lists) ==
  [i \in 1..Len(lists) |-> [j \in 1..Len(lists[i]) |->
     [k \in 1..Len(lists[i][j]) |-> Leaf(lists[i][j][k])]]]

\* sdp_get_proto_port (__find_port), sdp_get_proto_desc: the parameter after the protocol's UUID.
GetProtoPort(lists, proto) ==
  LET ports == {lists[i][j][2][3] : <<i, j>> \in
                  {x \in (1..Len(lists)) \X (1..9) :
                     /\ x[2] \in DOMAIN lists[x[1]] /\ Len(lists[x[1]][x[2]]) > 1
                     /\ LET p == lists[x[1]][x[2]]
                        IN /\ p[1][1] = "uuid" /\ ToProto([w |-> p[1][2], v |-> p[1][3]]) = proto
                           /\ p[2][1] = "uint" /\ p[2][2] \in {1, 2}}}
  IN IF ports = {} THEN 0 ELSE CHOOSE p \in ports : TRUE

\* sdp_get_int_attr, sdp_get_string_attr and sdp_get_service_id.
GetInt(e) == IF e.t \in {"uint", "int", "bool"} /\ e.w <= 4 THEN e.v ELSE -1
GetString(e) == IF e.t = "text" THEN e.v ELSE <<>>
GetServiceId(e) == Same(e)

\* sdp_get_lang_attr, sdp_get_profile_descs, sdp_get_supp_feat.
GetLang(e) == [i \in 1..(Len(e.v) \div 3) |-> <<e.v[3*i - 2].v, e.v[3*i - 1].v, e.v[3*i].v>>]
GetProfileDescs(e) == [i \in 1..Len(e.v) |-> <<Same(e.v[i].v[1]), e.v[i].v[2].v>>]
GetSuppFeat(e) == [i \in 1..Len(e.v) |-> [j \in 1..Len(e.v[i].v) |-> Leaf(e.v[i].v[j])]]

DataInit == srec = [rec |-> Blank, want |-> [i \in {} |-> 0]]

Protos ==
  {<< <<Uuid(L2cap)>>, <<Uuid(Rfcomm), Uint8(3)>> >>, << <<Uuid(L2cap), Uint16(25)>> >>}
ProtoChoices ==
  {<<p>> : p \in Protos} \cup
    IF "alternatives" \in Environment THEN {<<p, q>> : p, q \in Protos} ELSE {}
FeatureChoices ==
  {<< <<Uint8(1), Uint16(2)>>, <<Uint8(3)>> >>} \cup
    IF "text" \in Environment THEN {<< <<Uint8(1), Alloc("text", 1, Text(2))>> >>} ELSE {}
Lengths == {n \in Strings : n < Byte \/ "long" \in Environment}

DataNext ==
      \/ \E u \in Uuids : SetUuids(ClassList, <<u>>) \/ SetServiceId(u)
      \/ \E u, v \in Uuids : u # v /\ SetUuids(ClassList, <<u, v>>)
      \/ \E lists \in ProtoChoices : SetAccessProtos(lists)
      \/ SetAddAccessProtos(SetToSeq(Protos))
      \/ SetLang(<< <<100, 106, 256>> >>)
      \/ \E u \in Uuids : SetProfileDescs(<< <<u, 256>> >>)
      \/ \E n \in Lengths : SetInfo(n) \/ SetUrl(n)
      \/ SetInt(Handle, Alloc("uint", 4, Byte ^ 3 + 7))
      \/ \E lists \in FeatureChoices : SetSuppFeat(lists)
      \/ \E id \in DOMAIN srec.want : RemoveAttr(id)
      \/ Copied
      \/ Sent

DataSpec == DataInit /\ [][DataNext]_srec
-----------------------------------------------------------------------------
\* However often it is changed, copied, sent and read, a record has exactly the attributes that
\* were set, in the order of their identifiers, and the sdp_get_ functions give what the sdp_set_
\* functions were given.
Content ==
  /\ DOMAIN srec.want = {srec.rec.attrs[i].id : i \in 1..Len(srec.rec.attrs)}
  /\ \A i, j \in 1..Len(srec.rec.attrs) : i < j => srec.rec.attrs[i].id < srec.rec.attrs[j].id
  /\ \A id \in DOMAIN srec.want :
       LET e == Get(srec.rec, id)
           got == CASE id = ClassList -> GetUuidSeq(e)
                    [] id = ProtoList -> GetAccessProtos(srec.rec)
                    [] id = AddProtoList -> GetAddAccessProtos(srec.rec)
                    [] id = LangList -> GetLang(e)
                    [] id = ProfileList -> GetProfileDescs(e)
                    [] id = Features -> GetSuppFeat(e)
                    [] id = ServiceId -> GetServiceId(e)
                    [] id = Handle -> GetInt(e)
                    [] id = Name -> GetString(e)
                    [] OTHER -> e.v
           set == CASE id \in {ProtoList, AddProtoList} -> Leaves(srec.want[id])
                    [] id = Features -> [i \in 1..Len(srec.want[id]) |->
                         [j \in 1..Len(srec.want[id][i]) |-> Leaf(srec.want[id][i][j])]]
                    [] OTHER -> srec.want[id]
       IN e # Null /\ got = set

\* What a record is found by follows its attributes: its class is the first of its class list,
\* its pattern has every UUID of its classes, profiles and protocols, the port of a protocol is
\* the one it was given, and a record that was sent has its handle.
Found ==
  LET has(id) == id \in DOMAIN srec.want
  IN /\ srec.rec.class = IF has(ClassList) THEN Head(srec.want[ClassList]) ELSE Null
     /\ has(ClassList) =>
          \A u \in Range(srec.want[ClassList]) : ToUuid128(u) \in srec.rec.pattern
     /\ has(ServiceId) => ToUuid128(srec.want[ServiceId]) \in srec.rec.pattern
     /\ has(ProfileList) => ToUuid128(srec.want[ProfileList][1][1]) \in srec.rec.pattern
     /\ has(ProtoList) =>
          LET given == Leaves(srec.want[ProtoList])
              got == GetAccessProtos(srec.rec)
          IN \A p \in {L2cap.v, Rfcomm.v} : GetProtoPort(got, p) = GetProtoPort(given, p)
     /\ \A u \in Uuids : ToUuid([w |-> 16, v |-> ToUuid128(u)]) = ToUuid(u)

\* The buffer that sdp_gen_record_pdu allocates holds what it writes, and reading a record ends.
Fits == Len(GenRecord(srec.rec)) <= BufSize(srec.rec) /\ ~srec.rec.hang

DataSafe == Content /\ Found /\ Fits

-----------------------------------------------------------------------------
(***************************************************************************)
(* A client's session with an SDP server (lib/sdp.c).  A search or an       *)
(* attribute request is made either synchronously (sdp_service_search_req,   *)
(* sdp_service_attr_req, sdp_service_search_attr_req: a loop that sends the  *)
(* request, waits for the response and repeats the request with the          *)
(* continuation state of the response) or asynchronously                     *)
(* (sdp_service_*_async, then sdp_process for every response, until the      *)
(* callback is called).  A session with the local server also registers,     *)
(* updates and unregisters a record.                                         *)
(*                                                                         *)
(* The answer to a call is a sequence of units (record handles, or bytes of  *)
(* attribute lists); the server, outside this code, sends it in fragments of *)
(* at most Room units.  A transaction identifier has 16 bits: TidMod values; *)
(* a byte of a count has Base values.                                        *)
(***************************************************************************)

CONSTANTS TidMod,     \* values of a transaction identifier
          Base,       \* values of a byte of CurrentServiceRecordCount
          MaxSize,    \* units of an answer, at most
          Room,       \* units of a fragment, at most
          Handles     \* record handles of the local server

\* Environment, in this part: what else the server and the callers do: "none", "empty",
\* "uncontinued", "many", "late", "duplicate", "overlap", "unasked",
\* "otherpdu"

VARIABLE q

Searches == {"search", "attr", "searchattr"}
Records == {"register", "update", "unregister"}
Unset == 0          \* a record's handle 0xffffffff
Idle == [kind |-> "none", sync |-> FALSE, id |-> 0, size |-> 0]
NoRequest == [kind |-> "none", tid |-> 0, id |-> 0]

NotDone ==
  [call |-> Idle, ok |-> FALSE, pdu |-> "none", data |-> <<>>, count |-> 0, fault |-> FALSE]

\* What the server holds in answer to a call.
Answer(call) == [i \in 1..call.size |-> <<call.id, i>>]

Closed ==
  [open |-> FALSE, local |-> FALSE, tid |-> 0, call |-> Idle, reqbuf |-> NoRequest, reqhdr |-> NoRequest,
   cstate |-> 0, buf |-> <<>>, count |-> 0, got |-> 0, out |-> <<>>, in |-> <<>>,
   hup |-> FALSE, sends |-> 0, fault |-> FALSE, db |-> {}, rec |-> Unset,
   id |-> 1, done |-> NotDone,
   owed |-> 0, null |-> FALSE]

SessionInit == q = Closed

\* Connecting

\* sdp_connect: a session that retries while busy cannot be non-blocking; a failed connect
\* frees the session.
Connect(local, retry, nonblocking) ==
  /\ ~q.open
  /\ ~(retry /\ nonblocking)
  /\ q' = [Closed EXCEPT !.open = TRUE, !.local = local, !.id = q.id]

\* sdp_close frees the transaction; the local server drops what the session registered.
Close ==
  /\ q.open /\ q.call.sync = FALSE
  /\ q' = [Closed EXCEPT !.id = q.id]

\* Requests

\* copy_cstate, sdp_gen_tid and sdp_send_req: the request with a new transaction identifier and
\* the continuation state at.
SendReq(w, kind, id, at) ==
  [w EXCEPT !.tid = (@ + 1) % TidMod, !.sends = @ + 1,
     !.out = IF w.hup THEN @ ELSE Append(@, [kind |-> kind, tid |-> w.tid, id |-> id, at |-> at, size |-> w.call.size,
                                             handle |-> w.rec]),
     !.reqbuf = IF w.call.sync THEN @ ELSE [kind |-> kind, tid |-> w.tid, id |-> id],
     !.reqhdr = IF w.call.sync THEN [kind |-> kind, tid |-> w.tid, id |-> id] ELSE @]

\* The request cannot be sent: send() fails.
SendFails(w) == [w EXCEPT !.tid = (@ + 1) % TidMod, !.fault = TRUE]

Begin(w, kind, sync, size) ==
  [w EXCEPT !.call = [kind |-> kind, sync |-> sync, id |-> w.id, size |-> size],
     !.id = 3 - w.id, !.cstate = 0, !.buf = <<>>, !.count = 0, !.got = 0, !.sends = 0,
     !.fault = FALSE, !.done = NotDone]

\* A synchronous call returns; the record's handle follows from what it did.
Return(w, ok, data, count) ==
  [w EXCEPT !.call = Idle, !.cstate = 0, !.buf = <<>>, !.got = 0, !.sends = 0, !.reqhdr = NoRequest,
     !.done = [call |-> w.call, ok |-> ok, pdu |-> w.call.kind, data |-> data, count |-> count,
               fault |-> w.fault]]

Failed(w) == Return(w, FALSE, <<>>, 0)

\* A synchronous search up to its first response.
Call(kind, size) ==
  /\ q.open /\ q.call = Idle
  /\ LET w == Begin(q, kind, TRUE, size)
     IN q' \in {SendReq(w, kind, w.call.id, 0), Failed(SendFails(w))}

sdp_service_search_req(size) == Call("search", size)
sdp_service_attr_req(size) == Call("attr", size)
sdp_service_search_attr_req(size) == Call("searchattr", size)

\* Only a local session has a server that takes records; a remote one is refused before anything
\* is sent.
Record(kind) ==
  /\ q.open /\ q.call = Idle
  /\ LET w == Begin(q, kind, TRUE, 0)
     IN q' \in IF ~q.local THEN {Failed([w EXCEPT !.fault = TRUE])}
               ELSE {SendReq(w, kind, w.call.id, 0), Failed(SendFails(w))}

\* A record that has a handle is not registered again.
sdp_device_record_register == q.rec = Unset /\ Record("register")
sdp_device_record_update == Record("update")
sdp_device_record_unregister == Record("unregister")

\* An asynchronous search: the buffer of an earlier answer is freed; when the request cannot be
\* sent its own buffer is too.
Async(kind, size) ==
  /\ q.open /\ ~q.call.sync
  /\ q.call # Idle => "overlap" \in Environment
  /\ LET w == Begin(q, kind, FALSE, size)
     IN q' \in {[SendReq(w, kind, w.call.id, 0) EXCEPT !.owed = @ + 1],
                [SendFails(w) EXCEPT !.reqbuf = NoRequest, !.call = Idle]}

sdp_service_search_async(size) == Async("search", size)
sdp_service_attr_async(size) == Async("attr", size)
sdp_service_search_attr_async(size) == Async("searchattr", size)

\* Responses

\* The raw count of the first fragment and the raw count of the next one are added as they are
\* on the wire, the high byte first, by a machine that takes the low byte first: a carry out of
\* the low byte of the sum is lost (sdp_process).
Swapped(v) == (v % Base) * Base + v \div Base
AddRaw(a, b) == Swapped((Swapped(a) + Swapped(b)) % (Base * Base))

\* The callback of the transaction: with what has been collected, or the response itself.
Callback(w, pdu, ok, data) ==
  [w EXCEPT !.call = Idle, !.sends = 0, !.owed = @ - 1,
     !.done = [call |-> w.call, ok |-> ok, pdu |-> pdu, data |-> data, count |-> w.count,
               fault |-> w.fault]]

\* sdp_process: the response is read, checked against the request and added to what has been
\* collected; a continuation is requested, otherwise the transaction is over.
Collect(w, r) ==
  LET first == w.buf = <<>>
      collected == [w EXCEPT !.buf = @ \o r.data,
                      !.count = IF r.pdu # "search" THEN 0
                                ELSE IF first THEN Len(r.data) ELSE AddRaw(@, Len(r.data))]
      error == [w EXCEPT !.fault = TRUE]
  IN IF \/ r.tid # w.reqbuf.tid
        \/ r.pdu = "bad"
        \/ r.cont = -1
        \/ r.pdu = "search" /\ Len(r.data) > r.total
     THEN {Callback(error, "none", FALSE, w.buf)}
     ELSE IF r.pdu = "error" THEN {Callback(error, "error", FALSE, w.buf)}
     ELSE IF r.cont = 0 THEN {Callback(collected, r.pdu, TRUE, collected.buf)}
     ELSE {SendReq(collected, w.reqbuf.kind, w.reqbuf.id, r.cont),
           Callback(SendFails(collected), r.pdu, FALSE, collected.buf)}

Process ==
  /\ q.open /\ ~q.call.sync
  /\ q.call = Idle => Environment \cap {"duplicate", "unasked"} # {}
  /\ \/ /\ q.in # <<>>
        /\ q' \in IF q.reqbuf = NoRequest THEN {[q EXCEPT !.null = TRUE, !.in = Tail(@)]}
                  ELSE Collect([q EXCEPT !.in = Tail(@)], Head(q.in))
     \/ /\ q.in = <<>> /\ q.hup
        /\ q' = Callback([q EXCEPT !.fault = TRUE], "none", FALSE, q.buf)

\* The end of the loop of a synchronous request: the next request, or the result.
Next_request(w, data) ==
  IF w.cstate # 0 THEN {SendReq(w, w.call.kind, w.call.id, w.cstate), Failed(SendFails(w))}
  ELSE {Return(w, TRUE, data, Len(data))}

\* sdp_service_search_req: no record is an error; a response without continuation state leaves
\* the one before as it was.
SearchRsp(w, r) ==
  IF r.data = <<>> THEN {Failed(w)}
  ELSE LET v == [w EXCEPT !.buf = @ \o r.data, !.cstate = IF r.cont = -1 THEN @ ELSE r.cont]
       IN Next_request(v, v.buf)

\* What the two attribute requests do with a response: its continuation state is looked at when
\* it has one or something has been collected.
Concat(w, r) ==
  LET split == r.cont # 0 \/ w.buf # <<>>
  IN [w EXCEPT !.got = @ + Len(r.data),
               !.cstate = IF split THEN r.cont ELSE @,
               !.buf = IF split THEN @ \o r.data ELSE @]

Attributes(v, r) == IF v.got = 0 THEN <<>> ELSE IF v.buf # <<>> THEN v.buf ELSE r.data

\* sdp_service_attr_req: no attribute is no record.
AttrRsp(w, r) ==
  LET v == Concat(w, r)
  IN IF r.cont = -1 THEN {Failed([w EXCEPT !.fault = TRUE])}
     ELSE IF v.cstate = 0 /\ v.got = 0 THEN {Failed(v)}
     ELSE Next_request(v, Attributes(v, r))

\* sdp_service_search_attr_req: no attribute is an empty list of records.
SearchAttrRsp(w, r) ==
  IF r.cont = -1 THEN {Failed([w EXCEPT !.fault = TRUE])}
  ELSE Next_request(Concat(w, r), Attributes(Concat(w, r), r))

\* The rest of sdp_device_record_register, _update and _unregister: a registered record takes
\* the handle of the response, an unregistered one is freed.
RecordRsp(w, r) ==
  {Return([w EXCEPT !.rec = CASE w.call.kind = "register" -> r.handle
                              [] w.call.kind = "unregister" -> Unset
                              [] OTHER -> @], TRUE, <<>>, 0)}

\* sdp_send_req_w4_rsp: the response has the transaction identifier of the request; then what
\* the call does with it.
Receive ==
  /\ q.open /\ q.call.sync
  /\ \/ /\ q.in # <<>>
        /\ LET r == Head(q.in)
               w == [q EXCEPT !.in = Tail(@)]
           IN q' \in
                IF r.tid # q.reqhdr.tid \/ r.pdu \in {"bad", "error"}
                THEN {Failed([w EXCEPT !.fault = @ \/ r.tid = q.reqhdr.tid])}
                ELSE CASE q.call.kind = "search" -> SearchRsp(w, r)
                       [] q.call.kind \in Records ->
                            IF r.pdu # q.call.kind THEN {Failed([w EXCEPT !.fault = TRUE])}
                            ELSE RecordRsp(w, r)
                       [] q.call.kind = "attr" -> AttrRsp(w, r)
                       [] OTHER -> SearchAttrRsp(w, r)
     \/ /\ q.in = <<>> /\ q.hup
        /\ q' = Failed([q EXCEPT !.fault = TRUE])

\* sdp_read_rsp: SDP_RESPONSE_TIMEOUT passes with nothing to read.
Timeout ==
  /\ q.open /\ q.call.sync /\ q.in = <<>> /\ ~q.hup
  /\ q' = Failed([q EXCEPT !.fault = TRUE, !.out = IF "late" \in Environment THEN @ ELSE <<>>])

\* The server and the connection (external)

Reply(r, pdu, data, cont, handle) ==
  [tid |-> r.tid, pdu |-> pdu, total |-> r.size, data |-> data, cont |-> cont, handle |-> handle]

\* A fragment of the answer from where the continuation state of the request points.
Fragments(r) ==
  LET at == IF r.at = 0 THEN 0 ELSE r.at - 1
      left == r.size - at
      least == IF left = 0 \/ "empty" \in Environment THEN 0 ELSE 1
      all == Answer([id |-> r.id, size |-> r.size])
      end(n) == IF at + n < r.size THEN at + n + 1
                ELSE IF "uncontinued" \in Environment /\ r.at # 0 THEN -1 ELSE 0
      pdus == IF "otherpdu" \in Environment THEN Searches ELSE {r.kind}
  IN {Reply(r, pdu, SubSeq(all, at + 1, at + n), end(n), Unset) :
        pdu \in pdus, n \in least..(IF left < Room THEN left ELSE Room)}

ServerAnswers ==
  /\ q.out # <<>> /\ ~q.hup
  /\ LET r == Head(q.out)
         w == [q EXCEPT !.out = Tail(@)]
         give(v, a) == {[v EXCEPT !.in = @ \o s] :
                          s \in {<<a>>} \cup IF "duplicate" \in Environment THEN {<<a, a>>} ELSE {}}
         refused == give(w, Reply(r, "error", <<>>, 0, Unset))
     IN q' \in refused \cup give(w, Reply(r, "bad", <<>>, 0, Unset)) \cup
          (CASE r.kind \in Searches -> UNION {give(w, a) : a \in Fragments(r)}
             [] r.kind = "register" ->
                  UNION {give([w EXCEPT !.db = @ \cup {h}], Reply(r, "register", <<>>, 0, h)) :
                           h \in Handles \ q.db}
             [] r.kind = "update" ->
                  IF r.handle \in q.db THEN give(w, Reply(r, "update", <<>>, 0, Unset)) ELSE {}
             [] r.kind = "unregister" ->
                  IF r.handle \in q.db
                  THEN give([w EXCEPT !.db = @ \ {r.handle}], Reply(r, "unregister", <<>>, 0, Unset))
                  ELSE {})

\* The server goes, and drops what the session registered; or it sends what nobody asked for.
PeerActs ==
  /\ q.open /\ ~q.hup
  /\ q' \in {[q EXCEPT !.hup = TRUE, !.db = {}]} \cup
       IF "unasked" \in Environment /\ q.call = Idle /\ q.in = <<>>
       THEN {[q EXCEPT !.in = <<Reply([tid |-> 0, size |-> 0], "bad", <<>>, 0, Unset)>>]} ELSE {}

Sizes == {n \in 0..MaxSize : (n = 0 => "none" \in Environment) /\
                             (n >= Base => "many" \in Environment)}

SessionNext ==
         \/ \E local, retry, nonblocking \in BOOLEAN : Connect(local, retry, nonblocking)
         \/ Close
         \/ \E size \in Sizes :
              \/ sdp_service_search_req(size)
              \/ sdp_service_attr_req(size)
              \/ sdp_service_search_attr_req(size)
              \/ sdp_service_search_async(size)
              \/ sdp_service_attr_async(size)
              \/ sdp_service_search_attr_async(size)
         \/ sdp_device_record_register
         \/ sdp_device_record_update
         \/ sdp_device_record_unregister
         \/ Process
         \/ Receive
         \/ Timeout
         \/ ServerAnswers
         \/ PeerActs
-----------------------------------------------------------------------------

SessionSpec == SessionInit /\ [][SessionNext]_q
-----------------------------------------------------------------------------
\* A call that succeeds gives the whole of the server's answer to it: every fragment once and in
\* order, of no other call, and as many as the count says (sdp_process, sdp_service_search_req,
\* sdp_service_attr_req, sdp_service_search_attr_req).
Whole ==
  q.done.ok /\ q.done.call.kind \in Searches =>
    /\ q.done.pdu = q.done.call.kind
    /\ q.done.data = Answer(q.done.call)
    /\ q.done.call.kind = "search" => q.done.count = q.done.call.size

\* A call fails only when something failed while it lasted: what an earlier call left behind
\* never makes it fail.
Justified == q.done.call # Idle /\ ~q.done.ok => q.done.fault

\* Every asynchronous request that was accepted has its callback called once, and no call asks
\* more often than its answer has units.
Once ==
  /\ q.owed = IF q.call # Idle /\ ~q.call.sync THEN 1 ELSE 0
  /\ q.sends <= IF q.call.size = 0 THEN 1 ELSE q.call.size
  /\ ~q.null

\* Between calls the local server holds the record with the handle the client has, and none
\* that the client does not know of.
Agree ==
  q.open /\ q.local /\ q.call = Idle /\ ~q.hup =>
    q.db = IF q.rec = Unset THEN {} ELSE {q.rec}

SessionSafe == Whole /\ Justified /\ Once /\ Agree
===============================================================================
