---------------------------- MODULE GAttribProofs ----------------------------
(***************************************************************************)
(* Whatever both ends of an ATT bearer send, cancel, hold and release, and  *)
(* however often a packet is written again: every callback gets the         *)
(* response to its own request, and once; nothing in a queue is stuck, and  *)
(* a GAttrib has a reference for everybody who uses it.  For any number of   *)
(* requests, users and security levels.                                     *)
(***************************************************************************)
EXTENDS GAttrib, SequenceTheorems, FiniteSetTheorems, TLAPS

Fields == {"alive", "link", "refs", "holders", "queue", "write_watch", "timeout_watch",
           "next_cmd_id", "wire", "results", "level", "rewritten"}

\* x is a record of the fields of New.
IsEnd(x) == x = [f \in Fields |-> x[f]]

Kinds == {"request", "response"}
Packets == [kind : Kinds, id : Nat, sent : BOOLEAN, func : BOOLEAN]
Messages == [kind : Kinds, id : Nat]

Typed(x) ==
  /\ IsEnd(x)
  /\ x.alive \in BOOLEAN /\ x.link \in BOOLEAN /\ x.write_watch \in BOOLEAN
  /\ x.timeout_watch \in BOOLEAN /\ x.rewritten \in BOOLEAN
  /\ x.refs \in Nat /\ x.holders \in Nat /\ x.next_cmd_id \in Nat /\ x.level \in Nat
  /\ x.queue \in Seq(Packets) /\ x.wire \in Seq(Messages) /\ x.results \in Seq(Nat \X Nat)

Written(x) == x.queue # << >> /\ x.queue[1].sent

\* A GAttrib without references is gone, with its queue.
Life(x) == (x.alive => x.refs > 0) /\ (~x.alive => x.queue = << >>)

\* Only requests have callbacks, and only a request at the head can have been
\* written.
Queue(x) == \A k \in DOMAIN x.queue :
              /\ x.queue[k].func => x.queue[k].kind = "request"
              /\ x.queue[k].sent => k = 1 /\ x.queue[k].kind = "request"

\* The identifiers of the requests that wait and of those that were answered are
\* all different.
Waiting(x) ==
  /\ \A k \in DOMAIN x.queue : x.queue[k].kind = "request" =>
        /\ x.queue[k].id <= x.next_cmd_id
        /\ \A j \in DOMAIN x.results : x.results[j][1] # x.queue[k].id
  /\ \A j, k \in DOMAIN x.queue :
        x.queue[j].kind = "request" /\ x.queue[k].kind = "request" /\ j # k
          => x.queue[j].id # x.queue[k].id
Answered(x) ==
  /\ \A k \in DOMAIN x.results : x.results[k][1] = x.results[k][2] /\ x.results[k][1] <= x.next_cmd_id
  /\ \A j, k \in DOMAIN x.results : j # k => x.results[j][1] # x.results[k][1]

\* The watches fit the head of the queue.
Watches(x) ==
  x.alive => /\ x.timeout_watch => Written(x)
             /\ ~x.rewritten /\ x.queue # << >> => x.write_watch \/ x.timeout_watch
             /\ ~x.rewritten /\ Written(x) => ~x.write_watch

\* What is still to be written has a reference each.
ToWrite(x) == IF Written(x) THEN Len(x.queue) - 1 ELSE Len(x.queue)
Counted(x) == x.alive /\ ~x.rewritten => x.refs >= x.holders + ToWrite(x)

\* What concerns one end.
Local(x) == Typed(x) /\ Life(x) /\ Queue(x) /\ Waiting(x) /\ Answered(x) /\ Watches(x) /\ Counted(x)

\* Of the packets s, none, or one and with identifier i, is of kind.
NoneIn(s, kind) == \A k \in DOMAIN s : s[k].kind # kind
OneIn(s, kind, i) ==
  \E k \in DOMAIN s : /\ s[k].kind = kind /\ s[k].id = i
                      /\ \A j \in DOMAIN s : s[j].kind = kind => j = k

\* The request of x, to the other end y, is under way at most once: as the
\* request on the link, as the response in y's queue or as the response on the
\* link.  It is then the one at the head of x's queue, and x writes nothing.
Quiet(x, y) == NoneIn(y.wire, "request") /\ NoneIn(y.queue, "response") /\ NoneIn(x.wire, "response")
Requested(x, y, i) == OneIn(y.wire, "request", i) /\ NoneIn(y.queue, "response") /\ NoneIn(x.wire, "response")
Served(x, y, i) == NoneIn(y.wire, "request") /\ OneIn(y.queue, "response", i) /\ NoneIn(x.wire, "response")
Replied(x, y, i) == NoneIn(y.wire, "request") /\ NoneIn(y.queue, "response") /\ OneIn(x.wire, "response", i)
InFlight(x, y, i) == Requested(x, y, i) \/ Served(x, y, i) \/ Replied(x, y, i)
Flight(x, y) ==
  x.alive => \/ Quiet(x, y)
             \/ Written(x) /\ ~x.write_watch /\ InFlight(x, y, x.queue[1].id)

\* The inductive invariant.
IInv == /\ t = [e \in Ends |-> t[e]]
        /\ \A e \in Ends : Local(t[e]) /\ Flight(t[e], t[Other(e)])

-----------------------------------------------------------------------------
(* Sequences.                                                              *)

LEMMA AppendElems ==
  ASSUME NEW S, NEW s \in Seq(S), NEW m \in S
  PROVE  /\ Append(s, m) \in Seq(S) /\ Len(Append(s, m)) = Len(s) + 1 /\ Append(s, m) # << >>
         /\ DOMAIN Append(s, m) = 1..Len(s) + 1 /\ DOMAIN s = 1..Len(s) /\ Len(s) \in Nat
         /\ \A k \in 1..Len(s) : Append(s, m)[k] = s[k]
         /\ Append(s, m)[Len(s) + 1] = m
  BY AppendProperties

LEMMA TailElems ==
  ASSUME NEW S, NEW s \in Seq(S), s # << >>
  PROVE  /\ Tail(s) \in Seq(S) /\ Len(Tail(s)) = Len(s) - 1
         /\ DOMAIN Tail(s) = 1..Len(s) - 1 /\ DOMAIN s = 1..Len(s) /\ Len(s) \in Nat \ {0}
         /\ \A k \in 1..Len(s) - 1 : Tail(s)[k] = s[k + 1]
         /\ Head(s) = s[1] /\ s[1] \in S
  BY HeadTailProperties

LEMMA PrependElems ==
  ASSUME NEW S, NEW s \in Seq(S), NEW m \in S
  PROVE  /\ <<m>> \o s \in Seq(S) /\ Len(<<m>> \o s) = Len(s) + 1 /\ <<m>> \o s # << >>
         /\ DOMAIN (<<m>> \o s) = 1..Len(s) + 1 /\ DOMAIN s = 1..Len(s) /\ Len(s) \in Nat
         /\ (<<m>> \o s)[1] = m
         /\ \A k \in 2..Len(s) + 1 : (<<m>> \o s)[k] = s[k - 1]
<1>1. <<m>> \in Seq(S) /\ Len(<<m>>) = 1 /\ <<m>>[1] = m
  OBVIOUS
<1> DEFINE a == <<m>>
<1> HIDE DEF a
<1> QED
  BY <1>1, ConcatProperties DEF a

\* s without its k-th element.
Without(s, k) == SubSeq(s, 1, k - 1) \o SubSeq(s, k + 1, Len(s))

LEMMA WithoutElems ==
  ASSUME NEW S, NEW s \in Seq(S), NEW k \in DOMAIN s
  PROVE  /\ Without(s, k) \in Seq(S) /\ Len(Without(s, k)) = Len(s) - 1
         /\ DOMAIN Without(s, k) = 1..Len(s) - 1 /\ DOMAIN s = 1..Len(s) /\ Len(s) \in Nat \ {0}
         /\ \A j \in 1..k - 1 : Without(s, k)[j] = s[j]
         /\ \A j \in k..Len(s) - 1 : Without(s, k)[j] = s[j + 1]
<1> DEFINE a == SubSeq(s, 1, k - 1)
           b == SubSeq(s, k + 1, Len(s))
<1>1. Len(s) \in Nat /\ DOMAIN s = 1..Len(s) /\ k \in 1..Len(s) /\ k \in Nat
  OBVIOUS
<1>2. a \in Seq(S) /\ Len(a) = k - 1 /\ \A j \in 1..k - 1 : a[j] = s[j]
  BY <1>1, SubSeqProperties
<1>3. b \in Seq(S) /\ Len(b) = Len(s) - k /\ \A j \in 1..Len(s) - k : b[j] = s[k + j]
  BY <1>1, SubSeqProperties
<1>4. Without(s, k) = a \o b
  BY DEF Without
<1> HIDE DEF a, b
<1> DEFINE w == a \o b
<1>5. /\ w \in Seq(S) /\ Len(w) = Len(a) + Len(b)
      /\ \A j \in 1..Len(a) + Len(b) : w[j] = IF j <= Len(a) THEN a[j] ELSE b[j - Len(a)]
  BY <1>2, <1>3, ConcatProperties
<1> HIDE DEF w
<1>6. Len(w) = Len(s) - 1 /\ Len(s) \in Nat \ {0} /\ DOMAIN w = 1..Len(s) - 1
  BY <1>1, <1>2, <1>3, <1>5
<1>7. \A j \in 1..k - 1 : w[j] = s[j]
  BY <1>1, <1>2, <1>3, <1>5
<1>8. ASSUME NEW j \in k..Len(s) - 1 PROVE w[j] = s[j + 1]
  <2>1. j - Len(a) \in 1..Len(s) - k /\ ~(j <= Len(a)) /\ j \in 1..Len(a) + Len(b)
    BY <1>1, <1>2, <1>3
  <2>2. w[j] = b[j - Len(a)] /\ k + (j - Len(a)) = j + 1
    BY <1>1, <1>2, <1>5, <2>1
  <2> QED
    BY <1>3, <2>1, <2>2
<1> QED
  BY <1>1, <1>4, <1>5, <1>6, <1>7, <1>8 DEF w

LEMMA NoneAppend ==
  ASSUME NEW S, NEW s \in Seq(S), NEW m \in S, NEW kind, m.kind # kind
  PROVE  /\ NoneIn(s, kind) => NoneIn(Append(s, m), kind)
         /\ \A i : OneIn(s, kind, i) => OneIn(Append(s, m), kind, i)
<1> DEFINE a == Append(s, m)
<1>1. /\ DOMAIN a = 1..Len(s) + 1 /\ DOMAIN s = 1..Len(s) /\ Len(s) \in Nat
      /\ (\A k \in 1..Len(s) : a[k] = s[k]) /\ a[Len(s) + 1] = m
  BY AppendElems
<1> HIDE DEF a
<1>2. \A k \in DOMAIN a : a[k].kind = kind => k \in DOMAIN s /\ a[k] = s[k]
  BY <1>1
<1>3. \A k \in DOMAIN s : k \in DOMAIN a /\ a[k] = s[k]
  BY <1>1
<1>4. NoneIn(s, kind) => NoneIn(a, kind)
  BY <1>2 DEF NoneIn
<1>5. ASSUME NEW i, OneIn(s, kind, i) PROVE OneIn(a, kind, i)
  BY <1>2, <1>3, <1>5 DEF OneIn
<1> QED
  BY <1>4, <1>5 DEF a

LEMMA OneAppend ==
  ASSUME NEW S, NEW s \in Seq(S), NEW m \in S, NEW kind, m.kind = kind, NoneIn(s, kind)
  PROVE  OneIn(Append(s, m), kind, m.id)
<1> DEFINE a == Append(s, m)
           n == Len(s) + 1
<1>1. /\ DOMAIN a = 1..n /\ DOMAIN s = 1..Len(s) /\ Len(s) \in Nat /\ n \in DOMAIN a
      /\ (\A k \in 1..Len(s) : a[k] = s[k]) /\ a[n] = m /\ n = Len(s) + 1
  BY AppendElems
<1> HIDE DEF a, n
<1>2. \A k \in DOMAIN a : k = n \/ (k \in DOMAIN s /\ a[k] = s[k])
  BY <1>1
<1>3. \A k \in DOMAIN a : a[k].kind = kind => k = n
  BY <1>2 DEF NoneIn
<1>4. OneIn(a, kind, m.id)
  BY <1>1, <1>3 DEF OneIn
<1> QED
  BY <1>4 DEF a

LEMMA NoneTail ==
  ASSUME NEW S, NEW s \in Seq(S), s # << >>, NEW kind
  PROVE  /\ NoneIn(s, kind) => NoneIn(Tail(s), kind)
         /\ \A i : OneIn(s, kind, i) /\ Head(s).kind # kind => OneIn(Tail(s), kind, i)
         /\ \A i : OneIn(s, kind, i) /\ Head(s).kind = kind
                     => Head(s).id = i /\ NoneIn(Tail(s), kind)
<1> DEFINE a == Tail(s)
<1>1. /\ DOMAIN a = 1..Len(s) - 1 /\ DOMAIN s = 1..Len(s) /\ Len(s) \in Nat \ {0}
      /\ (\A k \in 1..Len(s) - 1 : a[k] = s[k + 1]) /\ Head(s) = s[1]
  BY TailElems
<1> HIDE DEF a
<1>2. \A k \in DOMAIN a : k \in Nat /\ k >= 1 /\ k + 1 \in DOMAIN s /\ a[k] = s[k + 1]
  BY <1>1
<1>3. \A k \in DOMAIN s : k \in Nat /\ (k # 1 => k - 1 \in DOMAIN a /\ a[k - 1] = s[k])
  BY <1>1
<1>4. NoneIn(s, kind) => NoneIn(a, kind)
  BY <1>2 DEF NoneIn
<1>5. ASSUME NEW i, OneIn(s, kind, i), Head(s).kind # kind PROVE OneIn(a, kind, i)
  <2>1. PICK k \in DOMAIN s : /\ s[k].kind = kind /\ s[k].id = i
                              /\ \A j \in DOMAIN s : s[j].kind = kind => j = k
    BY <1>5 DEF OneIn
  <2>2. k # 1
    BY <1>1, <1>5, <2>1
  <2>3. k - 1 \in DOMAIN a /\ a[k - 1].kind = kind /\ a[k - 1].id = i
    BY <1>3, <2>1, <2>2
  <2>4. \A j \in DOMAIN a : a[j].kind = kind => j = k - 1
    BY <1>2, <1>3, <2>1
  <2> QED
    BY <2>3, <2>4 DEF OneIn
<1>6. ASSUME NEW i, OneIn(s, kind, i), Head(s).kind = kind
      PROVE  Head(s).id = i /\ NoneIn(a, kind)
  <2>1. PICK k \in DOMAIN s : /\ s[k].kind = kind /\ s[k].id = i
                              /\ \A j \in DOMAIN s : s[j].kind = kind => j = k
    BY <1>6 DEF OneIn
  <2>2. 1 \in DOMAIN s
    BY <1>1
  <2>3. k = 1
    BY <1>1, <1>6, <2>1, <2>2
  <2>4. \A j \in DOMAIN a : a[j].kind # kind
    <3> SUFFICES ASSUME NEW j \in DOMAIN a, a[j].kind = kind PROVE FALSE
      OBVIOUS
    <3>1. s[j + 1].kind = kind /\ j + 1 \in DOMAIN s /\ j \in Nat /\ j >= 1
      BY <1>2
    <3>2. j + 1 = 1
      BY <2>1, <2>3, <3>1
    <3> QED
      BY <3>1, <3>2
  <2> QED
    BY <1>1, <2>1, <2>3, <2>4 DEF NoneIn
<1> QED
  BY <1>4, <1>5, <1>6 DEF a

\* What is empty holds nothing.
LEMMA NoneEmpty ==
  ASSUME NEW kind
  PROVE  NoneIn(<< >>, kind) /\ \A i : ~OneIn(<< >>, kind, i)
<1>1. \A k \in DOMAIN << >> : FALSE
  OBVIOUS
<1> QED
  BY <1>1 DEF NoneIn, OneIn

\* Without a request, the responses are the same; and with another one in front.
LEMMA ResponsesWithout ==
  ASSUME NEW S, NEW s \in Seq(S), NEW k \in DOMAIN s, NEW kind, s[k].kind # kind
  PROVE  /\ NoneIn(s, kind) => NoneIn(Without(s, k), kind)
         /\ \A i : OneIn(s, kind, i) => OneIn(Without(s, k), kind, i)
<1> DEFINE a == Without(s, k)
<1>1. /\ DOMAIN a = 1..Len(s) - 1 /\ DOMAIN s = 1..Len(s) /\ Len(s) \in Nat \ {0}
      /\ \A j \in 1..k - 1 : a[j] = s[j]
      /\ \A j \in k..Len(s) - 1 : a[j] = s[j + 1]
  BY WithoutElems
<1> HIDE DEF a
<1>2. \A j \in DOMAIN a : \/ j \in Nat /\ j < k /\ j \in DOMAIN s /\ a[j] = s[j]
                          \/ j \in Nat /\ j >= k /\ j + 1 \in DOMAIN s /\ a[j] = s[j + 1]
  BY <1>1
<1>3. \A j \in DOMAIN s : /\ j \in Nat
                          /\ j < k => j \in DOMAIN a /\ a[j] = s[j]
                          /\ j > k => j - 1 \in DOMAIN a /\ a[j - 1] = s[j] /\ j - 1 >= k
  BY <1>1
<1>4. NoneIn(s, kind) => NoneIn(a, kind)
  BY <1>2 DEF NoneIn
<1>5. ASSUME NEW i, OneIn(s, kind, i) PROVE OneIn(a, kind, i)
  <2>1. PICK o \in DOMAIN s : /\ s[o].kind = kind /\ s[o].id = i
                              /\ \A j \in DOMAIN s : s[j].kind = kind => j = o
    BY <1>5 DEF OneIn
  <2>2. o # k /\ o \in Nat /\ k \in Nat
    BY <1>3, <2>1
  <2>3. CASE o < k
    <3>1. o \in DOMAIN a /\ a[o].kind = kind /\ a[o].id = i
      BY <1>3, <2>1, <2>3
    <3>2. \A j \in DOMAIN a : a[j].kind = kind => j = o
      BY <1>2, <2>1, <2>2, <2>3
    <3> QED
      BY <3>1, <3>2 DEF OneIn
  <2>4. CASE o > k
    <3>1. o - 1 \in DOMAIN a /\ a[o - 1].kind = kind /\ a[o - 1].id = i
      BY <1>3, <2>1, <2>4
    <3>2. \A j \in DOMAIN a : a[j].kind = kind => j = o - 1
      BY <1>2, <2>1, <2>2, <2>4
    <3> QED
      BY <3>1, <3>2 DEF OneIn
  <2> QED
    BY <2>2, <2>3, <2>4
<1> QED
  BY <1>4, <1>5 DEF a

LEMMA NonePrepend ==
  ASSUME NEW S, NEW s \in Seq(S), NEW m \in S, NEW kind, m.kind # kind
  PROVE  /\ NoneIn(s, kind) => NoneIn(<<m>> \o s, kind)
         /\ \A i : OneIn(s, kind, i) => OneIn(<<m>> \o s, kind, i)
<1> DEFINE a == <<m>> \o s
<1>1. /\ DOMAIN a = 1..Len(s) + 1 /\ DOMAIN s = 1..Len(s) /\ Len(s) \in Nat
      /\ a[1] = m /\ \A k \in 2..Len(s) + 1 : a[k] = s[k - 1]
  BY PrependElems
<1> HIDE DEF a
<1>2. \A k \in DOMAIN a : a[k].kind = kind => k \in Nat /\ k - 1 \in DOMAIN s /\ a[k] = s[k - 1]
  BY <1>1
<1>3. \A k \in DOMAIN s : k \in Nat /\ k + 1 \in DOMAIN a /\ a[k + 1] = s[k]
  BY <1>1
<1>4. NoneIn(s, kind) => NoneIn(a, kind)
  BY <1>2 DEF NoneIn
<1>5. ASSUME NEW i, OneIn(s, kind, i) PROVE OneIn(a, kind, i)
  <2>1. PICK k \in DOMAIN s : /\ s[k].kind = kind /\ s[k].id = i
                              /\ \A j \in DOMAIN s : s[j].kind = kind => j = k
    BY <1>5 DEF OneIn
  <2>2. k + 1 \in DOMAIN a /\ a[k + 1].kind = kind /\ a[k + 1].id = i /\ k \in Nat
    BY <1>3, <2>1
  <2>3. \A j \in DOMAIN a : a[j].kind = kind => j = k + 1
    BY <1>2, <2>1, <2>2
  <2> QED
    BY <2>2, <2>3 DEF OneIn
<1> QED
  BY <1>4, <1>5 DEF a

\* Marking the head leaves the kinds and identifiers.
LEMMA SameKinds ==
  ASSUME NEW s, NEW a, DOMAIN a = DOMAIN s,
         \A k \in DOMAIN s : a[k].kind = s[k].kind /\ a[k].id = s[k].id, NEW kind
  PROVE  /\ NoneIn(s, kind) => NoneIn(a, kind)
         /\ \A i : OneIn(s, kind, i) => OneIn(a, kind, i)
  BY DEF NoneIn, OneIn

-----------------------------------------------------------------------------
(* The two ends.                                                           *)

LEMMA OtherEnd ==
  ASSUME NEW e \in Ends
  PROVE  Other(e) \in Ends /\ Other(e) # e /\ Other(Other(e)) = e /\ Ends = {e, Other(e)}
<1>1. PICK a, b : a # b /\ Ends = {a, b}
  BY EndsAssumption
<1>2. \E f \in Ends : f # e
  BY <1>1
<1>3. Other(e) \in Ends /\ Other(e) # e
  BY <1>2 DEF Other
<1>4. \E f \in Ends : f # Other(e)
  BY <1>3
<1>5. Other(Other(e)) \in Ends /\ Other(Other(e)) # Other(e)
  BY <1>4 DEF Other
<1> QED
  BY <1>1, <1>3, <1>5

\* What both ends of a link are to each other.
Pair(x, y) == Local(x) /\ Local(y) /\ Flight(x, y) /\ Flight(y, x)

LEMMA PairOf ==
  ASSUME IInv, NEW e \in Ends
  PROVE  Pair(t[e], t[Other(e)])
  BY OtherEnd DEF IInv, Pair

LEMMA PairStep ==
  ASSUME NEW e \in Ends, t' = [f \in Ends |-> t'[f]], Pair(t'[e], t'[Other(e)])
  PROVE  IInv'
<1>1. Other(e) \in Ends /\ Other(Other(e)) = e /\ Ends = {e, Other(e)}
  BY OtherEnd
<1>2. \A f \in Ends : Local(t'[f]) /\ Flight(t'[f], t'[Other(f)])
  BY <1>1 DEF Pair
<1> QED
  BY <1>2 DEF IInv

-----------------------------------------------------------------------------
(* One end: references and the queue.                                      *)

\* Identifier i was not used yet.
Fresh(x, i) ==
  /\ i <= x.next_cmd_id
  /\ \A k \in DOMAIN x.queue : x.queue[k].kind = "request" => x.queue[k].id # i
  /\ \A k \in DOMAIN x.results : x.results[k][1] # i

LEMMA ToWriteNat ==
  ASSUME NEW x, Typed(x)
  PROVE  /\ ToWrite(x) \in Nat /\ Len(x.queue) \in Nat
         /\ ToWrite(x) >= Len(x.queue) - 1 /\ ToWrite(x) <= Len(x.queue)
         /\ x.queue # << >> => Len(x.queue) > 0
  BY DEF Typed, ToWrite, Written

LEMMA UnrefLocal ==
  ASSUME NEW v, Typed(v), v.alive, v.refs > 0, Queue(v), Waiting(v), Answered(v), Watches(v),
         ~v.rewritten => v.refs >= v.holders + ToWrite(v) + 1
  PROVE  LET u == g_attrib_unref(v)
         IN  /\ Local(u) /\ u.wire = v.wire
             /\ u.alive => u.queue = v.queue /\ (u.write_watch <=> v.write_watch)
             /\ ~u.alive => u.queue = << >>
<1> DEFINE n == v.refs - 1
           w == [v EXCEPT !.refs = n]
           d == [w EXCEPT !.alive = FALSE, !.queue = << >>, !.write_watch = FALSE,
                          !.timeout_watch = FALSE]
           u == g_attrib_unref(v)
<1> SUFFICES /\ Local(u) /\ u.wire = v.wire
             /\ u.alive => u.queue = v.queue /\ (u.write_watch <=> v.write_watch)
             /\ ~u.alive => u.queue = << >>
  BY DEF u
<1>1. u = IF w.refs = 0 THEN d ELSE w
  BY DEF g_attrib_unref, attrib_destroy
<1>2. n \in Nat /\ n = v.refs - 1
  BY DEF Typed
<1> HIDE DEF n, u
<1>3. IsEnd(w) /\ w.refs = n /\ \A f \in Fields \ {"refs"} : w[f] = v[f]
  BY DEF Typed, IsEnd, Fields
<1> HIDE DEF w
<1>4. CASE n = 0
  <2>1. /\ IsEnd(d) /\ ~d.alive /\ d.queue = << >> /\ ~d.write_watch /\ ~d.timeout_watch
        /\ d.alive \in BOOLEAN /\ d.write_watch \in BOOLEAN /\ d.timeout_watch \in BOOLEAN
        /\ \A f \in Fields \ {"alive", "queue", "write_watch", "timeout_watch"} : d[f] = w[f]
    BY <1>3 DEF IsEnd, Fields
  <2>2. u = d
    BY <1>1, <1>3, <1>4
  <2> HIDE DEF d
  <2>3. << >> \in Seq(Packets) /\ DOMAIN d.queue = {}
    BY <2>1
  <2>4. Typed(d)
    BY <1>2, <1>3, <2>1, <2>3 DEF Typed, Fields
  <2>5. Life(d) /\ Queue(d) /\ Watches(d) /\ Counted(d)
    BY <2>1, <2>3 DEF Life, Queue, Watches, Counted
  <2>6. d.results = v.results /\ d.next_cmd_id = v.next_cmd_id
    BY <1>3, <2>1 DEF Fields
  <2>7. Waiting(d)
    BY <2>3 DEF Waiting
  <2>8. Answered(d)
    BY <2>6 DEF Answered
  <2> QED
    BY <1>3, <2>1, <2>2, <2>4, <2>5, <2>7, <2>8 DEF Local, Fields
<1>5. CASE n # 0
  <2>1. u = w
    BY <1>1, <1>3, <1>5
  <2>2. Typed(w)
    BY <1>2, <1>3 DEF Typed, Fields
  <2>3. /\ w.queue = v.queue /\ w.next_cmd_id = v.next_cmd_id /\ w.results = v.results
        /\ w.rewritten = v.rewritten /\ w.write_watch = v.write_watch /\ w.wire = v.wire
        /\ w.timeout_watch = v.timeout_watch /\ w.alive = v.alive /\ w.holders = v.holders
    BY <1>3 DEF Fields
  <2>4. Queue(w) /\ Waiting(w) /\ Answered(w)
    BY <2>3 DEF Queue, Waiting, Answered
  <2>5. Watches(w)
    BY <2>3 DEF Watches, Written
  <2>6. Life(w)
    <3>0. n > 0
      <4>1. n \in Nat /\ n # 0
        BY <1>2, <1>5
      <4> QED
        BY <4>1
    <3>1. w.refs > 0
      <4>1. w.refs = n
        BY <1>3
      <4> QED
        BY <3>0, <4>1
    <3>2. w.alive
      BY <2>3
    <3> QED
      BY <3>1, <3>2 DEF Life
  <2>7. Counted(w)
    <3>1. ToWrite(w) = ToWrite(v)
      BY <2>3 DEF ToWrite, Written
    <3>2. ToWrite(v) \in Nat /\ v.holders \in Nat /\ v.refs \in Nat
      BY ToWriteNat DEF Typed
    <3> QED
      BY <1>2, <1>3, <2>3, <3>1, <3>2 DEF Counted
  <2> QED
    BY <2>1, <2>2, <2>3, <2>4, <2>5, <2>6, <2>7 DEF Local
<1> QED
  BY <1>4, <1>5

\* The requests of a queue made from another one: place k was place g[k].
LEMMA SubWaiting ==
  ASSUME NEW v, NEW u, Waiting(v), u.next_cmd_id = v.next_cmd_id, u.results = v.results, NEW g,
         \A k \in DOMAIN u.queue : /\ g[k] \in DOMAIN v.queue
                                   /\ u.queue[k].kind = v.queue[g[k]].kind
                                   /\ u.queue[k].id = v.queue[g[k]].id,
         \A j, k \in DOMAIN u.queue : j # k => g[j] # g[k]
  PROVE  Waiting(u)
<1>1. \A k \in DOMAIN u.queue : u.queue[k].kind = "request" =>
         /\ u.queue[k].id <= u.next_cmd_id
         /\ \A j \in DOMAIN u.results : u.results[j][1] # u.queue[k].id
  BY DEF Waiting
<1>2. \A j, k \in DOMAIN u.queue :
         u.queue[j].kind = "request" /\ u.queue[k].kind = "request" /\ j # k
           => u.queue[j].id # u.queue[k].id
  BY DEF Waiting
<1> QED
  BY <1>1, <1>2 DEF Waiting

LEMMA AppendQueue ==
  ASSUME NEW v, Typed(v), Queue(v), Waiting(v), NEW p \in Packets, ~p.sent,
         p.func => p.kind = "request", p.kind = "request" => Fresh(v, p.id),
         NEW u, u.queue = Append(v.queue, p), u.next_cmd_id = v.next_cmd_id, u.results = v.results
  PROVE  /\ u.queue \in Seq(Packets) /\ Len(u.queue) = Len(v.queue) + 1 /\ u.queue # << >>
         /\ Queue(u) /\ Waiting(u) /\ (Written(u) <=> Written(v))
         /\ v.queue # << >> => u.queue[1] = v.queue[1]
<1> DEFINE q == v.queue
           n == Len(q) + 1
<1>1. /\ u.queue \in Seq(Packets) /\ Len(u.queue) = Len(q) + 1 /\ u.queue # << >>
      /\ DOMAIN u.queue = 1..n /\ DOMAIN q = 1..Len(q) /\ Len(q) \in Nat
      /\ (\A k \in 1..Len(q) : u.queue[k] = q[k]) /\ u.queue[n] = p
  <2>1. q \in Seq(Packets) /\ u.queue = Append(q, p)
    BY DEF Typed
  <2> HIDE DEF q
  <2> QED
    BY <2>1, AppendElems
<1>2. q \in Seq(Packets)
  BY DEF Typed
<1> HIDE DEF q
<1>3. \A k \in DOMAIN u.queue : \/ k = n /\ u.queue[k] = p
                                \/ k \in DOMAIN q /\ k # n /\ u.queue[k] = q[k]
  BY <1>1
<1>4. Queue(u)
  BY <1>3 DEF Queue, q
<1>5. Waiting(u)
  <2>1. \A k \in DOMAIN u.queue : u.queue[k].kind = "request" =>
          /\ u.queue[k].id <= u.next_cmd_id
          /\ \A j \in DOMAIN u.results : u.results[j][1] # u.queue[k].id
    BY <1>3 DEF Waiting, q, Fresh
  <2>2. \A j, k \in DOMAIN u.queue :
          u.queue[j].kind = "request" /\ u.queue[k].kind = "request" /\ j # k
            => u.queue[j].id # u.queue[k].id
    BY <1>3 DEF Waiting, q, Fresh
  <2> QED
    BY <2>1, <2>2 DEF Waiting
<1>6. q # << >> => u.queue[1] = q[1]
  BY <1>1, <1>2
<1>7. Written(u) <=> Written(v)
  <2>1. CASE q = << >>
    <3>1. u.queue[1] = p
      BY <1>1, <1>2, <2>1
    <3> QED
      BY <2>1, <3>1 DEF Written, q
  <2>2. CASE q # << >>
    BY <1>1, <1>6, <2>2 DEF Written, q
  <2> QED
    BY <2>1, <2>2
<1> QED
  BY <1>1, <1>4, <1>5, <1>6, <1>7 DEF q

\* u's queue is v's without the head.
LEMMA RestQueue ==
  ASSUME NEW v, Typed(v), Queue(v), Waiting(v), 1 \in DOMAIN v.queue, NEW u,
         DOMAIN u.queue = 1..Len(v.queue) - 1,
         \A k \in 1..Len(v.queue) - 1 : u.queue[k] = v.queue[k + 1],
         u.next_cmd_id = v.next_cmd_id, u.results = v.results
  PROVE  /\ Queue(u) /\ Waiting(u)
         /\ \A k \in DOMAIN u.queue : u.queue[k].kind = "request" /\ v.queue[1].kind = "request"
                                         => u.queue[k].id # v.queue[1].id
         /\ \A k \in DOMAIN u.queue : ~u.queue[k].sent
<1>1. DOMAIN v.queue = 1..Len(v.queue) /\ Len(v.queue) \in Nat
  BY DEF Typed
<1>2. \A k \in DOMAIN u.queue : /\ k \in Nat /\ k + 1 # 1 /\ k + 1 \in DOMAIN v.queue
                                /\ u.queue[k] = v.queue[k + 1]
  BY <1>1
<1>3. \A k \in DOMAIN u.queue : u.queue[k].kind = "request" =>
        /\ u.queue[k].id <= u.next_cmd_id
        /\ \A j \in DOMAIN u.results : u.results[j][1] # u.queue[k].id
  BY <1>2 DEF Waiting
<1>4. ASSUME NEW j \in DOMAIN u.queue, NEW k \in DOMAIN u.queue, j # k,
             u.queue[j].kind = "request", u.queue[k].kind = "request"
      PROVE  u.queue[j].id # u.queue[k].id
  <2>1. j + 1 # k + 1
    BY <1>2, <1>4
  <2> QED
    BY <1>2, <1>4, <2>1 DEF Waiting
<1>6. Waiting(u)
  BY <1>3, <1>4 DEF Waiting
<1>7. \A k \in DOMAIN u.queue : ~u.queue[k].sent /\ (u.queue[k].func => u.queue[k].kind = "request")
  BY <1>2 DEF Queue
<1>8. Queue(u)
  BY <1>7 DEF Queue
<1>9. \A k \in DOMAIN u.queue : u.queue[k].kind = "request" /\ v.queue[1].kind = "request"
                                  => u.queue[k].id # v.queue[1].id
  BY <1>2 DEF Waiting
<1> QED
  BY <1>6, <1>7, <1>8, <1>9

LEMMA TailQueue ==
  ASSUME NEW v, Typed(v), Queue(v), Waiting(v), v.queue # << >>,
         NEW u, u.queue = Tail(v.queue), u.next_cmd_id = v.next_cmd_id, u.results = v.results
  PROVE  /\ u.queue \in Seq(Packets) /\ Len(u.queue) = Len(v.queue) - 1
         /\ Queue(u) /\ Waiting(u) /\ ~Written(u)
         /\ Head(v.queue) = v.queue[1] /\ v.queue[1] \in Packets /\ 1 \in DOMAIN v.queue
         /\ \A k \in DOMAIN u.queue : u.queue[k].kind = "request" /\ v.queue[1].kind = "request"
                                         => u.queue[k].id # v.queue[1].id
         /\ \A k \in DOMAIN u.queue : ~u.queue[k].sent
<1>1. /\ u.queue \in Seq(Packets) /\ Len(u.queue) = Len(v.queue) - 1
      /\ DOMAIN u.queue = 1..Len(v.queue) - 1 /\ DOMAIN v.queue = 1..Len(v.queue)
      /\ Len(v.queue) \in Nat \ {0} /\ \A k \in 1..Len(v.queue) - 1 : u.queue[k] = v.queue[k + 1]
      /\ Head(v.queue) = v.queue[1] /\ v.queue[1] \in Packets
  BY TailElems DEF Typed
<1>2. 1 \in DOMAIN v.queue
  BY <1>1
<1>3. /\ Queue(u) /\ Waiting(u)
      /\ \A k \in DOMAIN u.queue : u.queue[k].kind = "request" /\ v.queue[1].kind = "request"
                                      => u.queue[k].id # v.queue[1].id
      /\ \A k \in DOMAIN u.queue : ~u.queue[k].sent
  BY <1>1, <1>2, RestQueue
<1>4. u.queue # << >> => 1 \in DOMAIN u.queue
  BY <1>1
<1>5. ~Written(u)
  BY <1>3, <1>4 DEF Written
<1> QED
  BY <1>1, <1>2, <1>3, <1>5

LEMMA WithoutQueue ==
  ASSUME NEW v, Typed(v), Queue(v), Waiting(v), NEW k \in DOMAIN v.queue, ~v.queue[k].sent,
         NEW u, u.queue = Without(v.queue, k), u.next_cmd_id = v.next_cmd_id, u.results = v.results
  PROVE  /\ u.queue \in Seq(Packets) /\ Len(u.queue) = Len(v.queue) - 1
         /\ Queue(u) /\ Waiting(u) /\ (Written(u) <=> Written(v))
         /\ Written(v) => u.queue[1] = v.queue[1]
<1> DEFINE q == v.queue
           g == [j \in DOMAIN u.queue |-> IF j < k THEN j ELSE j + 1]
<1>0. q \in Seq(Packets)
  BY DEF Typed
<1>1. /\ u.queue \in Seq(Packets) /\ Len(u.queue) = Len(q) - 1
      /\ DOMAIN u.queue = 1..Len(q) - 1 /\ DOMAIN q = 1..Len(q) /\ Len(q) \in Nat \ {0}
      /\ \A j \in 1..k - 1 : u.queue[j] = q[j]
      /\ \A j \in k..Len(q) - 1 : u.queue[j] = q[j + 1]
  BY <1>0, WithoutElems
<1>2. k \in DOMAIN q /\ ~q[k].sent
  OBVIOUS
<1> HIDE DEF q
<1>3. \A j \in DOMAIN u.queue : g[j] = IF j < k THEN j ELSE j + 1
  OBVIOUS
<1> HIDE DEF g
<1>4. \A j \in DOMAIN u.queue : /\ j \in Nat /\ j >= 1 /\ g[j] \in DOMAIN q /\ u.queue[j] = q[g[j]]
                                /\ g[j] = j \/ (g[j] = j + 1 /\ j >= k)
  BY <1>1, <1>2, <1>3
<1>5. \A j, l \in DOMAIN u.queue : j # l => g[j] # g[l]
  BY <1>1, <1>2, <1>3
<1>6. Waiting(u)
  BY <1>4, <1>5, SubWaiting DEF q
<1>7. ASSUME NEW j \in DOMAIN u.queue
      PROVE  /\ u.queue[j].func => u.queue[j].kind = "request"
             /\ u.queue[j].sent => j = 1 /\ u.queue[j].kind = "request"
  <2>1. q[g[j]].sent => g[j] = 1 /\ q[g[j]].kind = "request"
    BY <1>4 DEF Queue, q
  <2>2. q[g[j]].func => q[g[j]].kind = "request"
    BY <1>4 DEF Queue, q
  <2>3. g[j] = 1 => j = 1
    BY <1>4
  <2> QED
    BY <1>4, <2>1, <2>2, <2>3
<1>8. Queue(u)
  BY <1>7 DEF Queue
<1>9. Written(u) => Written(v)
  <2> SUFFICES ASSUME Written(u) PROVE Written(v)
    OBVIOUS
  <2>1. 1 \in DOMAIN u.queue /\ u.queue[1].sent
    BY <1>1 DEF Written
  <2>2. g[1] \in DOMAIN q /\ q[g[1]].sent
    BY <1>4, <2>1
  <2>3. g[1] = 1
    BY <2>2 DEF Queue, q
  <2> QED
    BY <1>0, <1>1, <2>2, <2>3 DEF Written, q
<1>10. Written(v) => Written(u) /\ u.queue[1] = v.queue[1]
  <2> SUFFICES ASSUME Written(v) PROVE Written(u) /\ u.queue[1] = q[1]
    BY DEF q
  <2>1. q[1].sent /\ k # 1 /\ k \in 2..Len(q)
    BY <1>1, <1>2 DEF Written, q
  <2>2. u.queue[1] = q[1] /\ u.queue # << >>
    BY <1>1, <2>1
  <2> QED
    BY <2>1, <2>2 DEF Written
<1> QED
  BY <1>1, <1>6, <1>8, <1>9, <1>10 DEF q

-----------------------------------------------------------------------------
(* Both ends: what is under way.                                           *)

\* Of kind there is in a what there is in s, or at most that.
Keeps(s, a, kind) ==
  /\ NoneIn(s, kind) => NoneIn(a, kind)
  /\ \A i : OneIn(s, kind, i) => OneIn(a, kind, i)
AtMost(s, a, kind) ==
  /\ NoneIn(s, kind) => NoneIn(a, kind)
  /\ \A i : OneIn(s, kind, i) => OneIn(a, kind, i) \/ NoneIn(a, kind)

LEMMA KeepsSame == \A s, kind : Keeps(s, s, kind) /\ AtMost(s, s, kind) /\ AtMost(s, << >>, kind)
  BY NoneEmpty DEF Keeps, AtMost

LEMMA KeepsAtMost == \A s, a, kind : Keeps(s, a, kind) => AtMost(s, a, kind)
  BY DEF Keeps, AtMost

LEMMA KeepsAppend ==
  ASSUME NEW S, NEW s \in Seq(S), NEW m \in S, m.kind = "request"
  PROVE  Keeps(s, Append(s, m), "response")
<1>1. m.kind # "response"
  OBVIOUS
<1> DEFINE k == "response"
<1>2. m.kind # k
  BY <1>1
<1> HIDE DEF k
<1>3. Keeps(s, Append(s, m), k)
  BY <1>2, NoneAppend DEF Keeps
<1> QED
  BY <1>3 DEF k

\* A step that moves no request of x and no answer to it, but for a lost one.
LEMMA FlightKept ==
  ASSUME NEW x, NEW y, NEW u, NEW z, Flight(x, y), u.alive => x.alive,
         Keeps(x.wire, u.wire, "response"), Keeps(y.wire, z.wire, "request"),
         AtMost(y.queue, z.queue, "response"),
         u.alive /\ Written(x) /\ ~x.write_watch
           => Written(u) /\ ~u.write_watch /\ u.queue[1].id = x.queue[1].id
  PROVE  Flight(u, z)
<1> SUFFICES ASSUME u.alive
             PROVE  \/ Quiet(u, z)
                    \/ Written(u) /\ ~u.write_watch /\ InFlight(u, z, u.queue[1].id)
  BY DEF Flight
<1>1. CASE Quiet(x, y)
  BY <1>1 DEF Quiet, Keeps, AtMost
<1>2. CASE Written(x) /\ ~x.write_watch /\ InFlight(x, y, x.queue[1].id)
  <2> DEFINE i == x.queue[1].id
  <2>1. Written(u) /\ ~u.write_watch /\ u.queue[1].id = i
    BY <1>2
  <2>2. InFlight(x, y, i)
    BY <1>2
  <2> HIDE DEF i
  <2>3. InFlight(u, z, i) \/ Quiet(u, z)
    BY <2>2 DEF InFlight, Requested, Served, Replied, Quiet, Keeps, AtMost
  <2> QED
    BY <2>1, <2>3
<1> QED
  BY <1>1, <1>2 DEF Flight

\* One end steps, or both.
LEMMA OneStep ==
  ASSUME IInv, NEW e \in Ends, NEW u, t' = [t EXCEPT ![e] = u], Pair(u, t[Other(e)])
  PROVE  IInv'
<1>1. Other(e) \in Ends /\ Other(e) # e
  BY OtherEnd
<1>2. t' = [f \in Ends |-> t'[f]] /\ t'[e] = u /\ t'[Other(e)] = t[Other(e)]
  BY <1>1 DEF IInv
<1>3. Pair(t'[e], t'[Other(e)])
  BY <1>2
<1>4. t' = [f \in Ends |-> t'[f]]
  BY <1>2
<1> QED
  BY <1>3, <1>4, PairStep

LEMMA BothStep ==
  ASSUME IInv, NEW e \in Ends, NEW u, NEW z,
         t' = [t EXCEPT ![e] = u, ![Other(e)] = z], Pair(u, z)
  PROVE  IInv'
<1>1. Other(e) \in Ends /\ Other(e) # e
  BY OtherEnd
<1>2. t' = [f \in Ends |-> t'[f]] /\ t'[e] = u /\ t'[Other(e)] = z
  BY <1>1 DEF IInv
<1>3. Pair(t'[e], t'[Other(e)])
  BY <1>2
<1>4. t' = [f \in Ends |-> t'[f]]
  BY <1>2
<1> QED
  BY <1>3, <1>4, PairStep

-----------------------------------------------------------------------------
(* Sending.                                                                *)

LEMMA SendLocal ==
  ASSUME NEW v, Local(v), v.alive, NEW p \in Packets, ~p.sent, p.func => p.kind = "request",
         p.kind = "request" => Fresh(v, p.id)
  PROVE  LET u == g_attrib_send(v, p, FALSE)
         IN  /\ Local(u) /\ u.alive /\ u.queue = Append(v.queue, p) /\ u.wire = v.wire
             /\ Written(u) <=> Written(v)
             /\ v.queue # << >> => u.queue[1] = v.queue[1] /\ (u.write_watch <=> v.write_watch)
<1> DEFINE q == Append(v.queue, p)
           n == v.refs + 1
           w == [v EXCEPT !.queue = q, !.refs = n]
           u == g_attrib_send(v, p, FALSE)
<1> SUFFICES /\ Local(u) /\ u.alive /\ u.queue = q /\ u.wire = v.wire
             /\ Written(u) <=> Written(v)
             /\ v.queue # << >> => u.queue[1] = v.queue[1] /\ (u.write_watch <=> v.write_watch)
  BY DEF u
<1>1. u = IF Len(w.queue) = 1 THEN [w EXCEPT !.write_watch = TRUE] ELSE w
  BY DEF g_attrib_send, wake_up_sender
<1>2. Typed(v) /\ Life(v) /\ Queue(v) /\ Waiting(v) /\ Answered(v) /\ Watches(v) /\ Counted(v)
  BY DEF Local
<1>3. n \in Nat /\ n > 0 /\ n = v.refs + 1 /\ v.refs \in Nat
  BY <1>2 DEF Typed
<1>4. q = Append(v.queue, p)
  OBVIOUS
<1> HIDE DEF n, q, u
<1>5. /\ IsEnd(w) /\ w.refs = n /\ w.queue = q
      /\ \A f \in Fields \ {"refs", "queue"} : w[f] = v[f]
  BY <1>2 DEF Typed, IsEnd, Fields
<1> HIDE DEF w
<1>6. /\ IsEnd(u) /\ u.refs = n /\ u.queue = q /\ u.write_watch \in BOOLEAN
      /\ \A f \in Fields \ {"refs", "queue", "write_watch"} : u[f] = v[f]
      /\ Len(q) = 1 => u.write_watch
      /\ Len(q) # 1 => u.write_watch = v.write_watch
  <2>1. CASE Len(q) = 1
    <3>1. u = [w EXCEPT !.write_watch = TRUE]
      BY <1>1, <1>5, <2>1
    <3> QED
      BY <1>5, <2>1, <3>1 DEF IsEnd, Fields
  <2>2. CASE Len(q) # 1
    <3>1. u = w
      BY <1>1, <1>5, <2>2
    <3> QED
      BY <1>2, <1>5, <2>2, <3>1 DEF Typed, Fields
  <2> QED
    BY <2>1, <2>2
<1>7. /\ u.next_cmd_id = v.next_cmd_id /\ u.results = v.results /\ u.wire = v.wire
      /\ u.alive = v.alive /\ u.rewritten = v.rewritten /\ u.timeout_watch = v.timeout_watch
      /\ u.holders = v.holders /\ u.level = v.level /\ u.link = v.link
  BY <1>6 DEF Fields
<1>8. /\ u.queue \in Seq(Packets) /\ Len(u.queue) = Len(v.queue) + 1 /\ u.queue # << >>
      /\ Queue(u) /\ Waiting(u) /\ (Written(u) <=> Written(v))
      /\ v.queue # << >> => u.queue[1] = v.queue[1]
  <2>1. u.queue = Append(v.queue, p)
    BY <1>4, <1>6
  <2> QED
    BY <1>2, <1>7, <2>1, AppendQueue
<1>9. Typed(u)
  BY <1>2, <1>3, <1>6, <1>7, <1>8 DEF Typed
<1>10. Answered(u)
  BY <1>2, <1>7 DEF Answered
<1>11. u.alive
  BY <1>7
<1>12. Life(u)
  BY <1>3, <1>6, <1>11 DEF Life
<1>13. v.queue = << >> => Len(q) = 1
  BY <1>6, <1>8
<1>14. v.queue # << >> => Len(q) # 1
  <2>1. v.queue # << >> => Len(v.queue) # 0 /\ Len(v.queue) \in Nat
    BY <1>2 DEF Typed
  <2> QED
    BY <1>6, <1>8, <2>1
<1>15. v.queue # << >> => (u.write_watch <=> v.write_watch)
  BY <1>6, <1>14
<1>16. Watches(u)
  <2>1. u.timeout_watch => Written(u)
    BY <1>2, <1>7, <1>8 DEF Watches
  <2>2. ~u.rewritten => u.write_watch \/ u.timeout_watch
    BY <1>2, <1>6, <1>7, <1>13, <1>15 DEF Watches
  <2>3. ~u.rewritten /\ Written(u) => ~u.write_watch
    <3>1. Written(v) => v.queue # << >>
      BY DEF Written
    <3> QED
      BY <1>2, <1>7, <1>8, <1>15, <3>1 DEF Watches
  <2> QED
    BY <2>1, <2>2, <2>3 DEF Watches
<1>17. Counted(u)
  <2>1. ToWrite(u) = ToWrite(v) + 1 /\ ToWrite(v) \in Nat
    <3>1. Len(v.queue) \in Nat /\ ToWrite(v) \in Nat
      BY <1>2, ToWriteNat
    <3> QED
      BY <1>8, <3>1 DEF ToWrite
  <2>2. v.holders \in Nat
    BY <1>2 DEF Typed
  <2>3. ~v.rewritten => v.refs >= v.holders + ToWrite(v)
    BY <1>2 DEF Counted
  <2>4. ~v.rewritten => n >= v.holders + (ToWrite(v) + 1)
    BY <1>3, <2>1, <2>2, <2>3
  <2> QED
    BY <1>6, <1>7, <2>1, <2>4 DEF Counted
<1>18. Local(u)
  BY <1>8, <1>9, <1>10, <1>12, <1>16, <1>17 DEF Local
<1> QED
  BY <1>6, <1>7, <1>8, <1>11, <1>15, <1>18

LEMMA RequestGood ==
  ASSUME IInv, NEW e \in Ends, Request(e)
  PROVE  IInv'
<1> DEFINE x == t[e]
           y == t[Other(e)]
           n == x.next_cmd_id + 1
           v == [x EXCEPT !.next_cmd_id = n]
           p == Packet("request", n)
           u == g_attrib_send(v, p, FALSE)
<1>1. Pair(x, y)
  BY PairOf
<1>2. x.alive /\ t' = [t EXCEPT ![e] = u]
  BY DEF Request, IInv
<1> HIDE DEF x, y
<1>3. Local(x) /\ Typed(x)
  BY <1>1 DEF Pair, Local
<1>4. n \in Nat /\ n > x.next_cmd_id /\ x.next_cmd_id \in Nat
  BY <1>3 DEF Typed
<1>5. /\ p \in Packets /\ p.kind = "request" /\ p.id = n /\ ~p.sent
  BY <1>4 DEF Packet, Packets, Kinds
<1> HIDE DEF n, p
<1>6. IsEnd(v) /\ v.next_cmd_id = n /\ \A f \in Fields \ {"next_cmd_id"} : v[f] = x[f]
  BY <1>3 DEF Typed, IsEnd, Fields
<1> HIDE DEF v
<1>7. /\ v.queue = x.queue /\ v.results = x.results /\ v.alive = x.alive /\ v.refs = x.refs
      /\ v.holders = x.holders /\ v.rewritten = x.rewritten /\ v.write_watch = x.write_watch
      /\ v.timeout_watch = x.timeout_watch /\ v.wire = x.wire
  BY <1>6 DEF Fields
<1>8. Typed(v)
  BY <1>3, <1>4, <1>6 DEF Typed, Fields
<1>9. \A k \in DOMAIN x.queue : x.queue[k].id \in Nat
  <2>1. \A k \in DOMAIN x.queue : x.queue[k] \in Packets
    BY <1>3 DEF Typed
  <2> QED
    BY <2>1 DEF Packets
<1>10. \A k \in DOMAIN x.results : x.results[k][1] \in Nat
  BY <1>3 DEF Typed
<1>11. Waiting(v) /\ Answered(v)
  BY <1>3, <1>4, <1>6, <1>7, <1>9, <1>10 DEF Local, Waiting, Answered
<1>12. Fresh(v, n)
  BY <1>3, <1>4, <1>6, <1>7, <1>9, <1>10 DEF Local, Waiting, Answered, Fresh
<1>13. Life(v) /\ Queue(v) /\ Watches(v) /\ Counted(v)
  BY <1>3, <1>7 DEF Local, Life, Queue, Watches, Counted, ToWrite, Written
<1>14. Local(v) /\ v.alive
  BY <1>2, <1>7, <1>8, <1>11, <1>13 DEF Local
<1>15. /\ Local(u) /\ u.alive /\ u.queue = Append(v.queue, p) /\ u.wire = v.wire
       /\ Written(u) <=> Written(v)
       /\ v.queue # << >> => u.queue[1] = v.queue[1] /\ (u.write_watch <=> v.write_watch)
  BY <1>5, <1>12, <1>14, SendLocal
<1> HIDE DEF u
<1>16. Flight(u, y)
  <2>1. Keeps(x.wire, u.wire, "response") /\ Keeps(y.wire, y.wire, "request")
        /\ AtMost(y.queue, y.queue, "response")
    BY <1>7, <1>15, KeepsSame
  <2>2. Written(x) /\ ~x.write_watch => Written(u) /\ ~u.write_watch /\ u.queue[1].id = x.queue[1].id
    BY <1>7, <1>15 DEF Written
  <2>3. Flight(x, y)
    BY <1>1 DEF Pair
  <2> QED
    BY <1>2, <2>1, <2>2, <2>3, FlightKept
<1>17. Flight(y, u)
  <2>1. Keeps(x.queue, u.queue, "response")
    <3>1. x.queue \in Seq(Packets) /\ u.queue = Append(x.queue, p) /\ p.kind # "response"
      BY <1>3, <1>5, <1>7, <1>15 DEF Typed
    <3> QED
      BY <1>5, <3>1, NoneAppend DEF Keeps
  <2>2. Keeps(y.wire, y.wire, "response") /\ Keeps(x.wire, u.wire, "request")
        /\ AtMost(x.queue, u.queue, "response")
    BY <1>7, <1>15, <2>1, KeepsSame, KeepsAtMost
  <2>3. Flight(y, x)
    BY <1>1 DEF Pair
  <2> QED
    BY <2>2, <2>3, FlightKept
<1>18. Pair(u, y)
  BY <1>1, <1>15, <1>16, <1>17 DEF Pair
<1> QED
  BY <1>2, <1>18, OneStep DEF y

-----------------------------------------------------------------------------
(* Steps that change neither a queue nor a wire, but for the end of a       *)
(* GAttrib.                                                                 *)

LEMMA UnrefPair ==
  ASSUME NEW x, NEW y, Pair(x, y), x.alive, NEW v, Typed(v), v.alive, v.refs > 0, Watches(v),
         ~v.rewritten => v.refs >= v.holders + ToWrite(v) + 1,
         v.queue = x.queue, v.wire = x.wire, v.results = x.results, v.next_cmd_id = x.next_cmd_id,
         v.write_watch => x.write_watch
  PROVE  Pair(g_attrib_unref(v), y)
<1> DEFINE u == g_attrib_unref(v)
<1>1. Queue(v) /\ Waiting(v) /\ Answered(v)
  BY DEF Pair, Local, Queue, Waiting, Answered
<1>2. /\ Local(u) /\ u.wire = v.wire
      /\ u.alive => u.queue = v.queue /\ (u.write_watch <=> v.write_watch)
      /\ ~u.alive => u.queue = << >>
  BY <1>1, UnrefLocal
<1> HIDE DEF u
<1>3. u.alive \in BOOLEAN
  BY <1>2 DEF Local, Typed
<1>4. Flight(u, y)
  <2>1. Keeps(x.wire, u.wire, "response") /\ Keeps(y.wire, y.wire, "request")
        /\ AtMost(y.queue, y.queue, "response")
    BY <1>2, KeepsSame
  <2>2. u.alive /\ Written(x) /\ ~x.write_watch
          => Written(u) /\ ~u.write_watch /\ u.queue[1].id = x.queue[1].id
    BY <1>2 DEF Written
  <2>3. Flight(x, y)
    BY DEF Pair
  <2> QED
    BY <2>1, <2>2, <2>3, FlightKept
<1>5. Flight(y, u)
  <2>1. AtMost(x.queue, u.queue, "response")
    <3>1. u.queue = x.queue \/ u.queue = << >>
      BY <1>2, <1>3
    <3> QED
      BY <3>1, KeepsSame
  <2>2. Keeps(y.wire, y.wire, "response") /\ Keeps(x.wire, u.wire, "request")
    BY <1>2, KeepsSame
  <2>3. Flight(y, x)
    BY DEF Pair
  <2> QED
    BY <2>1, <2>2, <2>3, FlightKept
<1> QED
  BY <1>2, <1>4, <1>5 DEF Pair, u

LEMMA WriteFailsGood ==
  ASSUME IInv, NEW e \in Ends, WriteFails(e)
  PROVE  IInv'
<1> DEFINE x == t[e]
           y == t[Other(e)]
           v == [x EXCEPT !.write_watch = FALSE, !.rewritten = TRUE]
<1>1. Pair(x, y)
  BY PairOf
<1>2. x.alive /\ t' = [t EXCEPT ![e] = g_attrib_unref(v)]
  BY DEF WriteFails
<1>3. t[Other(e)] = y
  OBVIOUS
<1> HIDE DEF x, y
<1>4. Typed(x) /\ Life(x) /\ Watches(x)
  BY <1>1 DEF Pair, Local
<1>5. /\ IsEnd(v) /\ ~v.write_watch /\ v.write_watch \in BOOLEAN /\ v.rewritten
      /\ v.rewritten \in BOOLEAN /\ \A f \in Fields \ {"write_watch", "rewritten"} : v[f] = x[f]
  BY <1>4 DEF Typed, IsEnd, Fields
<1> HIDE DEF v
<1>6. Typed(v)
  BY <1>4, <1>5 DEF Typed, Fields
<1>7. /\ v.alive = x.alive /\ v.refs = x.refs /\ v.queue = x.queue /\ v.wire = x.wire
      /\ v.results = x.results /\ v.next_cmd_id = x.next_cmd_id
      /\ v.timeout_watch = x.timeout_watch
  BY <1>5 DEF Fields
<1>8. v.alive /\ v.refs > 0
  BY <1>2, <1>4, <1>7 DEF Life
<1>9. Watches(v)
  BY <1>2, <1>4, <1>5, <1>7 DEF Watches, Written
<1>10. Pair(g_attrib_unref(v), y)
  BY <1>1, <1>2, <1>5, <1>6, <1>7, <1>8, <1>9, UnrefPair
<1> QED
  BY <1>2, <1>3, <1>10, OneStep

LEMMA ReleaseGood ==
  ASSUME IInv, NEW e \in Ends, Release(e)
  PROVE  IInv'
<1> DEFINE x == t[e]
           y == t[Other(e)]
           n == x.holders - 1
           v == [x EXCEPT !.holders = n]
<1>1. Pair(x, y)
  BY PairOf
<1>2. x.alive /\ x.holders > 0 /\ t' = [t EXCEPT ![e] = g_attrib_unref(v)]
  BY DEF Release
<1>3. t[Other(e)] = y
  OBVIOUS
<1> HIDE DEF x, y
<1>4. Typed(x) /\ Life(x) /\ Watches(x) /\ Counted(x)
  BY <1>1 DEF Pair, Local
<1>5. n \in Nat /\ x.holders = n + 1
  BY <1>2, <1>4 DEF Typed
<1> HIDE DEF n
<1>6. /\ IsEnd(v) /\ v.holders = n /\ \A f \in Fields \ {"holders"} : v[f] = x[f]
  BY <1>4 DEF Typed, IsEnd, Fields
<1> HIDE DEF v
<1>7. Typed(v)
  BY <1>4, <1>5, <1>6 DEF Typed, Fields
<1>8. /\ v.alive = x.alive /\ v.refs = x.refs /\ v.queue = x.queue /\ v.wire = x.wire
      /\ v.results = x.results /\ v.next_cmd_id = x.next_cmd_id /\ v.rewritten = x.rewritten
      /\ v.timeout_watch = x.timeout_watch /\ v.write_watch = x.write_watch
  BY <1>6 DEF Fields
<1>9. v.alive /\ v.refs > 0
  BY <1>2, <1>4, <1>8 DEF Life
<1>10. Watches(v)
  BY <1>4, <1>8 DEF Watches, Written
<1>11. ~v.rewritten => v.refs >= v.holders + ToWrite(v) + 1
  <2>1. ToWrite(v) = ToWrite(x) /\ ToWrite(x) \in Nat /\ x.refs \in Nat
    BY <1>4, <1>8, ToWriteNat DEF ToWrite, Written, Typed
  <2>2. ~v.rewritten => x.refs >= x.holders + ToWrite(x)
    BY <1>2, <1>4, <1>8 DEF Counted
  <2>3. ~v.rewritten => x.refs >= n + ToWrite(x) + 1
    BY <1>5, <2>1, <2>2
  <2> QED
    BY <1>6, <1>8, <2>1, <2>3
<1>12. v.write_watch => x.write_watch
  BY <1>8
<1>13. Pair(g_attrib_unref(v), y)
  BY <1>1, <1>2, <1>7, <1>8, <1>9, <1>10, <1>11, <1>12, UnrefPair
<1> QED
  BY <1>2, <1>3, <1>13, OneStep

\* u differs from x at most in link, refs and holders.
LEMMA SameFlight ==
  ASSUME NEW x, NEW y, Pair(x, y), NEW u, Typed(u),
         \A f \in Fields \ {"link", "refs", "holders"} : u[f] = x[f],
         u.alive => u.refs > 0,
         u.alive /\ ~u.rewritten => u.refs >= u.holders + ToWrite(u)
  PROVE  Pair(u, y)
<1>1. /\ u.alive = x.alive /\ u.queue = x.queue /\ u.wire = x.wire
      /\ u.results = x.results /\ u.next_cmd_id = x.next_cmd_id /\ u.rewritten = x.rewritten
      /\ u.timeout_watch = x.timeout_watch /\ u.write_watch = x.write_watch
  BY DEF Fields
<1>2. Queue(u) /\ Waiting(u) /\ Answered(u)
  BY <1>1 DEF Pair, Local, Queue, Waiting, Answered
<1>3. Watches(u) /\ Counted(u)
  BY <1>1 DEF Pair, Local, Watches, Counted, Written
<1>4. Life(u)
  BY <1>1 DEF Pair, Local, Life
<1>5. Flight(u, y)
  BY <1>1 DEF Pair, Flight, Written, Quiet, InFlight, Requested, Served, Replied
<1>6. Flight(y, u)
  BY <1>1 DEF Pair, Flight, Written, Quiet, InFlight, Requested, Served, Replied
<1> QED
  BY <1>2, <1>3, <1>4, <1>5, <1>6 DEF Pair, Local

LEMMA RefGood ==
  ASSUME IInv, NEW e \in Ends, g_attrib_ref(e)
  PROVE  IInv'
<1> DEFINE x == t[e]
           y == t[Other(e)]
           n == x.holders + 1
           r == x.refs + 1
           u == [x EXCEPT !.refs = r, !.holders = n]
<1>1. Pair(x, y)
  BY PairOf
<1>2. t' = [t EXCEPT ![e] = u]
  BY DEF g_attrib_ref, IInv
<1>3. t[Other(e)] = y
  OBVIOUS
<1> HIDE DEF x, y
<1>4. Typed(x) /\ Counted(x)
  BY <1>1 DEF Pair, Local
<1>5. n \in Nat /\ r \in Nat /\ n = x.holders + 1 /\ r = x.refs + 1 /\ r > 0
  BY <1>4 DEF Typed
<1> HIDE DEF n, r
<1>6. /\ IsEnd(u) /\ u.holders = n /\ u.refs = r
      /\ \A f \in Fields \ {"refs", "holders"} : u[f] = x[f]
  BY <1>4 DEF Typed, IsEnd, Fields
<1> HIDE DEF u
<1>7. Typed(u)
  BY <1>4, <1>5, <1>6 DEF Typed, Fields
<1>8. u.alive /\ ~u.rewritten => u.refs >= u.holders + ToWrite(u)
  <2>1. u.alive = x.alive /\ u.rewritten = x.rewritten /\ u.queue = x.queue
    BY <1>6 DEF Fields
  <2>2. ToWrite(u) = ToWrite(x) /\ ToWrite(x) \in Nat
    BY <1>4, <2>1, ToWriteNat DEF ToWrite, Written
  <2>3. x.refs \in Nat /\ x.holders \in Nat
    BY <1>4 DEF Typed
  <2>4. x.refs >= x.holders + ToWrite(x) => r >= n + ToWrite(x)
    BY <1>5, <2>2, <2>3
  <2> QED
    BY <1>4, <1>6, <2>1, <2>2, <2>4 DEF Counted
<1>9. Pair(u, y)
  <2>1. \A f \in Fields \ {"link", "refs", "holders"} : u[f] = x[f]
    BY <1>6
  <2>2. u.refs > 0
    BY <1>5, <1>6
  <2> QED
    BY <1>1, <1>7, <1>8, <2>1, <2>2, SameFlight
<1> QED
  BY <1>2, <1>3, <1>9, OneStep

\* The link goes, for whatever end notices.
LEMMA Unlinked ==
  ASSUME NEW x, Typed(x)
  PROVE  LET u == [x EXCEPT !.link = FALSE]
         IN  Typed(u) /\ u.link \in BOOLEAN /\ \A f \in Fields \ {"link"} : u[f] = x[f]
<1> DEFINE u == [x EXCEPT !.link = FALSE]
<1> SUFFICES Typed(u) /\ u.link \in BOOLEAN /\ \A f \in Fields \ {"link"} : u[f] = x[f]
  BY DEF u
<1>1. IsEnd(u) /\ u.link \in BOOLEAN /\ \A f \in Fields \ {"link"} : u[f] = x[f]
  BY DEF Typed, IsEnd, Fields
<1> HIDE DEF u
<1> QED
  BY <1>1 DEF Typed, Fields

LEMMA UnlinkedPair ==
  ASSUME NEW x, NEW y, Pair(x, y)
  PROVE  Pair([x EXCEPT !.link = FALSE], y)
<1> DEFINE u == [x EXCEPT !.link = FALSE]
<1>1. Typed(x) /\ Life(x) /\ Counted(x)
  BY DEF Pair, Local
<1>2. Typed(u) /\ \A f \in Fields \ {"link"} : u[f] = x[f]
  BY <1>1, Unlinked
<1> HIDE DEF u
<1>3. /\ u.alive = x.alive /\ u.rewritten = x.rewritten /\ u.queue = x.queue /\ u.refs = x.refs
      /\ u.holders = x.holders
  BY <1>2 DEF Fields
<1>4. u.alive => u.refs > 0
  BY <1>1, <1>3 DEF Life
<1>5. u.alive /\ ~u.rewritten => u.refs >= u.holders + ToWrite(u)
  BY <1>1, <1>3 DEF Counted, ToWrite, Written
<1>6. \A f \in Fields \ {"link", "refs", "holders"} : u[f] = x[f]
  BY <1>2
<1>7. Pair(u, y)
  BY <1>2, <1>4, <1>5, <1>6, SameFlight
<1> QED
  BY <1>7 DEF u

LEMMA PairSymmetric ==
  ASSUME NEW x, NEW y, Pair(x, y)
  PROVE  Pair(y, x)
  BY DEF Pair

LEMMA LinkLostGood ==
  ASSUME IInv, LinkLost
  PROVE  IInv'
<1>1. PICK e \in Ends : TRUE
  BY DEF LinkLost
<1> DEFINE u == [t[e] EXCEPT !.link = FALSE]
           z == [t[Other(e)] EXCEPT !.link = FALSE]
<1>2. Pair(u, z)
  <2>1. Pair(t[e], t[Other(e)])
    BY PairOf
  <2> QED
    BY <2>1, UnlinkedPair, PairSymmetric
<1> HIDE DEF u, z
<1>3. Other(e) \in Ends
  BY OtherEnd
<1>4. t' = [f \in Ends |-> t'[f]] /\ t'[e] = u /\ t'[Other(e)] = z
  BY <1>3 DEF LinkLost, u, z
<1>5. Pair(t'[e], t'[Other(e)])
  BY <1>2, <1>4
<1>6. t' = [f \in Ends |-> t'[f]]
  BY <1>4
<1> QED
  BY <1>5, <1>6, PairStep

\* A GAttrib that is destroyed takes its queue along.
LEMMA DestroyedPair ==
  ASSUME NEW x, NEW y, Pair(x, y)
  PROVE  Pair(attrib_destroy(x), y)
<1> DEFINE u == attrib_destroy(x)
<1>1. Typed(x) /\ Answered(x)
  BY DEF Pair, Local
<1>2. /\ IsEnd(u) /\ ~u.alive /\ u.queue = << >> /\ u.alive \in BOOLEAN
      /\ u.write_watch \in BOOLEAN /\ u.timeout_watch \in BOOLEAN
      /\ \A f \in Fields \ {"alive", "queue", "write_watch", "timeout_watch"} : u[f] = x[f]
  BY <1>1 DEF attrib_destroy, Typed, IsEnd, Fields
<1> HIDE DEF u
<1>3. << >> \in Seq(Packets) /\ DOMAIN u.queue = {}
  BY <1>2
<1>4. Typed(u)
  BY <1>1, <1>2, <1>3 DEF Typed, Fields
<1>5. Life(u) /\ Queue(u) /\ Watches(u) /\ Counted(u) /\ Waiting(u) /\ Flight(u, y)
  BY <1>2, <1>3 DEF Life, Queue, Watches, Counted, Waiting, Flight
<1>6. u.results = x.results /\ u.next_cmd_id = x.next_cmd_id /\ u.wire = x.wire
  BY <1>2 DEF Fields
<1>7. Answered(u)
  BY <1>1, <1>6 DEF Answered
<1>8. Flight(y, u)
  <2>1. /\ AtMost(x.queue, u.queue, "response")
        /\ Keeps(y.wire, y.wire, "response") /\ Keeps(x.wire, u.wire, "request")
    BY <1>2, <1>6, KeepsSame
  <2>2. Flight(y, x)
    BY DEF Pair
  <2> QED
    BY <2>1, <2>2, FlightKept
<1>9. Pair(u, y)
  BY <1>4, <1>5, <1>7, <1>8 DEF Pair, Local
<1> QED
  BY <1>9 DEF u

LEMMA TimeoutGood ==
  ASSUME IInv, NEW e \in Ends, disconnect_timeout(e)
  PROVE  IInv'
<1> DEFINE u == [attrib_destroy(t[e]) EXCEPT !.link = FALSE]
           z == [t[Other(e)] EXCEPT !.link = FALSE]
<1>1. Pair(t[e], t[Other(e)])
  BY PairOf
<1>2. Pair(attrib_destroy(t[e]), t[Other(e)])
  BY <1>1, DestroyedPair
<1>3. Pair(u, z)
  BY <1>2, UnlinkedPair, PairSymmetric
<1>4. Other(e) \in Ends /\ Other(e) # e
  BY OtherEnd
<1>5. t' = [t EXCEPT ![e] = u, ![Other(e)] = z]
  BY <1>4 DEF disconnect_timeout, IInv
<1> HIDE DEF u, z
<1> QED
  BY <1>3, <1>5, BothStep

\* A new GAttrib at both ends.
LEMMA NewPair == Pair(New, New)
<1> DEFINE x == New
<1>1. /\ IsEnd(x) /\ x.alive /\ x.queue = << >> /\ x.wire = << >> /\ x.results = << >>
      /\ x.refs = 1 /\ x.holders = 1 /\ x.next_cmd_id = 0 /\ x.level = 0
  BY DEF New, IsEnd, Fields
<1>2. /\ x.alive \in BOOLEAN /\ x.link \in BOOLEAN /\ x.write_watch \in BOOLEAN
      /\ x.timeout_watch \in BOOLEAN /\ x.rewritten \in BOOLEAN
      /\ ~x.timeout_watch /\ ~x.write_watch
  BY DEF New
<1> HIDE DEF x
<1>3. x.queue \in Seq(Packets) /\ x.wire \in Seq(Messages) /\ x.results \in Seq(Nat \X Nat)
  BY <1>1
<1>4. Typed(x)
  BY <1>1, <1>2, <1>3 DEF Typed
<1>5. DOMAIN x.queue = {} /\ DOMAIN x.results = {} /\ ~Written(x)
  BY <1>1 DEF Written
<1>6. Life(x) /\ Queue(x) /\ Waiting(x) /\ Answered(x) /\ Watches(x)
  BY <1>1, <1>2, <1>5 DEF Life, Queue, Waiting, Answered, Watches
<1>7. Len(x.queue) = 0
  BY <1>1
<1>8. Counted(x)
  BY <1>1, <1>5, <1>7 DEF Counted, ToWrite
<1>9. Flight(x, x)
  BY <1>1, NoneEmpty DEF Flight, Quiet
<1>10. Pair(x, x)
  BY <1>4, <1>6, <1>8, <1>9 DEF Pair, Local
<1> QED
  BY <1>10 DEF x

LEMMA NewGood ==
  ASSUME IInv, g_attrib_new
  PROVE  IInv'
<1>1. PICK e \in Ends : TRUE
  BY EndsAssumption
<1>2. t' = [f \in Ends |-> t'[f]] /\ t'[e] = New /\ t'[Other(e)] = New
  BY OtherEnd DEF g_attrib_new
<1>3. Pair(t'[e], t'[Other(e)])
  BY <1>2, NewPair
<1>4. t' = [f \in Ends |-> t'[f]]
  BY <1>2
<1> QED
  BY <1>3, <1>4, PairStep

LEMMA InitGood == AttInit => IInv
<1> SUFFICES ASSUME AttInit PROVE IInv
  OBVIOUS
<1>1. t = [e \in Ends |-> t[e]] /\ \A e \in Ends : t[e] = New /\ t[Other(e)] = New
  BY OtherEnd DEF AttInit
<1> QED
  BY <1>1, NewPair DEF IInv, Pair

-----------------------------------------------------------------------------
(* Writing.                                                                *)

\* Nothing that concerns only y depends on what is on its way to y.
LEMMA NewWire ==
  ASSUME NEW y, Local(y), NEW a \in Seq(Messages)
  PROVE  LET z == [y EXCEPT !.wire = a]
         IN  Local(z) /\ z.wire = a /\ \A f \in Fields \ {"wire"} : z[f] = y[f]
<1> DEFINE z == [y EXCEPT !.wire = a]
<1> SUFFICES Local(z) /\ z.wire = a /\ \A f \in Fields \ {"wire"} : z[f] = y[f]
  BY DEF z
<1>1. Typed(y)
  BY DEF Local
<1>2. IsEnd(z) /\ z.wire = a /\ \A f \in Fields \ {"wire"} : z[f] = y[f]
  BY <1>1 DEF Typed, IsEnd, Fields
<1> HIDE DEF z
<1>3. Typed(z)
  BY <1>1, <1>2 DEF Typed, Fields
<1>4. /\ z.alive = y.alive /\ z.queue = y.queue /\ z.refs = y.refs /\ z.holders = y.holders
      /\ z.results = y.results /\ z.next_cmd_id = y.next_cmd_id /\ z.rewritten = y.rewritten
      /\ z.timeout_watch = y.timeout_watch /\ z.write_watch = y.write_watch
  BY <1>2 DEF Fields
<1>5. Life(z) /\ Queue(z) /\ Waiting(z) /\ Answered(z) /\ Watches(z) /\ Counted(z)
  BY <1>4 DEF Local, Life, Queue, Waiting, Answered, Watches, Counted, ToWrite, Written
<1> QED
  BY <1>2, <1>3, <1>5 DEF Local

LEMMA WireLocal ==
  ASSUME NEW y, Local(y), NEW m \in Messages
  PROVE  LET z == [y EXCEPT !.wire = Append(y.wire, m)]
         IN  Local(z) /\ z.wire = Append(y.wire, m) /\ \A f \in Fields \ {"wire"} : z[f] = y[f]
<1> DEFINE a == Append(y.wire, m)
<1>1. a \in Seq(Messages)
  BY AppendElems DEF Local, Typed
<1> HIDE DEF a
<1>2. LET z == [y EXCEPT !.wire = a]
      IN  Local(z) /\ z.wire = a /\ \A f \in Fields \ {"wire"} : z[f] = y[f]
  BY <1>1, NewWire
<1> QED
  BY <1>2 DEF a

\* The response at the head of x's queue goes to y.
LEMMA WriteResponse ==
  ASSUME NEW x, NEW y, Pair(x, y), x.alive, x.write_watch, x.queue # << >>,
         x.queue[1].kind = "response", NEW m \in Messages, m.kind = "response",
         m.id = x.queue[1].id
  PROVE  Pair(g_attrib_unref([x EXCEPT !.queue = Tail(x.queue)]),
              [y EXCEPT !.wire = Append(y.wire, m)])
<1> DEFINE q == Tail(x.queue)
           v == [x EXCEPT !.queue = q]
           u == g_attrib_unref(v)
           z == [y EXCEPT !.wire = Append(y.wire, m)]
<1>1. Local(x) /\ Local(y) /\ Flight(x, y) /\ Flight(y, x)
  BY DEF Pair
<1>2. Typed(x) /\ Life(x) /\ Queue(x) /\ Waiting(x) /\ Answered(x) /\ Watches(x) /\ Counted(x)
  BY <1>1 DEF Local
<1>3. Local(z) /\ z.wire = Append(y.wire, m) /\ \A f \in Fields \ {"wire"} : z[f] = y[f]
  BY <1>1, WireLocal
<1>4. q = Tail(x.queue)
  OBVIOUS
<1> HIDE DEF z, q
<1>5. IsEnd(v) /\ v.queue = q /\ \A f \in Fields \ {"queue"} : v[f] = x[f]
  BY <1>2 DEF Typed, IsEnd, Fields
<1> HIDE DEF v
<1>6. /\ v.alive = x.alive /\ v.refs = x.refs /\ v.holders = x.holders /\ v.wire = x.wire
      /\ v.results = x.results /\ v.next_cmd_id = x.next_cmd_id /\ v.rewritten = x.rewritten
      /\ v.timeout_watch = x.timeout_watch /\ v.write_watch = x.write_watch
  BY <1>5 DEF Fields
<1>7. /\ v.queue \in Seq(Packets) /\ Len(v.queue) = Len(x.queue) - 1
      /\ Queue(v) /\ Waiting(v) /\ ~Written(v) /\ 1 \in DOMAIN x.queue
      /\ Head(x.queue) = x.queue[1]
  <2>1. v.queue = Tail(x.queue)
    BY <1>4, <1>5
  <2> QED
    BY <1>2, <1>6, <2>1, TailQueue
<1>8. Typed(v)
  BY <1>2, <1>5, <1>7 DEF Typed, Fields
<1>9. ~Written(x)
  BY <1>2, <1>7 DEF Queue, Written
<1>10. ~x.timeout_watch
  BY <1>2, <1>9 DEF Watches
<1>11. Watches(v) /\ Answered(v)
  BY <1>2, <1>6, <1>7, <1>10 DEF Watches, Answered
<1>12. v.alive /\ v.refs > 0
  BY <1>2, <1>6 DEF Life
<1>13. ~v.rewritten => v.refs >= v.holders + ToWrite(v) + 1
  <2>1. ToWrite(v) = Len(x.queue) - 1 /\ ToWrite(x) = Len(x.queue) /\ Len(x.queue) \in Nat
    BY <1>2, <1>7, <1>9, ToWriteNat DEF ToWrite
  <2>2. x.refs \in Nat /\ x.holders \in Nat
    BY <1>2 DEF Typed
  <2>3. ~v.rewritten => x.refs >= x.holders + ToWrite(x)
    BY <1>2, <1>6 DEF Counted
  <2>4. ~v.rewritten => x.refs >= x.holders + (Len(x.queue) - 1) + 1
    BY <2>1, <2>2, <2>3
  <2> QED
    BY <1>6, <2>1, <2>4
<1>14. /\ Local(u) /\ u.wire = v.wire
       /\ u.alive => u.queue = v.queue /\ (u.write_watch <=> v.write_watch)
       /\ ~u.alive => u.queue = << >>
  BY <1>7, <1>8, <1>11, <1>12, <1>13, UnrefLocal
<1> HIDE DEF u
<1>15. u.queue = q \/ u.queue = << >>
  BY <1>5, <1>14 DEF Local, Typed
<1>16. z.queue = y.queue /\ z.alive = y.alive /\ z.write_watch = y.write_watch
  BY <1>3 DEF Fields
<1>17. x.queue \in Seq(Packets) /\ y.wire \in Seq(Messages)
  BY <1>1, <1>2 DEF Local, Typed
<1>18. Flight(u, z)
  <2>1. Keeps(y.wire, z.wire, "request")
    <3>1. m.kind # "request"
      OBVIOUS
    <3> QED
      BY <1>3, <1>17, <3>1, NoneAppend DEF Keeps
  <2>2. Keeps(x.wire, u.wire, "response") /\ AtMost(y.queue, z.queue, "response")
    BY <1>6, <1>14, <1>16, KeepsSame
  <2> QED
    BY <1>1, <1>9, <2>1, <2>2, FlightKept
<1>19. Flight(z, u)
  <2> SUFFICES ASSUME y.alive
               PROVE  Written(z) /\ ~z.write_watch /\ InFlight(z, u, z.queue[1].id)
    BY <1>16 DEF Flight
  <2>1. ~NoneIn(x.queue, "response")
    BY <1>7 DEF NoneIn
  <2>2. Written(y) /\ ~y.write_watch /\ Served(y, x, y.queue[1].id)
    BY <1>1, <2>1 DEF Flight, Quiet, InFlight, Requested, Served, Replied
  <2> DEFINE i == y.queue[1].id
  <2>3. NoneIn(x.wire, "request") /\ OneIn(x.queue, "response", i) /\ NoneIn(y.wire, "response")
    BY <2>2 DEF Served
  <2>4. Written(z) /\ ~z.write_watch /\ z.queue[1].id = i
    BY <1>16, <2>2 DEF Written
  <2> HIDE DEF i
  <2>5. Head(x.queue).id = i /\ NoneIn(q, "response")
    BY <1>4, <1>7, <1>17, <2>3, NoneTail
  <2>6. NoneIn(u.queue, "response")
    BY <1>15, <2>5, NoneEmpty
  <2>7. OneIn(z.wire, "response", i)
    <3>1. OneIn(Append(y.wire, m), "response", m.id)
      BY <1>17, <2>3, OneAppend
    <3> QED
      BY <1>3, <1>7, <2>5, <3>1
  <2>8. NoneIn(u.wire, "request")
    BY <1>6, <1>14, <2>3
  <2>9. InFlight(z, u, i)
    BY <2>6, <2>7, <2>8 DEF InFlight, Replied
  <2> QED
    BY <2>4, <2>9
<1> QED
  BY <1>3, <1>4, <1>14, <1>18, <1>19 DEF Pair, u, v, z, q

\* The request at the head of x's queue goes to y.
LEMMA WriteRequest ==
  ASSUME NEW x, NEW y, Pair(x, y), x.alive, x.write_watch, x.queue # << >>,
         x.queue[1].kind = "request", NEW m \in Messages, m.kind = "request",
         m.id = x.queue[1].id
  PROVE  Pair(g_attrib_unref([x EXCEPT !.queue = [x.queue EXCEPT ![1] = [x.queue[1] EXCEPT !.sent = TRUE]],
                                       !.write_watch = FALSE, !.timeout_watch = TRUE]),
              [y EXCEPT !.wire = Append(y.wire, m)])
<1> DEFINE h == [x.queue[1] EXCEPT !.sent = TRUE]
           q == [x.queue EXCEPT ![1] = h]
           v == [x EXCEPT !.queue = q, !.write_watch = FALSE, !.timeout_watch = TRUE]
           u == g_attrib_unref(v)
           z == [y EXCEPT !.wire = Append(y.wire, m)]
<1>1. Local(x) /\ Local(y) /\ Flight(x, y) /\ Flight(y, x)
  BY DEF Pair
<1>2. Typed(x) /\ Life(x) /\ Queue(x) /\ Waiting(x) /\ Answered(x) /\ Watches(x) /\ Counted(x)
  BY <1>1 DEF Local
<1>3. Local(z) /\ z.wire = Append(y.wire, m) /\ \A f \in Fields \ {"wire"} : z[f] = y[f]
  BY <1>1, WireLocal
<1>4. /\ x.queue \in Seq(Packets) /\ y.wire \in Seq(Messages) /\ 1 \in DOMAIN x.queue
      /\ DOMAIN x.queue = 1..Len(x.queue) /\ Len(x.queue) \in Nat \ {0} /\ x.queue[1] \in Packets
  BY <1>1, <1>2 DEF Local, Typed
<1>5. h \in Packets /\ h.sent /\ h.kind = "request" /\ h.id = x.queue[1].id /\ h.func = x.queue[1].func
  BY <1>4 DEF Packets
<1> HIDE DEF h, z
<1>6. /\ q \in Seq(Packets) /\ DOMAIN q = DOMAIN x.queue /\ Len(q) = Len(x.queue) /\ q[1] = h
      /\ \A k \in DOMAIN x.queue : k # 1 => q[k] = x.queue[k]
  BY <1>4, <1>5
<1> HIDE DEF q
<1>7. /\ IsEnd(v) /\ v.queue = q /\ ~v.write_watch /\ v.write_watch \in BOOLEAN
      /\ v.timeout_watch /\ v.timeout_watch \in BOOLEAN
      /\ \A f \in Fields \ {"queue", "write_watch", "timeout_watch"} : v[f] = x[f]
  BY <1>2 DEF Typed, IsEnd, Fields
<1> HIDE DEF v
<1>8. /\ v.alive = x.alive /\ v.refs = x.refs /\ v.holders = x.holders /\ v.wire = x.wire
      /\ v.results = x.results /\ v.next_cmd_id = x.next_cmd_id /\ v.rewritten = x.rewritten
  BY <1>7 DEF Fields
<1>9. \A k \in DOMAIN x.queue : /\ q[k].kind = x.queue[k].kind /\ q[k].id = x.queue[k].id
                                /\ q[k].func = x.queue[k].func /\ (k # 1 => q[k] = x.queue[k])
  BY <1>5, <1>6
<1>10. Queue(v)
  <2>1. \A k \in DOMAIN q : /\ q[k].func => q[k].kind = "request"
                            /\ q[k].sent => k = 1 /\ q[k].kind = "request"
    <3> SUFFICES ASSUME NEW k \in DOMAIN q
                 PROVE  /\ q[k].func => q[k].kind = "request"
                        /\ q[k].sent => k = 1 /\ q[k].kind = "request"
      OBVIOUS
    <3>1. CASE k = 1
      BY <1>5, <1>6, <3>1
    <3>2. CASE k # 1
      BY <1>2, <1>6, <3>2 DEF Queue
    <3> QED
      BY <3>1, <3>2
  <2> QED
    BY <1>7, <2>1 DEF Queue
<1>11. Waiting(v)
  BY <1>2, <1>6, <1>7, <1>8, <1>9 DEF Waiting
<1>12. Typed(v)
  BY <1>2, <1>6, <1>7 DEF Typed, Fields
<1>13. Written(v) /\ q # << >>
  BY <1>4, <1>5, <1>6, <1>7 DEF Written
<1>14. Watches(v) /\ Answered(v)
  BY <1>2, <1>7, <1>8, <1>13 DEF Watches, Answered
<1>15. v.alive /\ v.refs > 0
  BY <1>2, <1>8 DEF Life
<1>16. ~v.rewritten => v.refs >= v.holders + ToWrite(v) + 1
  <2> SUFFICES ASSUME ~v.rewritten PROVE x.refs >= x.holders + ToWrite(v) + 1
    BY <1>8
  <2>1. ~Written(x)
    BY <1>2, <1>8 DEF Watches
  <2>2. ToWrite(x) = Len(x.queue) /\ ToWrite(v) = Len(x.queue) - 1
    BY <1>6, <1>7, <1>13, <2>1 DEF ToWrite
  <2>3. x.refs \in Nat /\ x.holders \in Nat
    BY <1>2 DEF Typed
  <2>4. x.refs >= x.holders + Len(x.queue)
    BY <1>2, <1>8, <2>2 DEF Counted
  <2>5. x.refs >= x.holders + (Len(x.queue) - 1) + 1
    BY <1>4, <2>3, <2>4
  <2> QED
    BY <2>2, <2>5
<1>17. /\ Local(u) /\ u.wire = v.wire
       /\ u.alive => u.queue = v.queue /\ (u.write_watch <=> v.write_watch)
       /\ ~u.alive => u.queue = << >>
  BY <1>10, <1>11, <1>12, <1>14, <1>15, <1>16, UnrefLocal
<1> HIDE DEF u
<1>18. u.queue = q \/ u.queue = << >>
  BY <1>7, <1>17 DEF Local, Typed
<1>19. z.queue = y.queue /\ z.alive = y.alive /\ z.write_watch = y.write_watch
  BY <1>3 DEF Fields
<1>20. Flight(z, u)
  <2>1. Keeps(y.wire, z.wire, "response")
    BY <1>3, <1>4, KeepsAppend
  <2>2. Keeps(x.queue, q, "response")
    BY <1>6, <1>9, SameKinds DEF Keeps
  <2>3. AtMost(x.queue, u.queue, "response")
    BY <1>18, <2>2, KeepsSame, KeepsAtMost
  <2>4. Keeps(x.wire, u.wire, "request")
    BY <1>8, <1>17, KeepsSame
  <2>5. z.alive /\ Written(y) /\ ~y.write_watch
          => Written(z) /\ ~z.write_watch /\ z.queue[1].id = y.queue[1].id
    BY <1>19 DEF Written
  <2>6. z.alive => y.alive
    BY <1>19
  <2> QED
    BY <1>1, <2>1, <2>3, <2>4, <2>5, <2>6, FlightKept
<1>21. Flight(u, z)
  <2> SUFFICES ASSUME u.alive
               PROVE  Written(u) /\ ~u.write_watch /\ InFlight(u, z, u.queue[1].id)
    BY DEF Flight
  <2>1. Quiet(x, y)
    BY <1>1 DEF Flight
  <2>2. NoneIn(y.wire, "request") /\ NoneIn(y.queue, "response") /\ NoneIn(x.wire, "response")
    BY <2>1 DEF Quiet
  <2>3. u.queue = q /\ ~u.write_watch
    BY <1>7, <1>17
  <2>4. Written(u) /\ u.queue[1].id = m.id
    BY <1>5, <1>6, <1>13, <2>3 DEF Written
  <2>5. OneIn(z.wire, "request", m.id)
    <3>1. OneIn(Append(y.wire, m), "request", m.id)
      BY <1>4, <2>2, OneAppend
    <3> QED
      BY <1>3, <3>1
  <2>6. InFlight(u, z, m.id)
    BY <1>8, <1>17, <1>19, <2>2, <2>5 DEF InFlight, Requested
  <2> QED
    BY <2>3, <2>4, <2>6
<1> QED
  BY <1>3, <1>17, <1>20, <1>21 DEF Pair, u, v, z, q, h

LEMMA WriteGood ==
  ASSUME IInv, NEW e \in Ends, can_write_data(e)
  PROVE  IInv'
<1> DEFINE x == t[e]
           y == t[Other(e)]
           head == Head(x.queue)
           m == [kind |-> head.kind, id |-> head.id]
           z == [y EXCEPT !.wire = Append(y.wire, m)]
<1>1. Pair(x, y) /\ Typed(x) /\ x.alive /\ x.write_watch
  BY PairOf DEF can_write_data, Pair, Local
<1>2. Other(e) \in Ends /\ Other(e) # e
  BY OtherEnd
<1>3. CASE x.queue = << >>
  <2> DEFINE u == [x EXCEPT !.write_watch = FALSE]
  <2>1. t' = [t EXCEPT ![e] = u]
    BY <1>3 DEF can_write_data, IInv
  <2>2. y = t[Other(e)]
    OBVIOUS
  <2> HIDE DEF x, y
  <2>3. /\ IsEnd(u) /\ ~u.write_watch /\ u.write_watch \in BOOLEAN
        /\ \A f \in Fields \ {"write_watch"} : u[f] = x[f]
    BY <1>1 DEF Typed, IsEnd, Fields
  <2> HIDE DEF u
  <2>4. Typed(u)
    BY <1>1, <2>3 DEF Typed, Fields
  <2>5. /\ u.alive = x.alive /\ u.refs = x.refs /\ u.holders = x.holders /\ u.wire = x.wire
        /\ u.results = x.results /\ u.next_cmd_id = x.next_cmd_id /\ u.rewritten = x.rewritten
        /\ u.queue = x.queue /\ u.timeout_watch = x.timeout_watch
    BY <2>3 DEF Fields
  <2>6. Life(u) /\ Queue(u) /\ Waiting(u) /\ Answered(u) /\ Counted(u)
    BY <1>1, <2>5 DEF Pair, Local, Life, Queue, Waiting, Answered, Counted, ToWrite, Written
  <2>7. Watches(u)
    BY <1>1, <1>3, <2>3, <2>5 DEF Pair, Local, Watches, Written
  <2>8. Flight(u, y)
    BY <1>1, <1>3, <2>5 DEF Pair, Flight, Written, Quiet, InFlight, Requested, Served, Replied
  <2>9. Flight(y, u)
    BY <1>1, <2>5 DEF Pair, Flight, Written, Quiet, InFlight, Requested, Served, Replied
  <2>10. Pair(u, y)
    BY <1>1, <2>4, <2>6, <2>7, <2>8, <2>9 DEF Pair, Local
  <2> QED
    BY <2>1, <2>2, <2>10, OneStep
<1>4. CASE x.queue # << >>
  <2>1. x.queue[1] \in Packets /\ head = x.queue[1]
    BY <1>1, <1>4 DEF Typed
  <2>2. m \in Messages /\ m.kind = x.queue[1].kind /\ m.id = x.queue[1].id /\ x.queue[1].kind \in Kinds
    BY <2>1 DEF Messages, Packets
  <2>3. CASE x.queue[1].kind = "response"
    <3> DEFINE u == g_attrib_unref([x EXCEPT !.queue = Tail(x.queue)])
    <3>1. t' = [t EXCEPT ![e] = u, ![Other(e)] = z]
      <4>1. head.kind = "response"
        BY <2>1, <2>3
      <4> QED
        BY <1>2, <1>4, <4>1 DEF can_write_data, IInv
    <3>2. Pair(u, z)
      <4> HIDE DEF x, y, m
      <4> QED
        BY <1>1, <1>4, <2>2, <2>3, WriteResponse
    <3> HIDE DEF u, z
    <3> QED
      BY <3>1, <3>2, BothStep
  <2>4. CASE x.queue[1].kind = "request"
    <3> DEFINE u == g_attrib_unref([x EXCEPT !.queue = [x.queue EXCEPT ![1] = [x.queue[1] EXCEPT !.sent = TRUE]],
                                             !.write_watch = FALSE, !.timeout_watch = TRUE])
    <3>1. t' = [t EXCEPT ![e] = u, ![Other(e)] = z]
      <4>1. head.kind # "response"
        BY <2>1, <2>4
      <4>2. [x EXCEPT !.queue[1].sent = TRUE, !.write_watch = FALSE, !.timeout_watch = TRUE]
            = [x EXCEPT !.queue = [x.queue EXCEPT ![1] = [x.queue[1] EXCEPT !.sent = TRUE]],
                        !.write_watch = FALSE, !.timeout_watch = TRUE]
        OBVIOUS
      <4> QED
        BY <1>2, <1>4, <4>1, <4>2 DEF can_write_data, IInv
    <3>2. Pair(u, z)
      <4> HIDE DEF x, y, m
      <4> QED
        BY <1>1, <1>4, <2>2, <2>4, WriteRequest
    <3> HIDE DEF u, z
    <3> QED
      BY <3>1, <3>2, BothStep
  <2> QED
    BY <2>2, <2>3, <2>4 DEF Kinds
<1> QED
  BY <1>3, <1>4

-----------------------------------------------------------------------------
(* Receiving.                                                              *)

LEMMA ReceiveRequestGood ==
  ASSUME IInv, NEW e \in Ends, ReceiveRequest(e)
  PROVE  IInv'
<1> DEFINE x == t[e]
           y == t[Other(e)]
           a == Tail(x.wire)
           i == Head(x.wire).id
           v == [x EXCEPT !.wire = a]
           p == Packet("response", i)
           u == g_attrib_send(v, p, FALSE)
<1>1. Pair(x, y) /\ Typed(x)
  BY PairOf DEF Pair, Local
<1>2. /\ x.alive /\ x.wire # << >> /\ Head(x.wire).kind = "request"
      /\ t' = [t EXCEPT ![e] = u] /\ y = t[Other(e)]
  BY DEF ReceiveRequest
<1> HIDE DEF x, y
<1>3. /\ a \in Seq(Messages) /\ x.wire \in Seq(Messages) /\ Head(x.wire) \in Messages
      /\ Head(x.wire) = x.wire[1] /\ 1 \in DOMAIN x.wire
  <2>1. x.wire \in Seq(Messages)
    BY <1>1 DEF Typed
  <2>2. /\ Tail(x.wire) \in Seq(Messages) /\ Head(x.wire) = x.wire[1] /\ x.wire[1] \in Messages
        /\ DOMAIN x.wire = 1..Len(x.wire) /\ Len(x.wire) \in Nat \ {0}
    BY <1>2, <2>1, TailElems
  <2> QED
    BY <2>1, <2>2
<1>4. i \in Nat
  BY <1>3 DEF Messages
<1>5. p \in Packets /\ p.kind = "response" /\ p.id = i /\ ~p.sent /\ ~p.func
  BY <1>4 DEF Packet, Packets, Kinds
<1>6. a = Tail(x.wire) /\ i = Head(x.wire).id
  OBVIOUS
<1> HIDE DEF a, i, p
<1>7. Local(v) /\ v.wire = a /\ \A f \in Fields \ {"wire"} : v[f] = x[f]
  BY <1>1, <1>3, NewWire DEF Pair
<1> HIDE DEF v
<1>8. v.alive = x.alive /\ v.queue = x.queue /\ v.write_watch = x.write_watch
  BY <1>7 DEF Fields
<1>9. /\ Local(u) /\ u.alive /\ u.queue = Append(v.queue, p) /\ u.wire = v.wire
      /\ Written(u) <=> Written(v)
      /\ v.queue # << >> => u.queue[1] = v.queue[1] /\ (u.write_watch <=> v.write_watch)
  <2>1. v.alive /\ p.kind # "request"
    BY <1>2, <1>5, <1>8
  <2> QED
    BY <1>5, <1>7, <2>1, SendLocal
<1> HIDE DEF u
<1>10. Flight(u, y)
  <2>1. Keeps(x.wire, u.wire, "response")
    <3>1. Head(x.wire).kind # "response"
      BY <1>2
    <3>2. u.wire = Tail(x.wire)
      BY <1>6, <1>7, <1>9
    <3> QED
      BY <1>2, <1>3, <3>1, <3>2, NoneTail DEF Keeps
  <2>2. Keeps(y.wire, y.wire, "request") /\ AtMost(y.queue, y.queue, "response")
    BY KeepsSame
  <2>3. Written(x) /\ ~x.write_watch => Written(u) /\ ~u.write_watch /\ u.queue[1].id = x.queue[1].id
    BY <1>8, <1>9 DEF Written
  <2>4. Flight(x, y)
    BY <1>1 DEF Pair
  <2> QED
    BY <1>2, <2>1, <2>2, <2>3, <2>4, FlightKept
<1>11. Flight(y, u)
  <2> SUFFICES ASSUME y.alive
               PROVE  Written(y) /\ ~y.write_watch /\ InFlight(y, u, y.queue[1].id)
    BY DEF Flight
  <2>1. ~NoneIn(x.wire, "request")
    BY <1>2, <1>3 DEF NoneIn
  <2>2. Written(y) /\ ~y.write_watch /\ Requested(y, x, y.queue[1].id)
    BY <1>1, <2>1 DEF Pair, Flight, Quiet, InFlight, Requested, Served, Replied
  <2> DEFINE j == y.queue[1].id
  <2>3. OneIn(x.wire, "request", j) /\ NoneIn(x.queue, "response") /\ NoneIn(y.wire, "response")
    BY <2>2 DEF Requested
  <2> HIDE DEF j
  <2>4. i = j /\ NoneIn(a, "request")
    BY <1>2, <1>3, <1>6, <2>3, NoneTail
  <2>5. x.queue \in Seq(Packets)
    BY <1>1 DEF Typed
  <2>6. OneIn(Append(x.queue, p), "response", p.id)
    BY <1>5, <2>3, <2>5, OneAppend
  <2>7. InFlight(y, u, j)
    BY <1>5, <1>7, <1>8, <1>9, <2>3, <2>4, <2>6 DEF InFlight, Served
  <2> QED
    BY <2>2, <2>7 DEF j
<1>12. Pair(u, y)
  BY <1>1, <1>9, <1>10, <1>11 DEF Pair
<1> QED
  BY <1>2, <1>12, OneStep

\* A response has arrived: it is the one to the request at the head, and nothing
\* more is under way.
LEMMA ResponseFits ==
  ASSUME NEW x, NEW y, Pair(x, y), x.alive, x.wire # << >>, Head(x.wire).kind = "response"
  PROVE  /\ Written(x) /\ ~x.write_watch /\ Head(x.wire).id = x.queue[1].id
         /\ x.queue[1].kind = "request" /\ 1 \in DOMAIN x.queue /\ Head(x.queue) = x.queue[1]
         /\ Tail(x.wire) \in Seq(Messages) /\ NoneIn(Tail(x.wire), "response")
         /\ NoneIn(y.wire, "request") /\ NoneIn(y.queue, "response")
         /\ Keeps(x.wire, Tail(x.wire), "request")
<1>1. Typed(x) /\ Queue(x) /\ Flight(x, y)
  BY DEF Pair, Local
<1>2. x.wire \in Seq(Messages) /\ x.queue \in Seq(Packets)
  BY <1>1 DEF Typed
<1>3. /\ Tail(x.wire) \in Seq(Messages) /\ Head(x.wire) = x.wire[1]
      /\ DOMAIN x.wire = 1..Len(x.wire) /\ Len(x.wire) \in Nat \ {0}
  BY <1>2, TailElems
<1>4. 1 \in DOMAIN x.wire
  BY <1>3
<1>5. ~NoneIn(x.wire, "response")
  BY <1>3, <1>4 DEF NoneIn
<1>6. Written(x) /\ ~x.write_watch /\ Replied(x, y, x.queue[1].id)
  BY <1>1, <1>5 DEF Flight, Quiet, InFlight, Requested, Served, Replied
<1> DEFINE i == x.queue[1].id
<1>7. /\ NoneIn(y.wire, "request") /\ NoneIn(y.queue, "response") /\ OneIn(x.wire, "response", i)
  BY <1>6 DEF Replied
<1> HIDE DEF i
<1>8. Head(x.wire).id = i /\ NoneIn(Tail(x.wire), "response")
  BY <1>2, <1>7, NoneTail
<1>9. 1 \in DOMAIN x.queue /\ Head(x.queue) = x.queue[1]
  BY <1>2, <1>6 DEF Written
<1>10. x.queue[1].kind = "request"
  BY <1>1, <1>6, <1>9 DEF Queue, Written
<1>11. Keeps(x.wire, Tail(x.wire), "request")
  <2> DEFINE k == "request"
  <2>1. Head(x.wire).kind # k
    OBVIOUS
  <2> HIDE DEF k
  <2>2. Keeps(x.wire, Tail(x.wire), k)
    BY <1>2, <2>1, NoneTail DEF Keeps
  <2> QED
    BY <2>2 DEF k
<1> QED
  BY <1>3, <1>6, <1>7, <1>8, <1>9, <1>10, <1>11 DEF i

LEMMA ElevateGood ==
  ASSUME IInv, NEW e \in Ends, Elevate(e)
  PROVE  IInv'
<1> DEFINE x == t[e]
           y == t[Other(e)]
           a == Tail(x.wire)
           n == x.level + 1
           v == [x EXCEPT !.wire = a, !.timeout_watch = FALSE, !.level = n, !.rewritten = TRUE]
           u == [v EXCEPT !.write_watch = TRUE]
<1>1. Pair(x, y) /\ Typed(x)
  BY PairOf DEF Pair, Local
<1>2. /\ x.alive /\ x.wire # << >> /\ Head(x.wire).kind = "response"
      /\ t' = [t EXCEPT ![e] = u] /\ y = t[Other(e)]
  BY DEF Elevate, wake_up_sender
<1> HIDE DEF x, y
<1>3. /\ Written(x) /\ a \in Seq(Messages) /\ NoneIn(a, "response")
      /\ NoneIn(y.wire, "request") /\ NoneIn(y.queue, "response")
      /\ Keeps(x.wire, a, "request")
  BY <1>1, <1>2, ResponseFits
<1>4. n \in Nat
  BY <1>1 DEF Typed
<1> HIDE DEF a, n
<1>5. /\ IsEnd(u) /\ u.wire = a /\ u.level = n /\ ~u.timeout_watch /\ u.rewritten /\ u.write_watch
      /\ u.timeout_watch \in BOOLEAN /\ u.rewritten \in BOOLEAN /\ u.write_watch \in BOOLEAN
      /\ \A f \in Fields \ {"wire", "level", "timeout_watch", "rewritten", "write_watch"} : u[f] = x[f]
  BY <1>1 DEF Typed, IsEnd, Fields
<1> HIDE DEF u
<1>6. Typed(u)
  BY <1>1, <1>3, <1>4, <1>5 DEF Typed, Fields
<1>7. /\ u.alive = x.alive /\ u.queue = x.queue /\ u.refs = x.refs
      /\ u.results = x.results /\ u.next_cmd_id = x.next_cmd_id
  BY <1>5 DEF Fields
<1>8. Life(u) /\ Queue(u) /\ Waiting(u) /\ Answered(u)
  BY <1>1, <1>7 DEF Pair, Local, Life, Queue, Waiting, Answered
<1>9. Watches(u) /\ Counted(u)
  BY <1>5 DEF Watches, Counted
<1>10. Flight(u, y)
  BY <1>3, <1>5 DEF Flight, Quiet
<1>11. Flight(y, u)
  <2>1. AtMost(x.queue, u.queue, "response") /\ Keeps(y.wire, y.wire, "response")
    BY <1>7, KeepsSame
  <2>2. Keeps(x.wire, u.wire, "request")
    BY <1>3, <1>5
  <2>3. Flight(y, x)
    BY <1>1 DEF Pair
  <2> QED
    BY <2>1, <2>2, <2>3, FlightKept
<1>12. Pair(u, y)
  BY <1>1, <1>6, <1>8, <1>9, <1>10, <1>11 DEF Pair, Local
<1> QED
  BY <1>2, <1>12, OneStep

\* An end whose queue holds nothing written, and that is watched for writing when
\* it holds something.
LEMMA Woken ==
  ASSUME NEW v, Typed(v), v.alive, v.refs > 0, Queue(v), Waiting(v), Answered(v), ~Written(v),
         ~v.timeout_watch, ~v.rewritten => v.refs >= v.holders + Len(v.queue),
         NEW u, IsEnd(u), \A f \in Fields \ {"write_watch"} : u[f] = v[f],
         u.write_watch \in BOOLEAN, v.queue # << >> => u.write_watch
  PROVE  Local(u) /\ u.alive
<1>1. /\ u.alive = v.alive /\ u.queue = v.queue /\ u.refs = v.refs /\ u.holders = v.holders
      /\ u.results = v.results /\ u.next_cmd_id = v.next_cmd_id /\ u.rewritten = v.rewritten
      /\ u.timeout_watch = v.timeout_watch
  BY DEF Fields
<1>2. Typed(u)
  BY DEF Typed, Fields
<1>3. Life(u) /\ Queue(u) /\ Waiting(u) /\ Answered(u) /\ u.alive
  BY <1>1 DEF Life, Queue, Waiting, Answered
<1>4. Watches(u)
  BY <1>1 DEF Watches, Written
<1>5. Counted(u)
  BY <1>1 DEF Counted, ToWrite, Written
<1> QED
  BY <1>2, <1>3, <1>4, <1>5 DEF Local

\* x without the request at its head, which the response m has answered.
AfterResponse(x, m) ==
  [x EXCEPT !.wire = Tail(x.wire), !.timeout_watch = FALSE, !.queue = Tail(x.queue),
            !.results = IF x.queue[1].func THEN Append(x.results, <<x.queue[1].id, m.id>>)
                        ELSE x.results]

LEMMA Popped ==
  ASSUME NEW x, NEW y, Pair(x, y), x.alive, x.wire # << >>, Head(x.wire).kind = "response"
  PROVE  LET v == AfterResponse(x, Head(x.wire))
         IN  /\ Typed(v) /\ v.alive /\ v.refs > 0 /\ Queue(v) /\ Waiting(v) /\ Answered(v)
             /\ ~Written(v) /\ ~v.timeout_watch
             /\ \A k \in DOMAIN v.queue : ~v.queue[k].sent
             /\ ~v.rewritten => v.refs >= v.holders + Len(v.queue)
             /\ v.wire = Tail(x.wire) /\ v.queue = Tail(x.queue)
             /\ v.next_cmd_id = x.next_cmd_id /\ v.refs = x.refs
<1> DEFINE m == Head(x.wire)
           h == x.queue[1]
           a == Tail(x.wire)
           q == Tail(x.queue)
           r == IF h.func THEN Append(x.results, <<h.id, m.id>>) ELSE x.results
           v == [x EXCEPT !.wire = a, !.timeout_watch = FALSE, !.queue = q, !.results = r]
           o == [x EXCEPT !.queue = q]
<1>1. Typed(x) /\ Life(x) /\ Queue(x) /\ Waiting(x) /\ Answered(x) /\ Watches(x) /\ Counted(x)
  BY DEF Pair, Local
<1>2. /\ Written(x) /\ m.id = h.id /\ h.kind = "request" /\ 1 \in DOMAIN x.queue
      /\ a \in Seq(Messages)
  BY ResponseFits
<1>3. v = AfterResponse(x, m)
  BY DEF AfterResponse
<1>4. x.queue # << >> /\ x.queue[1].sent
  BY <1>2 DEF Written
<1>5. IsEnd(o) /\ o.queue = q /\ \A f \in Fields \ {"queue"} : o[f] = x[f]
  BY <1>1 DEF Typed, IsEnd, Fields
<1>6. q = Tail(x.queue) /\ a = Tail(x.wire)
  OBVIOUS
<1> HIDE DEF o, q, a
<1>7. o.next_cmd_id = x.next_cmd_id /\ o.results = x.results
  BY <1>5 DEF Fields
<1>8. /\ o.queue \in Seq(Packets) /\ Len(o.queue) = Len(x.queue) - 1
      /\ Queue(o) /\ Waiting(o) /\ ~Written(o) /\ x.queue[1] \in Packets
      /\ \A k \in DOMAIN o.queue : o.queue[k].kind = "request" /\ x.queue[1].kind = "request"
                                      => o.queue[k].id # x.queue[1].id
      /\ \A k \in DOMAIN o.queue : ~o.queue[k].sent
  <2>1. o.queue = Tail(x.queue)
    BY <1>5, <1>6
  <2> QED
    BY <1>1, <1>4, <1>7, <2>1, TailQueue
<1>9. /\ \A k \in DOMAIN x.results : x.results[k][1] # h.id
      /\ h.id <= x.next_cmd_id /\ h.id \in Nat
  <2>1. \A k \in DOMAIN x.results : x.results[k][1] # h.id
    BY <1>1, <1>2 DEF Waiting
  <2>2. h.id <= x.next_cmd_id
    BY <1>1, <1>2 DEF Waiting
  <2>3. h.id \in Nat
    BY <1>8 DEF Packets
  <2> QED
    BY <2>1, <2>2, <2>3
<1>10. /\ \A k \in DOMAIN q : q[k].kind = "request" => q[k].id # h.id
       /\ \A k \in DOMAIN q : ~q[k].sent
  BY <1>2, <1>5, <1>8
<1>11. m.id = h.id
  BY <1>2
<1> HIDE DEF h, m
<1>12. /\ r \in Seq(Nat \X Nat) /\ DOMAIN x.results = 1..Len(x.results)
       /\ \A k \in DOMAIN r :
            \/ k \in DOMAIN x.results /\ r[k] = x.results[k]
            \/ k \notin DOMAIN x.results /\ k = Len(x.results) + 1 /\ r[k][1] = h.id /\ r[k][2] = h.id
  <2>1. x.results \in Seq(Nat \X Nat) /\ DOMAIN x.results = 1..Len(x.results) /\ Len(x.results) \in Nat
    BY <1>1 DEF Typed
  <2>2. CASE h.func
    <3> DEFINE b == <<h.id, m.id>>
    <3>1. b \in Nat \X Nat /\ b[1] = h.id /\ b[2] = h.id
      BY <1>9, <1>11
    <3>2. r = Append(x.results, b)
      BY <2>2
    <3> HIDE DEF b
    <3>3. /\ r \in Seq(Nat \X Nat) /\ DOMAIN r = 1..Len(x.results) + 1
          /\ \A k \in 1..Len(x.results) : r[k] = x.results[k]
          /\ r[Len(x.results) + 1] = b
      BY <2>1, <3>1, <3>2, AppendElems
    <3> HIDE DEF r
    <3>4. ASSUME NEW k \in DOMAIN r
          PROVE  \/ k \in DOMAIN x.results /\ r[k] = x.results[k]
                 \/ k \notin DOMAIN x.results /\ r[k] = b /\ k = Len(x.results) + 1
      <4> DEFINE n == Len(x.results)
                 d == DOMAIN x.results
      <4>1. n \in Nat /\ d = 1..n /\ DOMAIN r = 1..n + 1 /\ r[n + 1] = b
        BY <2>1, <3>3
      <4>2. \A l \in d : r[l] = x.results[l]
        BY <2>1, <3>3
      <4> HIDE DEF n, d
      <4>3. (k \in d /\ r[k] = x.results[k]) \/ (k \notin d /\ r[k] = b /\ k = n + 1)
        BY <4>1, <4>2
      <4> QED
        BY <4>3 DEF n, d
    <3>5. ASSUME NEW k \in DOMAIN r
          PROVE  \/ k \in DOMAIN x.results /\ r[k] = x.results[k]
                 \/ k \notin DOMAIN x.results /\ k = Len(x.results) + 1 /\ r[k][1] = h.id /\ r[k][2] = h.id
      <4>1. CASE k \in DOMAIN x.results
        BY <3>4, <4>1
      <4>2. CASE k \notin DOMAIN x.results
        <5>1. r[k] = b /\ k = Len(x.results) + 1
          BY <3>4, <4>2
        <5> QED
          BY <3>1, <4>2, <5>1
      <4> QED
        BY <4>1, <4>2
    <3> QED
      BY <2>1, <3>3, <3>5
  <2>3. CASE ~h.func
    <3>1. r = x.results
      BY <2>3
    <3> HIDE DEF r
    <3> QED
      BY <2>1, <3>1
  <2> QED
    BY <2>2, <2>3
<1> HIDE DEF r
<1>13. /\ IsEnd(v) /\ v.wire = a /\ v.queue = q /\ v.results = r
       /\ ~v.timeout_watch /\ v.timeout_watch \in BOOLEAN
       /\ \A f \in Fields \ {"wire", "queue", "results", "timeout_watch"} : v[f] = x[f]
  BY <1>1 DEF Typed, IsEnd, Fields
<1>14. v = AfterResponse(x, Head(x.wire))
  BY <1>3 DEF m
<1> HIDE DEF v
<1>15. Typed(v)
  BY <1>1, <1>2, <1>5, <1>8, <1>12, <1>13 DEF Typed, Fields
<1>16. /\ v.alive = x.alive /\ v.refs = x.refs /\ v.holders = x.holders
       /\ v.next_cmd_id = x.next_cmd_id /\ v.rewritten = x.rewritten
  BY <1>13 DEF Fields
<1>17. v.alive /\ v.refs > 0
  BY <1>1, <1>16 DEF Life
<1>18. Queue(v) /\ ~Written(v)
  BY <1>5, <1>8, <1>13 DEF Queue, Written
<1>19. Waiting(v)
  <2>1. \A k \in DOMAIN q : q[k].kind = "request" =>
          /\ q[k].id <= x.next_cmd_id
          /\ \A j \in DOMAIN x.results : x.results[j][1] # q[k].id
    BY <1>5, <1>7, <1>8 DEF Waiting
  <2>2. \A k \in DOMAIN q : q[k].kind = "request" => \A j \in DOMAIN r : r[j][1] # q[k].id
    BY <1>10, <1>12, <2>1
  <2>3. \A j, k \in DOMAIN q :
          q[j].kind = "request" /\ q[k].kind = "request" /\ j # k => q[j].id # q[k].id
    BY <1>5, <1>8 DEF Waiting
  <2> QED
    BY <1>13, <1>16, <2>1, <2>2, <2>3 DEF Waiting
<1>20. Answered(v)
  <2>1. \A k \in DOMAIN r : r[k][1] = r[k][2] /\ r[k][1] <= x.next_cmd_id
    BY <1>1, <1>9, <1>12 DEF Answered
  <2>2. ASSUME NEW j \in DOMAIN r, NEW k \in DOMAIN r, j # k PROVE r[j][1] # r[k][1]
    <3>1. CASE j \in DOMAIN x.results /\ k \in DOMAIN x.results
      <4>1. r[j] = x.results[j] /\ r[k] = x.results[k]
        BY <1>12, <3>1
      <4>2. x.results[j][1] # x.results[k][1]
        BY <1>1, <2>2, <3>1 DEF Answered
      <4> QED
        BY <4>1, <4>2
    <3>2. CASE j \in DOMAIN x.results /\ k \notin DOMAIN x.results
      BY <1>9, <1>12, <3>2
    <3>3. CASE j \notin DOMAIN x.results /\ k \in DOMAIN x.results
      BY <1>9, <1>12, <3>3
    <3>4. CASE j \notin DOMAIN x.results /\ k \notin DOMAIN x.results
      BY <1>12, <2>2, <3>4
    <3> QED
      BY <3>1, <3>2, <3>3, <3>4
  <2> QED
    BY <1>13, <1>16, <2>1, <2>2 DEF Answered
<1>21. ~v.rewritten => v.refs >= v.holders + Len(v.queue)
  <2>1. ToWrite(x) = Len(x.queue) - 1 /\ Len(v.queue) = Len(x.queue) - 1
    BY <1>2, <1>5, <1>8, <1>13 DEF ToWrite
  <2> QED
    BY <1>1, <1>16, <2>1 DEF Counted
<1> QED
  BY <1>6, <1>10, <1>13, <1>14, <1>15, <1>16, <1>17, <1>18, <1>19, <1>20, <1>21

LEMMA PrependQueue ==
  ASSUME NEW v, Typed(v), Queue(v), Waiting(v), \A k \in DOMAIN v.queue : ~v.queue[k].sent,
         NEW p \in Packets, ~p.sent, p.kind = "request", Fresh(v, p.id),
         NEW u, u.queue = <<p>> \o v.queue, u.next_cmd_id = v.next_cmd_id, u.results = v.results
  PROVE  /\ u.queue \in Seq(Packets) /\ Len(u.queue) = Len(v.queue) + 1 /\ u.queue # << >>
         /\ Queue(u) /\ Waiting(u) /\ ~Written(u)
<1> DEFINE q == v.queue
<1>1. q \in Seq(Packets) /\ u.queue = <<p>> \o q
  BY DEF Typed
<1> HIDE DEF q
<1>2. /\ u.queue \in Seq(Packets) /\ Len(u.queue) = Len(q) + 1 /\ u.queue # << >>
      /\ DOMAIN u.queue = 1..Len(q) + 1 /\ DOMAIN q = 1..Len(q) /\ Len(q) \in Nat
      /\ u.queue[1] = p /\ \A k \in 2..Len(q) + 1 : u.queue[k] = q[k - 1]
  <2> DEFINE a == <<p>> \o q
  <2>1. q \in Seq(Packets)
    BY <1>1
  <2>2. /\ a \in Seq(Packets) /\ Len(a) = Len(q) + 1 /\ a # << >>
        /\ DOMAIN a = 1..Len(q) + 1 /\ DOMAIN q = 1..Len(q) /\ Len(q) \in Nat
        /\ a[1] = p /\ \A k \in 2..Len(q) + 1 : a[k] = q[k - 1]
    BY <2>1, PrependElems
  <2>3. u.queue = a
    BY <1>1
  <2> HIDE DEF a
  <2> QED
    BY <2>2, <2>3
<1>3. ASSUME NEW k \in DOMAIN u.queue, k # 1
      PROVE  k \in Nat /\ k - 1 \in DOMAIN q /\ u.queue[k] = q[k - 1]
  <2> DEFINE n == Len(q)
             d == DOMAIN q
  <2>1. n \in Nat /\ d = 1..n /\ k \in 1..n + 1
    BY <1>2
  <2>2. \A j \in 2..n + 1 : u.queue[j] = q[j - 1]
    BY <1>2
  <2> HIDE DEF n, d
  <2>3. k \in Nat /\ k - 1 \in d /\ k \in 2..n + 1
    BY <1>3, <2>1
  <2> QED
    BY <2>2, <2>3 DEF d
<1>4. \A k \in DOMAIN u.queue : ~u.queue[k].sent
  BY <1>2, <1>3 DEF q
<1>5. \A k \in DOMAIN u.queue : u.queue[k].func => u.queue[k].kind = "request"
  <2> SUFFICES ASSUME NEW k \in DOMAIN u.queue, u.queue[k].func PROVE u.queue[k].kind = "request"
    OBVIOUS
  <2>1. CASE k = 1
    BY <1>2, <2>1
  <2>2. CASE k # 1
    BY <1>3, <2>2 DEF Queue, q
  <2> QED
    BY <2>1, <2>2
<1>6. Queue(u)
  BY <1>4, <1>5 DEF Queue
<1>7. ASSUME NEW k \in DOMAIN u.queue, u.queue[k].kind = "request"
      PROVE  /\ u.queue[k].id <= u.next_cmd_id
             /\ \A j \in DOMAIN u.results : u.results[j][1] # u.queue[k].id
  <2>1. CASE k = 1
    BY <1>2, <2>1 DEF Fresh
  <2>2. CASE k # 1
    BY <1>3, <1>7, <2>2 DEF Waiting, q
  <2> QED
    BY <2>1, <2>2
<1>8. ASSUME NEW k \in DOMAIN u.queue, u.queue[k].kind = "request", k # 1
      PROVE  u.queue[k].id # p.id
  BY <1>3, <1>8 DEF Fresh, q
<1>9. ASSUME NEW j \in DOMAIN u.queue, NEW k \in DOMAIN u.queue, u.queue[j].kind = "request",
             u.queue[k].kind = "request", j # k
      PROVE  u.queue[j].id # u.queue[k].id
  <2>1. CASE j = 1
    <3>1. u.queue[k].id # p.id
      BY <1>8, <1>9, <2>1
    <3> QED
      BY <1>2, <2>1, <3>1
  <2>2. CASE k = 1
    <3>1. u.queue[j].id # p.id
      BY <1>8, <1>9, <2>2
    <3> QED
      BY <1>2, <2>2, <3>1
  <2>3. CASE j # 1 /\ k # 1
    <3>1. j \in Nat /\ j - 1 \in DOMAIN q /\ u.queue[j] = q[j - 1]
      BY <1>3, <2>3
    <3>2. k \in Nat /\ k - 1 \in DOMAIN q /\ u.queue[k] = q[k - 1]
      BY <1>3, <2>3
    <3>3. j - 1 # k - 1
      BY <1>9, <3>1, <3>2
    <3>4. q[j - 1].id # q[k - 1].id
      BY <1>9, <3>1, <3>2, <3>3 DEF Waiting, q
    <3> QED
      BY <3>1, <3>2, <3>4
  <2> QED
    BY <2>1, <2>2, <2>3
<1>10. Waiting(u)
  BY <1>7, <1>9 DEF Waiting
<1>11. ~Written(u)
  <2>1. 1 \in DOMAIN u.queue
    BY <1>2
  <2> QED
    BY <1>4, <2>1 DEF Written
<1> QED
  BY <1>2, <1>6, <1>10, <1>11 DEF q

\* After the response nothing of x is under way, and y's request is where it was.
LEMMA AnsweredPair ==
  ASSUME NEW x, NEW y, Pair(x, y), x.alive, x.wire # << >>, Head(x.wire).kind = "response",
         NEW u, Local(u), u.wire = Tail(x.wire), Keeps(x.queue, u.queue, "response")
  PROVE  Pair(u, y)
<1>1. /\ NoneIn(Tail(x.wire), "response") /\ NoneIn(y.wire, "request") /\ NoneIn(y.queue, "response")
      /\ Keeps(x.wire, Tail(x.wire), "request")
  BY ResponseFits
<1>2. Flight(u, y)
  BY <1>1 DEF Flight, Quiet
<1>3. Flight(y, u)
  <2>1. Keeps(y.wire, y.wire, "response") /\ AtMost(x.queue, u.queue, "response")
    BY KeepsSame, KeepsAtMost
  <2>2. Keeps(x.wire, u.wire, "request") /\ Flight(y, x)
    BY <1>1 DEF Pair
  <2> QED
    BY <2>1, <2>2, FlightKept
<1> QED
  BY <1>2, <1>3 DEF Pair

LEMMA ReceiveResponseGood ==
  ASSUME IInv, NEW e \in Ends, NEW more \in BOOLEAN, ReceiveResponse(e, more)
  PROVE  IInv'
<1> DEFINE x == t[e]
           y == t[Other(e)]
           m == Head(x.wire)
           v == AfterResponse(x, m)
           n == x.next_cmd_id + 1
           p == Packet("request", n)
           r == x.refs + 1
           q == <<p>> \o v.queue
           o == [v EXCEPT !.next_cmd_id = n]
           w == [o EXCEPT !.queue = q, !.refs = r]
<1>1. Pair(x, y) /\ Typed(x)
  BY PairOf DEF Pair, Local
<1>2. x.alive /\ x.wire # << >> /\ m.kind = "response" /\ y = t[Other(e)]
  BY DEF ReceiveResponse
<1>3. /\ Written(x) /\ Head(x.queue) = x.queue[1] /\ x.queue[1].kind = "request"
      /\ 1 \in DOMAIN x.queue
  BY <1>1, <1>2, ResponseFits
<1>4. x.queue # << >>
  BY <1>3 DEF Written
<1>5. [[x EXCEPT !.wire = Tail(x.wire), !.timeout_watch = FALSE] EXCEPT
         !.queue = Tail(x.queue),
         !.results = IF x.queue[1].func THEN Append(x.results, <<x.queue[1].id, m.id>>) ELSE x.results]
      = v
  <2> DEFINE f1 == Tail(x.wire)
             f2 == Tail(x.queue)
             f3 == IF x.queue[1].func THEN Append(x.results, <<x.queue[1].id, m.id>>) ELSE x.results
  <2>1. v = [x EXCEPT !.wire = f1, !.timeout_watch = FALSE, !.queue = f2, !.results = f3]
    BY DEF AfterResponse
  <2> SUFFICES [[x EXCEPT !.wire = f1, !.timeout_watch = FALSE] EXCEPT !.queue = f2, !.results = f3] = v
    OBVIOUS
  <2> HIDE DEF f1, f2, f3, m, v, x
  <2> QED
    BY <1>1, <2>1 DEF Typed, IsEnd, Fields
<1>6. /\ Typed(v) /\ v.alive /\ v.refs > 0 /\ Queue(v) /\ Waiting(v) /\ Answered(v)
      /\ ~Written(v) /\ ~v.timeout_watch
      /\ \A k \in DOMAIN v.queue : ~v.queue[k].sent
      /\ ~v.rewritten => v.refs >= v.holders + Len(v.queue)
      /\ v.wire = Tail(x.wire) /\ v.queue = Tail(x.queue)
      /\ v.next_cmd_id = x.next_cmd_id /\ v.refs = x.refs
  BY <1>1, <1>2, Popped
<1>7. \/ ~more /\ v.queue = << >> /\ t' = [t EXCEPT ![e] = v]
      \/ ~more /\ v.queue # << >> /\ t' = [t EXCEPT ![e] = wake_up_sender(v)]
      \/ more /\ \/ t' = [t EXCEPT ![e] = wake_up_sender(g_attrib_send(o, p, TRUE))]
                 \/ v.queue = << >> /\ t' = [t EXCEPT ![e] = g_attrib_send(o, p, TRUE)]
  <2> DEFINE u == [x EXCEPT !.wire = Tail(x.wire), !.timeout_watch = FALSE]
             popped == [u EXCEPT !.queue = Tail(u.queue),
                                 !.results = IF Head(u.queue).func
                                             THEN Append(u.results, <<Head(u.queue).id, m.id>>)
                                             ELSE u.results]
             called == IF more THEN g_attrib_send([popped EXCEPT !.next_cmd_id = popped.next_cmd_id + 1],
                                                  Packet("request", u.next_cmd_id + 1), TRUE)
                       ELSE popped
  <2>1. t' = [t EXCEPT ![e] = IF u.queue = << >> THEN u
                              ELSE IF popped.queue # << >> THEN wake_up_sender(called) ELSE called]
    BY DEF ReceiveResponse
  <2>2. /\ u.queue = x.queue /\ u.results = x.results /\ u.next_cmd_id = x.next_cmd_id
    <3> HIDE DEF x
    <3> QED
      BY <1>1 DEF Typed, IsEnd, Fields
  <2> HIDE DEF u
  <2>3. popped = v
    <3>1. popped = [u EXCEPT !.queue = Tail(x.queue),
                             !.results = IF x.queue[1].func
                                         THEN Append(x.results, <<x.queue[1].id, m.id>>)
                                         ELSE x.results]
      BY <1>3, <2>2
    <3> QED
      BY <1>5, <3>1 DEF u
  <2> HIDE DEF popped
  <2>4. called = IF more THEN g_attrib_send(o, p, TRUE) ELSE v
    BY <1>6, <2>2, <2>3
  <2> HIDE DEF called
  <2>5. t' = [t EXCEPT ![e] = IF v.queue # << >> THEN wake_up_sender(called) ELSE called]
    BY <1>4, <2>1, <2>2, <2>3
  <2>6. CASE more
    <3>1. called = g_attrib_send(o, p, TRUE)
      BY <2>4, <2>6
    <3> HIDE DEF v, o, p
    <3> QED
      BY <2>5, <2>6, <3>1
  <2>7. CASE ~more
    <3>1. called = v
      BY <2>4, <2>7
    <3> HIDE DEF v, o, p
    <3> QED
      BY <2>5, <2>7, <3>1
  <2> QED
    BY <2>6, <2>7
<1>8. Keeps(x.queue, v.queue, "response")
  <2> DEFINE k == "response"
  <2>1. Head(x.queue).kind # k
    BY <1>3
  <2>2. x.queue \in Seq(Packets)
    BY <1>1 DEF Typed
  <2> HIDE DEF k, x, v
  <2>3. Keeps(x.queue, Tail(x.queue), k)
    BY <1>4, <2>1, <2>2, NoneTail DEF Keeps
  <2> QED
    BY <1>6, <2>3 DEF k
<1> HIDE DEF x, y, m, v
<1>9. ASSUME ~more, v.queue = << >>, t' = [t EXCEPT ![e] = v] PROVE IInv'
  <2>1. IsEnd(v) /\ v.write_watch \in BOOLEAN
    BY <1>6 DEF Typed
  <2>2. Local(v)
    BY <1>6, <1>9, <2>1, Woken
  <2>3. Pair(v, y)
    BY <1>1, <1>2, <1>6, <1>8, <2>2, AnsweredPair DEF m
  <2> QED
    BY <1>2, <1>9, <2>3, OneStep
<1>10. ASSUME ~more, t' = [t EXCEPT ![e] = wake_up_sender(v)] PROVE IInv'
  <2> DEFINE u == wake_up_sender(v)
  <2>1. /\ IsEnd(u) /\ u.write_watch /\ u.write_watch \in BOOLEAN
        /\ \A f \in Fields \ {"write_watch"} : u[f] = v[f]
    BY <1>6 DEF wake_up_sender, Typed, IsEnd, Fields
  <2>2. t' = [t EXCEPT ![e] = u]
    BY <1>10
  <2> HIDE DEF u
  <2>3. Local(u)
    BY <1>6, <2>1, Woken
  <2>4. u.wire = Tail(x.wire) /\ u.queue = v.queue
    BY <1>6, <2>1 DEF Fields
  <2>5. Keeps(x.queue, u.queue, "response")
    BY <1>8, <2>4
  <2>6. Pair(u, y)
    BY <1>1, <1>2, <2>3, <2>4, <2>5, AnsweredPair DEF m
  <2> QED
    BY <1>2, <2>2, <2>6, OneStep
<1>11. n \in Nat /\ n > x.next_cmd_id /\ x.next_cmd_id \in Nat /\ r \in Nat /\ r > 0 /\ r = x.refs + 1
  BY <1>1 DEF Typed
<1>12. p \in Packets /\ p.kind = "request" /\ p.id = n /\ ~p.sent
  BY <1>11 DEF Packet, Packets, Kinds
<1> HIDE DEF n, p, r
<1>13. IsEnd(o) /\ o.next_cmd_id = n /\ \A f \in Fields \ {"next_cmd_id"} : o[f] = v[f]
  BY <1>6 DEF Typed, IsEnd, Fields
<1>14. g_attrib_send(o, p, TRUE) = IF Len(w.queue) = 1 THEN wake_up_sender(w) ELSE w
  <2>1. o.queue = v.queue /\ o.refs = x.refs
    BY <1>6, <1>13 DEF Fields
  <2> HIDE DEF o
  <2>2. w = [o EXCEPT !.queue = <<p>> \o o.queue, !.refs = o.refs + 1]
    BY <2>1 DEF r
  <2> HIDE DEF w
  <2> QED
    BY <2>2 DEF g_attrib_send
<1>15. /\ o.queue = v.queue /\ o.results = v.results /\ o.wire = v.wire /\ o.alive = v.alive
       /\ o.rewritten = v.rewritten /\ o.holders = v.holders /\ o.timeout_watch = v.timeout_watch
       /\ o.refs = v.refs
  BY <1>13 DEF Fields
<1>16. Typed(o)
  BY <1>6, <1>11, <1>13 DEF Typed, Fields
<1> HIDE DEF o
<1>17. \A k \in DOMAIN v.queue : v.queue[k].id \in Nat
  <2>1. \A k \in DOMAIN v.queue : v.queue[k] \in Packets
    BY <1>6 DEF Typed
  <2> QED
    BY <2>1 DEF Packets
<1>18. \A k \in DOMAIN v.results : v.results[k][1] \in Nat
  BY <1>6 DEF Typed
<1>19. Queue(o) /\ Waiting(o) /\ Answered(o)
  BY <1>6, <1>11, <1>13, <1>15, <1>17, <1>18 DEF Queue, Waiting, Answered
<1>20. Fresh(o, p.id)
  BY <1>6, <1>11, <1>12, <1>13, <1>15, <1>17, <1>18 DEF Waiting, Answered, Fresh
<1>21. q = <<p>> \o v.queue
  OBVIOUS
<1> HIDE DEF q
<1>22. IsEnd(w) /\ w.queue = q /\ w.refs = r /\ \A f \in Fields \ {"queue", "refs"} : w[f] = o[f]
  BY <1>13 DEF IsEnd, Fields
<1> HIDE DEF w
<1>23. /\ w.results = o.results /\ w.next_cmd_id = o.next_cmd_id /\ w.wire = o.wire
       /\ w.alive = o.alive /\ w.rewritten = o.rewritten /\ w.holders = o.holders
       /\ w.timeout_watch = o.timeout_watch
  BY <1>22 DEF Fields
<1>24. /\ w.queue \in Seq(Packets) /\ Len(w.queue) = Len(o.queue) + 1 /\ w.queue # << >>
       /\ Queue(w) /\ Waiting(w) /\ ~Written(w)
  <2>1. w.queue = <<p>> \o o.queue
    BY <1>15, <1>21, <1>22
  <2>2. \A k \in DOMAIN o.queue : ~o.queue[k].sent
    BY <1>6, <1>15
  <2> QED
    BY <1>12, <1>16, <1>19, <1>20, <1>23, <2>1, <2>2, PrependQueue
<1>25. Typed(w)
  BY <1>11, <1>16, <1>22, <1>24 DEF Typed, Fields
<1>26. Answered(w)
  BY <1>19, <1>23 DEF Answered
<1>27. w.alive /\ w.refs > 0 /\ ~w.timeout_watch
  BY <1>6, <1>11, <1>15, <1>22, <1>23
<1>28. ~w.rewritten => w.refs >= w.holders + Len(w.queue)
  <2>1. Len(v.queue) \in Nat /\ v.holders \in Nat /\ x.refs \in Nat
    BY <1>1, <1>6 DEF Typed
  <2>2. ~v.rewritten => x.refs >= v.holders + Len(v.queue)
    BY <1>6
  <2>3. ~v.rewritten => r >= v.holders + (Len(v.queue) + 1)
    BY <1>11, <2>1, <2>2
  <2> QED
    BY <1>15, <1>22, <1>23, <1>24, <2>3
<1>29. Keeps(x.queue, w.queue, "response")
  <2>1. v.queue \in Seq(Packets)
    BY <1>6 DEF Typed
  <2> DEFINE k == "response"
  <2>2. p.kind # k
    BY <1>12
  <2> HIDE DEF k
  <2>3. Keeps(v.queue, <<p>> \o v.queue, k)
    BY <1>12, <2>1, <2>2, NonePrepend DEF Keeps
  <2> QED
    BY <1>8, <1>21, <1>22, <2>3 DEF Keeps, k
<1>30. ASSUME t' = [t EXCEPT ![e] = wake_up_sender(w)] PROVE IInv'
  <2> DEFINE u == wake_up_sender(w)
  <2>1. /\ IsEnd(u) /\ u.write_watch /\ u.write_watch \in BOOLEAN
        /\ \A f \in Fields \ {"write_watch"} : u[f] = w[f]
    BY <1>22 DEF wake_up_sender, IsEnd, Fields
  <2>2. t' = [t EXCEPT ![e] = u]
    BY <1>30
  <2> HIDE DEF u
  <2>3. Local(u)
    BY <1>24, <1>25, <1>26, <1>27, <1>28, <2>1, Woken
  <2>4. u.wire = Tail(x.wire) /\ u.queue = w.queue
    BY <1>6, <1>15, <1>23, <2>1 DEF Fields
  <2>5. Keeps(x.queue, u.queue, "response")
    BY <1>29, <2>4
  <2>6. Pair(u, y)
    BY <1>1, <1>2, <2>3, <2>4, <2>5, AnsweredPair DEF m
  <2> QED
    BY <1>2, <2>2, <2>6, OneStep
<1>31. wake_up_sender(wake_up_sender(w)) = wake_up_sender(w)
  BY <1>22 DEF wake_up_sender, IsEnd, Fields
<1>32. v.queue = << >> => Len(w.queue) = 1
  BY <1>15, <1>24
<1>33. ASSUME t' = [t EXCEPT ![e] = wake_up_sender(g_attrib_send(o, p, TRUE))] PROVE IInv'
  <2>1. wake_up_sender(g_attrib_send(o, p, TRUE)) = wake_up_sender(w)
    BY <1>14, <1>31
  <2> QED
    BY <1>30, <1>33, <2>1
<1>34. ASSUME v.queue = << >>, t' = [t EXCEPT ![e] = g_attrib_send(o, p, TRUE)] PROVE IInv'
  <2>1. g_attrib_send(o, p, TRUE) = wake_up_sender(w)
    BY <1>14, <1>32, <1>34
  <2> QED
    BY <1>30, <1>34, <2>1
<1> QED
  BY <1>7, <1>9, <1>10, <1>33, <1>34

-----------------------------------------------------------------------------
(* Cancelling.                                                             *)

\* A step of x on what waits in its queue.
LEMMA CancelPair ==
  ASSUME NEW x, NEW y, Pair(x, y), x.alive, NEW u, IsEnd(u),
         \A f \in Fields \ {"queue"} : u[f] = x[f], u.queue \in Seq(Packets),
         Queue(u), Waiting(u), Written(u) <=> Written(x),
         Written(x) => u.queue[1].id = x.queue[1].id, u.queue # << >> => x.queue # << >>,
         Len(u.queue) <= Len(x.queue), AtMost(x.queue, u.queue, "response")
  PROVE  Pair(u, y)
<1>1. Typed(x) /\ Life(x) /\ Answered(x) /\ Watches(x) /\ Counted(x) /\ Flight(x, y) /\ Flight(y, x)
  BY DEF Pair, Local
<1>2. /\ u.alive = x.alive /\ u.refs = x.refs /\ u.holders = x.holders /\ u.wire = x.wire
      /\ u.results = x.results /\ u.next_cmd_id = x.next_cmd_id /\ u.rewritten = x.rewritten
      /\ u.timeout_watch = x.timeout_watch /\ u.write_watch = x.write_watch
  BY DEF Fields
<1>3. Typed(u)
  BY <1>1 DEF Typed, Fields
<1>4. Life(u) /\ Answered(u) /\ Watches(u)
  BY <1>1, <1>2 DEF Life, Answered, Watches
<1>5. Counted(u)
  <2>1. ToWrite(u) <= ToWrite(x) /\ ToWrite(u) \in Nat /\ ToWrite(x) \in Nat
    <3>1. ToWrite(u) \in Nat /\ ToWrite(x) \in Nat /\ Len(u.queue) \in Nat /\ Len(x.queue) \in Nat
      BY <1>1, <1>3, ToWriteNat
    <3> QED
      BY <3>1 DEF ToWrite
  <2>2. x.refs \in Nat /\ x.holders \in Nat
    BY <1>1 DEF Typed
  <2>3. x.refs >= x.holders + ToWrite(x) => x.refs >= x.holders + ToWrite(u)
    BY <2>1, <2>2
  <2> QED
    BY <1>1, <1>2, <2>3 DEF Counted
<1>6. Flight(u, y)
  <2>1. Keeps(x.wire, u.wire, "response") /\ Keeps(y.wire, y.wire, "request")
        /\ AtMost(y.queue, y.queue, "response")
    BY <1>2, KeepsSame
  <2>2. Written(x) /\ ~x.write_watch => Written(u) /\ ~u.write_watch /\ u.queue[1].id = x.queue[1].id
    BY <1>2
  <2> QED
    BY <1>1, <2>1, <2>2, FlightKept
<1>7. Flight(y, u)
  <2>1. Keeps(y.wire, y.wire, "response") /\ Keeps(x.wire, u.wire, "request")
    BY <1>2, KeepsSame
  <2> QED
    BY <1>1, <2>1, FlightKept
<1> QED
  BY <1>3, <1>4, <1>5, <1>6, <1>7 DEF Pair, Local

\* The callback of the request at the head is forgotten.
LEMMA Forgotten ==
  ASSUME NEW x, Typed(x), Queue(x), Waiting(x), Written(x), NEW u, NEW h,
         h = [x.queue[1] EXCEPT !.func = FALSE], u.queue = [x.queue EXCEPT ![1] = h],
         u.next_cmd_id = x.next_cmd_id, u.results = x.results
  PROVE  /\ u.queue \in Seq(Packets) /\ Queue(u) /\ Waiting(u) /\ Written(u)
         /\ u.queue[1].id = x.queue[1].id /\ Len(u.queue) = Len(x.queue)
         /\ Keeps(x.queue, u.queue, "response") /\ x.queue # << >>
<1> DEFINE q == u.queue
<1>1. /\ x.queue \in Seq(Packets) /\ x.queue # << >> /\ 1 \in DOMAIN x.queue
      /\ DOMAIN x.queue = 1..Len(x.queue) /\ Len(x.queue) \in Nat \ {0} /\ x.queue[1] \in Packets
      /\ x.queue[1].sent
  BY DEF Typed, Written
<1>2. /\ h \in Packets /\ h.sent /\ ~h.func /\ h.kind = x.queue[1].kind /\ h.id = x.queue[1].id
  BY <1>1 DEF Packets
<1>3. /\ q \in Seq(Packets) /\ DOMAIN q = DOMAIN x.queue /\ Len(q) = Len(x.queue) /\ q[1] = h
      /\ \A k \in DOMAIN x.queue : k # 1 => q[k] = x.queue[k]
  BY <1>1, <1>2
<1> HIDE DEF q
<1>4. \A k \in DOMAIN x.queue : q[k].kind = x.queue[k].kind /\ q[k].id = x.queue[k].id
  BY <1>2, <1>3
<1>5. x.queue[1].kind = "request"
  BY <1>1 DEF Queue
<1>6. \A k \in DOMAIN q : /\ q[k].func => q[k].kind = "request"
                          /\ q[k].sent => k = 1 /\ q[k].kind = "request"
  <2> SUFFICES ASSUME NEW k \in DOMAIN q
               PROVE  /\ q[k].func => q[k].kind = "request"
                      /\ q[k].sent => k = 1 /\ q[k].kind = "request"
    OBVIOUS
  <2>1. CASE k = 1
    BY <1>2, <1>3, <1>5, <2>1
  <2>2. CASE k # 1
    BY <1>3, <2>2 DEF Queue
  <2> QED
    BY <2>1, <2>2
<1>7. Queue(u)
  BY <1>6 DEF Queue, q
<1>8. Waiting(u)
  <2>1. \A k \in DOMAIN q : q[k].kind = "request" =>
          /\ q[k].id <= x.next_cmd_id
          /\ \A j \in DOMAIN x.results : x.results[j][1] # q[k].id
    BY <1>3, <1>4 DEF Waiting
  <2>2. \A j, k \in DOMAIN q :
          q[j].kind = "request" /\ q[k].kind = "request" /\ j # k => q[j].id # q[k].id
    BY <1>3, <1>4 DEF Waiting
  <2> QED
    BY <2>1, <2>2 DEF Waiting, q
<1>9. Keeps(x.queue, q, "response")
  BY <1>3, <1>4, SameKinds DEF Keeps
<1>10. Written(u)
  BY <1>1, <1>2, <1>3 DEF Written, q
<1> QED
  BY <1>1, <1>2, <1>3, <1>7, <1>8, <1>9, <1>10 DEF q

LEMMA CancelGood ==
  ASSUME IInv, NEW e \in Ends, NEW k \in 1..Len(t[e].queue), g_attrib_cancel(e, k)
  PROVE  IInv'
<1> DEFINE x == t[e]
           y == t[Other(e)]
           h == [x.queue[1] EXCEPT !.func = FALSE]
           q == IF k = 1 /\ x.queue[1].sent THEN [x.queue EXCEPT ![1] = h] ELSE Without(x.queue, k)
           u == [x EXCEPT !.queue = q]
<1>1. Pair(x, y) /\ Typed(x) /\ Queue(x) /\ Waiting(x)
  BY PairOf DEF Pair, Local
<1>2. /\ x.alive /\ k \in DOMAIN x.queue /\ x.queue[k].func
      /\ t' = [t EXCEPT ![e] = u] /\ y = t[Other(e)]
  BY DEF g_attrib_cancel, Without, IInv
<1> HIDE DEF x, y
<1>3. q = IF k = 1 /\ x.queue[1].sent THEN [x.queue EXCEPT ![1] = h] ELSE Without(x.queue, k)
  OBVIOUS
<1> HIDE DEF q
<1>4. IsEnd(u) /\ u.queue = q /\ \A f \in Fields \ {"queue"} : u[f] = x[f]
  BY <1>1 DEF Typed, IsEnd, Fields
<1> HIDE DEF u
<1>5. u.next_cmd_id = x.next_cmd_id /\ u.results = x.results
  BY <1>4 DEF Fields
<1>6. x.queue[k].kind = "request" /\ x.queue \in Seq(Packets) /\ x.queue # << >>
  BY <1>1, <1>2 DEF Queue, Typed
<1>7. CASE k = 1 /\ x.queue[1].sent
  <2>1. u.queue = [x.queue EXCEPT ![1] = h] /\ h = [x.queue[1] EXCEPT !.func = FALSE]
    BY <1>3, <1>4, <1>7
  <2>2. Written(x)
    BY <1>6, <1>7 DEF Written
  <2> HIDE DEF h
  <2>3. /\ u.queue \in Seq(Packets) /\ Queue(u) /\ Waiting(u) /\ Written(u)
        /\ u.queue[1].id = x.queue[1].id /\ Len(u.queue) = Len(x.queue)
        /\ Keeps(x.queue, u.queue, "response") /\ x.queue # << >>
    BY <1>1, <1>5, <2>1, <2>2, Forgotten
  <2>4. AtMost(x.queue, u.queue, "response") /\ Len(u.queue) <= Len(x.queue)
    BY <1>6, <2>3, KeepsAtMost
  <2>5. Pair(u, y)
    BY <1>1, <1>2, <1>4, <2>2, <2>3, <2>4, CancelPair
  <2> QED
    BY <1>2, <2>5, OneStep
<1>8. CASE ~(k = 1 /\ x.queue[1].sent)
  <2>1. u.queue = Without(x.queue, k)
    BY <1>3, <1>4, <1>8
  <2>2. ~x.queue[k].sent
    BY <1>1, <1>2, <1>8 DEF Queue
  <2>3. /\ u.queue \in Seq(Packets) /\ Len(u.queue) = Len(x.queue) - 1
        /\ Queue(u) /\ Waiting(u) /\ (Written(u) <=> Written(x))
        /\ Written(x) => u.queue[1] = x.queue[1]
    BY <1>1, <1>2, <1>5, <2>1, <2>2, WithoutQueue
  <2>4. Keeps(x.queue, u.queue, "response")
    <3> DEFINE r == "response"
    <3>1. x.queue[k].kind # r
      BY <1>6
    <3> HIDE DEF r
    <3>2. Keeps(x.queue, Without(x.queue, k), r)
      BY <1>2, <1>6, <3>1, ResponsesWithout DEF Keeps
    <3> QED
      BY <2>1, <3>2 DEF r
  <2>5. AtMost(x.queue, u.queue, "response") /\ Len(u.queue) <= Len(x.queue)
    BY <1>6, <2>3, <2>4, KeepsAtMost
  <2>6. Written(x) => u.queue[1].id = x.queue[1].id
    BY <2>3
  <2>7. Pair(u, y)
    BY <1>1, <1>2, <1>4, <1>6, <2>3, <2>5, <2>6, CancelPair
  <2> QED
    BY <1>2, <2>7, OneStep
<1> QED
  BY <1>7, <1>8

LEMMA CancelAllGood ==
  ASSUME IInv, NEW e \in Ends, g_attrib_cancel_all(e)
  PROVE  IInv'
<1> DEFINE x == t[e]
           y == t[Other(e)]
           h == [x.queue[1] EXCEPT !.func = FALSE]
           q == IF x.queue[1].sent THEN <<h>> ELSE << >>
           u == [x EXCEPT !.queue = q]
<1>1. Pair(x, y) /\ Typed(x) /\ Queue(x) /\ Waiting(x)
  BY PairOf DEF Pair, Local
<1>2. /\ x.alive /\ x.queue # << >> /\ t' = [t EXCEPT ![e] = u] /\ y = t[Other(e)]
  BY DEF g_attrib_cancel_all, IInv
<1> HIDE DEF x, y
<1>3. q = IF x.queue[1].sent THEN <<h>> ELSE << >>
  OBVIOUS
<1> HIDE DEF q
<1>4. IsEnd(u) /\ u.queue = q /\ \A f \in Fields \ {"queue"} : u[f] = x[f]
  BY <1>1 DEF Typed, IsEnd, Fields
<1> HIDE DEF u
<1>5. u.next_cmd_id = x.next_cmd_id /\ u.results = x.results
  BY <1>4 DEF Fields
<1>6. /\ x.queue \in Seq(Packets) /\ 1 \in DOMAIN x.queue /\ x.queue[1] \in Packets
      /\ Len(x.queue) \in Nat \ {0}
  BY <1>1, <1>2 DEF Typed
<1>7. CASE x.queue[1].sent
  <2>1. Written(x) /\ x.queue[1].kind = "request"
    BY <1>1, <1>2, <1>6, <1>7 DEF Written, Queue
  <2>2. /\ h \in Packets /\ h.sent /\ ~h.func /\ h.kind = "request" /\ h.id = x.queue[1].id
    BY <1>6, <1>7, <2>1 DEF Packets
  <2> HIDE DEF h
  <2>3. u.queue = <<h>>
    BY <1>3, <1>4, <1>7
  <2>4. /\ u.queue \in Seq(Packets) /\ Len(u.queue) = 1 /\ DOMAIN u.queue = {1} /\ u.queue[1] = h
        /\ u.queue # << >>
    BY <2>2, <2>3
  <2>5. Queue(u) /\ Written(u)
    BY <2>2, <2>4 DEF Queue, Written
  <2>6. Waiting(u)
    <3>1. h.id <= x.next_cmd_id /\ \A j \in DOMAIN x.results : x.results[j][1] # h.id
      BY <1>1, <1>6, <2>1, <2>2 DEF Waiting
    <3> QED
      BY <1>5, <2>4, <3>1 DEF Waiting
  <2>7. NoneIn(u.queue, "response")
    BY <2>2, <2>4 DEF NoneIn
  <2>8. AtMost(x.queue, u.queue, "response")
    BY <2>7 DEF AtMost
  <2>9. Len(u.queue) <= Len(x.queue)
    BY <1>6, <2>4
  <2>10. u.queue[1].id = x.queue[1].id
    BY <2>2, <2>4
  <2>11. Pair(u, y)
    BY <1>1, <1>2, <1>4, <2>1, <2>4, <2>5, <2>6, <2>8, <2>9, <2>10, CancelPair
  <2> QED
    BY <1>2, <2>11, OneStep
<1>8. CASE ~x.queue[1].sent
  <2>1. u.queue = << >>
    BY <1>3, <1>4, <1>8
  <2>2. u.queue \in Seq(Packets) /\ Len(u.queue) = 0 /\ DOMAIN u.queue = {}
    BY <2>1
  <2>3. Queue(u) /\ Waiting(u) /\ ~Written(u) /\ ~Written(x)
    BY <1>8, <2>1, <2>2 DEF Queue, Waiting, Written
  <2>4. AtMost(x.queue, u.queue, "response") /\ Len(u.queue) <= Len(x.queue)
    BY <1>6, <2>1, <2>2, KeepsSame
  <2>5. Pair(u, y)
    BY <1>1, <1>2, <1>4, <2>2, <2>3, <2>4, CancelPair
  <2> QED
    BY <1>2, <2>5, OneStep
<1> QED
  BY <1>7, <1>8

-----------------------------------------------------------------------------

LEMMA NextGood ==
  ASSUME IInv, [AttNext]_t
  PROVE  IInv'
<1>1. CASE AttNext
  <2>1. ASSUME NEW e \in Ends,
               \/ Request(e) \/ can_write_data(e) \/ ReceiveRequest(e)
               \/ \E more \in BOOLEAN : ReceiveResponse(e, more)
               \/ Elevate(e) \/ WriteFails(e) \/ g_attrib_cancel_all(e) \/ g_attrib_ref(e)
               \/ Release(e) \/ disconnect_timeout(e)
               \/ \E k \in 1..Len(t[e].queue) : g_attrib_cancel(e, k)
        PROVE  IInv'
    BY <2>1, RequestGood, WriteGood, ReceiveRequestGood, ReceiveResponseGood, ElevateGood,
       WriteFailsGood, CancelAllGood, RefGood, ReleaseGood, TimeoutGood, CancelGood
  <2> QED
    BY <1>1, <2>1, LinkLostGood, NewGood DEF AttNext
<1>2. CASE UNCHANGED t
  BY <1>2 DEF IInv
<1> QED
  BY <1>1, <1>2

\* The packets still to be written are all of the queue, or all but its head.
LEMMA UnsentCount ==
  ASSUME NEW x, Local(x)
  PROVE  Cardinality(Unsent(x)) = ToWrite(x)
<1> DEFINE n == Len(x.queue)
<1>1. x.queue \in Seq(Packets) /\ DOMAIN x.queue = 1..n /\ n \in Nat
  BY DEF Local, Typed
<1>2. \A k \in DOMAIN x.queue : x.queue[k].sent => k = 1
  BY DEF Local, Queue
<1>3. CASE Written(x)
  <2>1. n > 0 /\ x.queue[1].sent
    BY <1>1, <1>3 DEF Written
  <2>2. Unsent(x) = 2..n
    BY <1>1, <1>2, <2>1 DEF Unsent
  <2>3. Cardinality(2..n) = n - 1
    BY <1>1, <2>1, FS_Interval
  <2> QED
    BY <1>3, <2>2, <2>3 DEF ToWrite
<1>4. CASE ~Written(x)
  <2>1. Unsent(x) = 1..n
    <3>1. x.queue = << >> => n = 0
      OBVIOUS
    <3>2. \A k \in 1..n : ~x.queue[k].sent
      BY <1>1, <1>2, <1>4, <3>1 DEF Written
    <3> QED
      BY <1>1, <3>2 DEF Unsent
  <2>2. Cardinality(1..n) = n
    BY <1>1, FS_Interval
  <2> QED
    BY <1>4, <2>1, <2>2 DEF ToWrite
<1> QED
  BY <1>3, <1>4

\* The inductive invariant says what the runs check.
LEMMA GoodIsSafe == IInv => AttSafe
<1> SUFFICES ASSUME IInv PROVE AttSafe
  OBVIOUS
<1>1. \A e \in Ends : Local(t[e])
  BY DEF IInv
<1>2. Referenced
  BY <1>1, UnsentCount DEF Local, Counted, Referenced
<1>3. Progress
  BY <1>1 DEF Local, Watches, Written, Queue, Progress
<1>4. Matched
  <2> SUFFICES ASSUME NEW e \in Ends
               PROVE  /\ \A k \in DOMAIN t[e].results : t[e].results[k][1] = t[e].results[k][2]
                      /\ \A j, k \in DOMAIN t[e].results : j # k => t[e].results[j] # t[e].results[k]
    BY DEF Matched
  <2>1. Answered(t[e])
    BY <1>1 DEF Local
  <2> QED
    BY <2>1 DEF Answered
<1> QED
  BY <1>2, <1>3, <1>4 DEF AttSafe

\* attrib/gattrib.c, for any number of requests, users and security levels and
\* whatever both ends of a bearer do: every callback gets the response to its own
\* request, once, and only the head of a queue has been written; and at an end where
\* no packet was written twice or could not be written, the GAttrib has a reference for
\* every user and for every packet to write, and the head is watched or timed.
THEOREM AttSafeTheorem == AttSpec => []AttSafe
<1>1. IInv /\ [AttNext]_t => IInv'
  BY NextGood
<1> QED
  BY <1>1, InitGood, GoodIsSafe, PTL DEF AttSpec
=============================================================================
