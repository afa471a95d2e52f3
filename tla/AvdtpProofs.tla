---------------------------- MODULE AvdtpProofs ----------------------------
(***************************************************************************)
(* Whatever the users of an AVDTP session, the peer, the timers and the     *)
(* channels do, in whatever order: no pointer to a freed stream is left, a  *)
(* stream that starts has its request, one that is open has a watched       *)
(* channel, the session has a reference for each holder, and an Abort comes *)
(* before what was queued about its stream.  For any set of SEPs, any       *)
(* number of users and queues of any length.                                *)
(***************************************************************************)
EXTENDS Avdtp, SequenceTheorems, FiniteSetTheorems, TLAPS

\* Authorization drops a reference that it never took when it fails, and when it is
\* tried again after the connection was lost (run avdtp_auth_fails).  So it does not
\* fail; and where it can be busy, nobody keeps a reference over the loss.
Authorized ==
  /\ "failed" \notin AuthResults
  /\ "busy" \in AuthResults => UsersRelease /\ EndpointSeps = {}

Sessions == [state : SessionStates, ref : Int, pending : Pending,
             watch : Watches, f : SUBSET SessionFlags,
             req : Request \cup {NoReq}, prio_queue : Seq(Request),
             req_queue : Seq(Request), pending_open : SepOrNone,
             seps : SUBSET Seps]
StreamsOf == [state : SepStates, timer : Timers, f : SUBSET StreamFlags]
Worlds == [s : Sessions, sep : [Seps -> StreamsOf], cfg : SepOrNone,
           users : Int, drop : Int]

Elems(q) == {q[i] : i \in DOMAIN q}

\* The requests that are in flight or in a queue.
Asked(v) == ({v.s.req} \cup Elems(v.s.prio_queue) \cup Elems(v.s.req_queue)) \ {NoReq}
About(v, e) == {r \in Asked(v) : r.stream = e}
Asks(v, e, sig) == \E r \in About(v, e) : r.sig = sig

Held(v) == v.users + (IF v.cfg = NoSep THEN 0 ELSE 1)

\* The session: who holds it, and what each state of the signalling channel has of
\* channel, watch and timer.
Sess(v) ==
  /\ v.users \in Nat
  /\ v.s.state = "FREE" => v.s = Freed(v.s.f) /\ v.users = 0 /\ v.cfg = NoSep
  /\ v.s.state # "FREE" => v.s.ref = 1 + Held(v)
  /\ "io" \in v.s.f <=> v.s.state \in {"CONNECTING", "CONNECTED"}
  /\ v.s.pending # "none" <=> v.s.state = "CONNECTING"
  /\ v.s.watch = "full" => v.s.state = "CONNECTED"
  /\ "dc_timer" \in v.s.f =>
       v.s.state = "CONNECTED" /\ (v.s.ref = 1 \/ "stream_setup" \in v.s.f)
  /\ v.s.pending \in {"auth", "retry", "accept"} => v.cfg \in EndpointSeps \cup {NoSep}
  /\ v.s.pending = "retry" => "busy" \in AuthResults

\* One SEP: what refers to its stream, if it has one, and to nothing if not.
NoneLeft(v, e) ==
  "stream" \notin v.sep[e].f =>
    v.sep[e] = NoStream /\ v.s.pending_open # e /\ About(v, e) = {}
Live(v, e) == "stream" \in v.sep[e].f => v.s.state = "CONNECTED" /\ v.cfg # e
Watched(v, e) ==
  \/ v.sep[e].state \in {"OPEN", "STREAMING"} \/ "starting" \in v.sep[e].f
  \/ Asks(v, e, "START") \/ Asks(v, e, "SUSPEND")
  => "io_id" \in v.sep[e].f \/ "abort_int" \in v.sep[e].f
Starts(v, e) ==
  v.sep[e].state = "OPEN" /\ "starting" \in v.sep[e].f => Asks(v, e, "START")
At(v, e) == NoneLeft(v, e) /\ Live(v, e) /\ Watched(v, e) /\ Starts(v, e)

\* A request about a stream names it twice, and a request that needs a stream has one,
\* but for an Abort whose stream went while it was in flight.
Streamless == {"DISCOVER", GetCap, "ABORT"}
Named(v) ==
  \A r \in Asked(v) : /\ r.stream \in Seps => r.seid = r.stream
                      /\ r.stream = NoSep => r.sig \in Streamless

Flow(v) == Named(v) /\ \A e \in Seps : At(v, e)

Good(v) == v \in Worlds /\ Sess(v) /\ Flow(v)

\* The inductive invariant.
IInv == Good(World(0))

-----------------------------------------------------------------------------
(* Sequences.                                                              *)

\* Picked keeps the elements at the positions it is given: Rank is a bijection
\* between them and the positions of the result.
LEMMA PickedElems ==
  ASSUME NEW S, NEW q \in Seq(S), NEW at \in SUBSET DOMAIN q
  PROVE  Picked(q, at) \in Seq(S) /\ Elems(Picked(q, at)) = {q[i] : i \in at}
<1> DEFINE Upto(i) == {j \in at : j <= i}
           Rank == [i \in at |-> Cardinality(Upto(i))]
           n == Cardinality(at)
<1>1. DOMAIN q = 1..Len(q) /\ Len(q) \in Nat
  OBVIOUS
<1>2. IsFiniteSet(at) /\ n \in Nat
  <2>1. IsFiniteSet(1..Len(q)) /\ at \in SUBSET (1..Len(q))
    BY <1>1, FS_Interval
  <2>2. IsFiniteSet(at)
    BY <2>1, FS_Subset
  <2> QED
    BY <2>2, FS_CardinalityType
<1>3. \A i \in at : /\ IsFiniteSet(Upto(i)) /\ Cardinality(Upto(i)) \in Nat
                    /\ Cardinality(Upto(i)) <= n
  <2> TAKE i \in at
  <2>1. Upto(i) \in SUBSET at
    OBVIOUS
  <2> QED
    BY <1>2, <2>1, FS_Subset, FS_CardinalityType
<1>4. \A i \in at : Cardinality(Upto(i)) \in 1..n
  <2> TAKE i \in at
  <2>1. i \in Upto(i)
    BY <1>1
  <2>2. Cardinality(Upto(i)) # 0
    BY <1>3, <2>1, FS_EmptySet
  <2> DEFINE c == Cardinality(Upto(i))
  <2>3. c \in Nat /\ c # 0 /\ c <= n /\ n \in Nat
    BY <1>2, <1>3, <2>2
  <2> HIDE DEF c, n
  <2>4. c \in 1..n
    BY <2>3
  <2> QED
    BY <2>4 DEF c
<1>5. \A i, j \in at : i < j => Cardinality(Upto(i)) # Cardinality(Upto(j))
  <2> SUFFICES ASSUME NEW i \in at, NEW j \in at, i < j
               PROVE  Cardinality(Upto(i)) # Cardinality(Upto(j))
    OBVIOUS
  <2>1. Upto(i) \in SUBSET Upto(j) /\ Upto(i) # Upto(j)
    BY <1>1
  <2> QED
    BY <1>3, <2>1, FS_Subset
<1>6. \A i, j \in at : Rank[i] = Rank[j] => i = j
  <2> SUFFICES ASSUME NEW i \in at, NEW j \in at, i # j
               PROVE  Cardinality(Upto(i)) # Cardinality(Upto(j))
    OBVIOUS
  <2>1. i < j \/ j < i
    BY <1>1
  <2> QED
    BY <1>5, <2>1
<1>7. Rank \in Injection(at, 1..n)
  BY <1>4, <1>6 DEF Injection, IsInjective
<1>8. Rank \in Surjection(at, 1..n)
  <2>1. IsFiniteSet(1..n) /\ Cardinality(1..n) = n
    BY <1>2, FS_Interval
  <2> HIDE DEF Rank, n
  <2> QED
    BY <1>7, <2>1, FS_Injection DEF n
<1>9. \A k \in 1..n : \E i \in at : Rank[i] = k
  BY <1>8 DEF Surjection
<1> DEFINE Pos(k) == CHOOSE i \in at : Cardinality(Upto(i)) = k
<1>10. \A k \in 1..n : Pos(k) \in at /\ Rank[Pos(k)] = k
  BY <1>9
<1>11. \A i \in at : Rank[i] \in 1..n /\ Pos(Rank[i]) = i
  <2> TAKE i \in at
  <2>1. Rank[i] \in 1..n
    BY <1>4
  <2>2. Pos(Rank[i]) \in at /\ Rank[Pos(Rank[i])] = Rank[i]
    BY <1>10, <2>1
  <2> QED
    BY <1>6, <2>1, <2>2
<1>12. Picked(q, at) = [k \in 1..n |-> q[Pos(k)]]
  <2>1. CASE at = {}
    <3>1. n = 0
      BY <2>1, FS_EmptySet
    <3>2. Picked(q, at) = << >>
      BY <2>1 DEF Picked
    <3> HIDE DEF n, Pos
    <3> QED
      BY <3>1, <3>2
  <2>2. CASE at # {}
    BY <2>2 DEF Picked
  <2> QED
    BY <2>1, <2>2
<1> HIDE DEF Pos, Rank, n
<1>13. Picked(q, at) \in Seq(S)
  BY <1>1, <1>2, <1>10, <1>12
<1>14. Elems(Picked(q, at)) \subseteq {q[i] : i \in at}
  BY <1>10, <1>12 DEF Elems
<1>15. ASSUME NEW i \in at PROVE q[i] \in Elems(Picked(q, at))
  BY <1>11, <1>12 DEF Elems
<1> QED
  BY <1>13, <1>14, <1>15

LEMMA ElemsAppend ==
  ASSUME NEW S, NEW q \in Seq(S), NEW r \in S
  PROVE  Append(q, r) \in Seq(S) /\ Elems(Append(q, r)) = Elems(q) \cup {r}
<1>1. /\ Append(q, r) \in Seq(S) /\ DOMAIN Append(q, r) = 1..Len(q) + 1
      /\ DOMAIN q = 1..Len(q) /\ Len(q) \in Nat
      /\ \A k \in 1..Len(q) : Append(q, r)[k] = q[k]
      /\ Append(q, r)[Len(q) + 1] = r
  BY AppendProperties
<1>2. 1..Len(q) + 1 = (1..Len(q)) \cup {Len(q) + 1}
  BY <1>1
<1>3. Elems(Append(q, r)) \subseteq Elems(q) \cup {r}
  BY <1>1, <1>2 DEF Elems
<1>4. \A k \in 1..Len(q) : k \in 1..Len(q) + 1 /\ q[k] = Append(q, r)[k]
  BY <1>1
<1>5. Elems(q) \subseteq Elems(Append(q, r))
  BY <1>1, <1>4 DEF Elems
<1>6. Len(q) + 1 \in 1..Len(q) + 1
  BY <1>1
<1>7. r \in Elems(Append(q, r))
  BY <1>1, <1>6 DEF Elems
<1> QED
  BY <1>1, <1>3, <1>5, <1>7

LEMMA ElemsTail ==
  ASSUME NEW S, NEW q \in Seq(S), q # << >>
  PROVE  /\ Tail(q) \in Seq(S) /\ Head(q) \in S
         /\ Elems(q) = Elems(Tail(q)) \cup {Head(q)}
<1>1. /\ Tail(q) \in Seq(S) /\ DOMAIN Tail(q) = 1..Len(q) - 1
      /\ DOMAIN q = 1..Len(q) /\ Len(q) \in Nat \ {0}
      /\ \A k \in 1..Len(q) - 1 : Tail(q)[k] = q[k + 1]
      /\ Head(q) = q[1] /\ q[1] \in S
  BY HeadTailProperties
<1>2. \A k \in 1..Len(q) : k = 1 \/ (k - 1 \in 1..Len(q) - 1 /\ q[k] = Tail(q)[k - 1])
  BY <1>1
<1>3. Elems(q) \subseteq Elems(Tail(q)) \cup {Head(q)}
  <2> SUFFICES ASSUME NEW k \in 1..Len(q) PROVE q[k] \in Elems(Tail(q)) \cup {Head(q)}
    BY <1>1 DEF Elems
  <2>1. CASE k = 1
    BY <1>1, <2>1
  <2>2. CASE k # 1
    <3>1. k - 1 \in DOMAIN Tail(q) /\ q[k] = Tail(q)[k - 1]
      BY <1>1, <1>2, <2>2
    <3> QED
      BY <3>1 DEF Elems
  <2> QED
    BY <2>1, <2>2
<1>4. Elems(Tail(q)) \subseteq Elems(q)
  <2>1. \A k \in 1..Len(q) - 1 : k + 1 \in 1..Len(q)
    BY <1>1
  <2> QED
    BY <1>1, <2>1 DEF Elems
<1>5. Head(q) \in Elems(q)
  <2>1. 1 \in DOMAIN q
    BY <1>1
  <2> QED
    BY <1>1, <2>1 DEF Elems
<1> QED
  BY <1>1, <1>3, <1>4, <1>5

LEMMA ElemsConcat ==
  ASSUME NEW S, NEW p \in Seq(S), NEW q \in Seq(S)
  PROVE  p \o q \in Seq(S) /\ Elems(p \o q) = Elems(p) \cup Elems(q)
<1>1. /\ p \o q \in Seq(S) /\ DOMAIN (p \o q) = 1..Len(p) + Len(q)
      /\ DOMAIN p = 1..Len(p) /\ DOMAIN q = 1..Len(q) /\ Len(p) \in Nat /\ Len(q) \in Nat
      /\ \A k \in 1..Len(p) + Len(q) : (p \o q)[k] = IF k <= Len(p) THEN p[k] ELSE q[k - Len(p)]
  BY ConcatProperties
<1>2. ASSUME NEW k \in 1..Len(p) + Len(q) PROVE (p \o q)[k] \in Elems(p) \cup Elems(q)
  <2>1. CASE k <= Len(p)
    BY <1>1, <2>1 DEF Elems
  <2>2. CASE ~(k <= Len(p))
    <3>1. k - Len(p) \in 1..Len(q)
      BY <1>1, <2>2
    <3> QED
      BY <1>1, <2>2, <3>1 DEF Elems
  <2> QED
    BY <2>1, <2>2
<1>3. ASSUME NEW k \in 1..Len(p) PROVE p[k] \in Elems(p \o q)
  <2>1. k \in 1..Len(p) + Len(q) /\ (p \o q)[k] = p[k]
    BY <1>1
  <2> QED
    BY <1>1, <2>1 DEF Elems
<1>4. ASSUME NEW k \in 1..Len(q) PROVE q[k] \in Elems(p \o q)
  <2>1. k + Len(p) \in 1..Len(p) + Len(q) /\ (p \o q)[k + Len(p)] = q[k]
    BY <1>1
  <2> QED
    BY <1>1, <2>1 DEF Elems
<1>5. Elems(p \o q) \subseteq Elems(p) \cup Elems(q)
  BY <1>1, <1>2 DEF Elems
<1>6. Elems(p) \subseteq Elems(p \o q) /\ Elems(q) \subseteq Elems(p \o q)
  BY <1>1, <1>3, <1>4 DEF Elems
<1> QED
  BY <1>1, <1>5, <1>6

LEMMA ElemsEmpty == Elems(<< >>) = {}
  BY DEF Elems

LEMMA ElemsIn == ASSUME NEW S, NEW q \in Seq(S) PROVE Elems(q) \subseteq S
  BY DEF Elems

-----------------------------------------------------------------------------
(* Worlds.                                                                 *)

LEMMA Outside ==
  /\ NoSep \notin Seps /\ NoReq \notin Request /\ NoReq.stream = NoSep /\ NoReq.seid = NoSep
  /\ NoReq.sig = "none" /\ \A r \in Request : r.sig # "none"
  /\ NoStream \in StreamsOf /\ NoStream.f = {} /\ NoStream.state = "IDLE"
  /\ NoSession \in Sessions
  BY ConstantsAssumption DEF NoSep, NoReq, Request, Signals, StreamCommands, SepOrNone,
     NoStream, StreamsOf, SepStates, Timers, StreamFlags, NoSession, Sessions,
     SessionStates, Pending, Watches, SessionFlags

\* A freed session has nothing but the sources that are not removed.
LEMMA FreedIs ==
  ASSUME NEW f
  PROVE  /\ Freed(f) \in Sessions /\ Freed(f).state = "FREE" /\ Freed(f).ref = 0
         /\ Freed(f).pending = "none" /\ Freed(f).watch = "none" /\ Freed(f).req = NoReq
         /\ Freed(f).prio_queue = << >> /\ Freed(f).req_queue = << >>
         /\ Freed(f).pending_open = NoSep /\ "io" \notin Freed(f).f
         /\ "dc_timer" \notin Freed(f).f /\ Freed(Freed(f).f) = Freed(f)
<1> DEFINE g == f \cap {"idle", "accepting"}
<1>1. g \in SUBSET SessionFlags /\ "io" \notin g /\ "dc_timer" \notin g
      /\ g \cap {"idle", "accepting"} = g
  BY DEF SessionFlags
<1>2. Freed(f) = [NoSession EXCEPT !.f = g]
  BY DEF Freed
<1> HIDE DEF g
<1>3. Freed(f).f = g
  BY <1>2 DEF NoSession
<1>4. Freed(Freed(f).f) = Freed(f)
  BY <1>1, <1>2, <1>3 DEF Freed
<1>5. Freed(f) \in Sessions
  BY <1>1, <1>2, Outside DEF Sessions
<1> QED
  BY <1>1, <1>2, <1>3, <1>4, <1>5 DEF NoSession

\* u has the session of v, apart from its requests.
SameSess(u, v) ==
  /\ u.s.state = v.s.state /\ u.s.ref = v.s.ref /\ u.s.pending = v.s.pending
  /\ u.s.watch = v.s.watch /\ u.s.f = v.s.f
  /\ u.cfg = v.cfg /\ u.users = v.users /\ u.drop = v.drop

\* u has the streams of v and pending_open.
SameStreams(u, v) == u.sep = v.sep /\ u.s.pending_open = v.s.pending_open

\* u is v but for the stream of SEP e, and what refers to it.
Beside(u, v, e) ==
  \A x \in Seps : x # e => /\ u.sep[x] = v.sep[x] /\ About(u, x) = About(v, x)
                           /\ u.s.pending_open = x => v.s.pending_open = x

LEMMA SessKept ==
  ASSUME NEW u \in Worlds, NEW v \in Worlds, Sess(v), SameSess(u, v), v.s.state # "FREE"
  PROVE  Sess(u)
  BY DEF Sess, SameSess, Held

LEMMA FlowKept ==
  ASSUME NEW u, NEW v, Flow(v), SameStreams(u, v), Asked(u) = Asked(v),
         u.cfg = v.cfg, u.s.state = "CONNECTED" <=> v.s.state = "CONNECTED"
  PROVE  Flow(u)
  BY DEF Flow, Named, At, NoneLeft, Live, Watched, Starts, Asks, About, SameStreams

LEMMA FlowBeside ==
  ASSUME NEW u, NEW v, NEW e \in Seps, Flow(v), Beside(u, v, e), SameSess(u, v),
         Named(u), At(u, e)
  PROVE  Flow(u)
<1>1. ASSUME NEW x \in Seps, x # e PROVE At(u, x)
  <2>1. /\ u.sep[x] = v.sep[x] /\ About(u, x) = About(v, x)
        /\ u.s.pending_open = x => v.s.pending_open = x
    BY <1>1 DEF Beside
  <2>2. At(v, x) /\ u.s.state = v.s.state /\ u.cfg = v.cfg
    BY DEF Flow, SameSess
  <2> QED
    BY <2>1, <2>2 DEF At, NoneLeft, Live, Watched, Starts, Asks
<1> QED
  BY <1>1 DEF Flow

\* Without the stream of a SEP whatever is asked is about another one.
LEMMA StreamLive ==
  ASSUME NEW v \in Worlds, Flow(v), NEW e \in Seps
  PROVE  /\ v.sep[e].state # "IDLE" \/ v.sep[e].timer # "none" => "stream" \in v.sep[e].f
         /\ v.sep[e].f # {} => "stream" \in v.sep[e].f
         /\ About(v, e) # {} \/ v.s.pending_open = e => "stream" \in v.sep[e].f
         /\ "stream" \in v.sep[e].f => v.s.state = "CONNECTED" /\ v.cfg # e
<1>1. At(v, e)
  BY DEF Flow
<1> QED
  BY <1>1 DEF At, NoneLeft, Live, NoStream

\* The signalling channel is up.
Up(v) == v.s.state = "CONNECTED" /\ "io" \in v.s.f

LEMMA UpConnected ==
  ASSUME NEW v \in Worlds, Sess(v), v.s.state = "CONNECTED" PROVE Up(v)
  BY DEF Sess, Up

LEMMA NoSendFails ==
  ASSUME NEW v \in Worlds, Sess(v) PROVE ~SendFails(v)
  BY DEF Sess, SendFails, Is

\* One SEP gets another stream record.
Put(v, e, p) == [v EXCEPT !.sep[e] = p]

LEMMA PutIs ==
  ASSUME NEW v \in Worlds, NEW e \in Seps, NEW p \in StreamsOf
  PROVE  /\ Put(v, e, p) \in Worlds /\ SameSess(Put(v, e, p), v)
         /\ Beside(Put(v, e, p), v, e) /\ Asked(Put(v, e, p)) = Asked(v)
         /\ Put(v, e, p).s = v.s /\ Put(v, e, p).sep[e] = p
         /\ About(Put(v, e, p), e) = About(v, e)
<1> DEFINE u == Put(v, e, p)
<1>1. /\ u \in Worlds /\ u.s = v.s /\ u.cfg = v.cfg /\ u.users = v.users /\ u.drop = v.drop
      /\ u.sep = [v.sep EXCEPT ![e] = p] /\ v.sep \in [Seps -> StreamsOf]
  BY DEF Put, Worlds
<1> HIDE DEF u
<1>2. Asked(u) = Asked(v)
  BY <1>1 DEF Asked
<1> QED
  BY <1>1, <1>2 DEF SameSess, Beside, About, u

LEMMA SetIs ==
  ASSUME NEW v \in Worlds, NEW e \in Seps, NEW x \in StreamFlags
  PROVE  \E p \in StreamsOf : /\ Set(v, e, x) = Put(v, e, p) /\ p.state = v.sep[e].state
                              /\ p.timer = v.sep[e].timer /\ p.f = v.sep[e].f \cup {x}
<1> DEFINE p == [v.sep[e] EXCEPT !.f = v.sep[e].f \cup {x}]
<1>1. v.sep[e] \in StreamsOf
  BY DEF Worlds
<1>2. p \in StreamsOf /\ p.state = v.sep[e].state /\ p.timer = v.sep[e].timer
      /\ p.f = v.sep[e].f \cup {x}
  BY <1>1 DEF StreamsOf
<1>3. Set(v, e, x) = Put(v, e, p)
  BY DEF Set, Put
<1> QED
  BY <1>2, <1>3

LEMMA ClearIs ==
  ASSUME NEW v \in Worlds, NEW e \in Seps, NEW x
  PROVE  \E p \in StreamsOf : /\ Clear(v, e, x) = Put(v, e, p) /\ p.state = v.sep[e].state
                              /\ p.timer = v.sep[e].timer /\ p.f = v.sep[e].f \ {x}
<1> DEFINE p == [v.sep[e] EXCEPT !.f = v.sep[e].f \ {x}]
<1>1. v.sep[e] \in StreamsOf
  BY DEF Worlds
<1>2. p \in StreamsOf /\ p.state = v.sep[e].state /\ p.timer = v.sep[e].timer
      /\ p.f = v.sep[e].f \ {x}
  BY <1>1 DEF StreamsOf
<1>3. Clear(v, e, x) = Put(v, e, p)
  BY DEF Clear, Put
<1> QED
  BY <1>2, <1>3

LEMMA StateIs ==
  ASSUME NEW v \in Worlds, NEW e \in Seps, NEW st \in SepStates
  PROVE  \E p \in StreamsOf : /\ [v EXCEPT !.sep[e].state = st] = Put(v, e, p) /\ p.state = st
                              /\ p.timer = v.sep[e].timer /\ p.f = v.sep[e].f
<1> DEFINE p == [v.sep[e] EXCEPT !.state = st]
<1>1. v.sep[e] \in StreamsOf
  BY DEF Worlds
<1>2. p \in StreamsOf /\ p.state = st /\ p.timer = v.sep[e].timer /\ p.f = v.sep[e].f
  BY <1>1 DEF StreamsOf
<1>3. [v EXCEPT !.sep[e].state = st] = Put(v, e, p)
  BY DEF Put
<1> QED
  BY <1>2, <1>3

LEMMA TimerIs ==
  ASSUME NEW v \in Worlds, NEW e \in Seps, NEW t \in Timers
  PROVE  \E p \in StreamsOf : /\ [v EXCEPT !.sep[e].timer = t] = Put(v, e, p)
                              /\ p.state = v.sep[e].state
                              /\ p.timer = t /\ p.f = v.sep[e].f
<1> DEFINE p == [v.sep[e] EXCEPT !.timer = t]
<1>1. v.sep[e] \in StreamsOf
  BY DEF Worlds
<1>2. p \in StreamsOf /\ p.state = v.sep[e].state /\ p.timer = t /\ p.f = v.sep[e].f
  BY <1>1 DEF StreamsOf
<1>3. [v EXCEPT !.sep[e].timer = t] = Put(v, e, p)
  BY DEF Put
<1> QED
  BY <1>2, <1>3

LEMMA GoodPut ==
  ASSUME NEW v, Good(v), NEW e \in Seps, NEW p \in StreamsOf,
         "stream" \in v.sep[e].f, "stream" \in p.f,
         \/ p.state \in {"OPEN", "STREAMING"} \/ "starting" \in p.f
         \/ "io_id" \in v.sep[e].f \/ "abort_int" \in v.sep[e].f
         => "io_id" \in p.f \/ "abort_int" \in p.f,
         p.state = "OPEN" /\ "starting" \in p.f => Asks(v, e, "START")
  PROVE  Good(Put(v, e, p))
<1> DEFINE u == Put(v, e, p)
<1>1. v \in Worlds /\ Sess(v) /\ Flow(v)
  BY DEF Good
<1>2. /\ u \in Worlds /\ SameSess(u, v) /\ Beside(u, v, e) /\ Asked(u) = Asked(v)
      /\ u.s = v.s /\ u.sep[e] = p /\ About(u, e) = About(v, e)
  <2>1. /\ u \in Worlds /\ SameSess(u, v) /\ Beside(u, v, e) /\ Asked(u) = Asked(v)
    BY <1>1, PutIs
  <2>2. u.s = v.s /\ u.sep[e] = p /\ About(u, e) = About(v, e)
    BY <1>1, PutIs
  <2> QED
    BY <2>1, <2>2
<1>3. v.s.state = "CONNECTED" /\ v.cfg # e
  BY <1>1, StreamLive
<1> HIDE DEF u
<1>4. At(u, e)
  <2>1. At(v, e)
    BY <1>1 DEF Flow
  <2>2. NoneLeft(u, e) /\ Live(u, e)
    BY <1>2, <1>3 DEF NoneLeft, Live, SameSess
  <2>3. Watched(u, e)
    BY <1>2, <2>1 DEF At, Watched, Asks
  <2>4. Starts(u, e)
    BY <1>2 DEF Starts, Asks
  <2> QED
    BY <2>2, <2>3, <2>4 DEF At
<1>5. Named(u)
  BY <1>1, <1>2 DEF Flow, Named
<1>6. Sess(u)
  BY <1>1, <1>2, <1>3, SessKept
<1>7. Flow(u)
  BY <1>1, <1>2, <1>4, <1>5, FlowBeside
<1> QED
  BY <1>2, <1>6, <1>7 DEF Good, u

-----------------------------------------------------------------------------
(* Requests.                                                               *)

LEMMA AskedIn ==
  ASSUME NEW v \in Worlds PROVE Asked(v) \subseteq Request
<1>1. v.s.req \in Request \cup {NoReq} /\ v.s.prio_queue \in Seq(Request) /\ v.s.req_queue \in Seq(Request)
  BY DEF Worlds, Sessions
<1> QED
  BY <1>1, ElemsIn DEF Asked

\* What a change of the requests leaves alone.
Requests(u, v) == u \in Worlds /\ SameSess(u, v) /\ SameStreams(u, v)

LEMMA RequestsTrans ==
  ASSUME NEW u, NEW v, NEW w, Requests(u, v), Requests(v, w) PROVE Requests(u, w)
  BY DEF Requests, SameSess, SameStreams

LEMMA ReqIs ==
  ASSUME NEW v \in Worlds, NEW r \in Request \cup {NoReq}
  PROVE  LET u == [v EXCEPT !.s.req = r]
         IN /\ Requests(u, v) /\ u.s.req = r /\ u.s.prio_queue = v.s.prio_queue
            /\ u.s.req_queue = v.s.req_queue
  BY DEF Worlds, Sessions, Requests, SameSess, SameStreams

LEMMA PrioIs ==
  ASSUME NEW v \in Worlds, NEW q \in Seq(Request)
  PROVE  LET u == [v EXCEPT !.s.prio_queue = q]
         IN /\ Requests(u, v) /\ u.s.req = v.s.req /\ u.s.prio_queue = q
            /\ u.s.req_queue = v.s.req_queue
  BY DEF Worlds, Sessions, Requests, SameSess, SameStreams

LEMMA QueueIs ==
  ASSUME NEW v \in Worlds, NEW q \in Seq(Request)
  PROVE  LET u == [v EXCEPT !.s.req_queue = q]
         IN /\ Requests(u, v) /\ u.s.req = v.s.req /\ u.s.prio_queue = v.s.prio_queue
            /\ u.s.req_queue = q
  BY DEF Worlds, Sessions, Requests, SameSess, SameStreams

LEMMA Queues ==
  ASSUME NEW v \in Worlds
  PROVE  /\ v.s.prio_queue \in Seq(Request) /\ v.s.req_queue \in Seq(Request)
         /\ v.s.req \in Request \cup {NoReq}
  BY DEF Worlds, Sessions

LEMMA QueueRequest ==
  ASSUME NEW v \in Worlds, NEW prio \in BOOLEAN, NEW r \in Request
  PROVE  LET u == queue_request(v, prio, r)
         IN Requests(u, v) /\ u.s.req = v.s.req /\ Asked(u) = Asked(v) \cup {r}
<1> DEFINE u == queue_request(v, prio, r)
           pq == Append(v.s.prio_queue, r)
           rq == Append(v.s.req_queue, r)
<1>1. /\ pq \in Seq(Request) /\ Elems(pq) = Elems(v.s.prio_queue) \cup {r}
      /\ rq \in Seq(Request) /\ Elems(rq) = Elems(v.s.req_queue) \cup {r}
  BY Queues, ElemsAppend
<1>2. u = IF prio THEN [v EXCEPT !.s.prio_queue = pq] ELSE [v EXCEPT !.s.req_queue = rq]
  BY DEF queue_request
<1>3. r # NoReq
  BY Outside
<1> HIDE DEF u, pq, rq
<1>4. CASE prio
  <2>1. /\ Requests(u, v) /\ u.s.req = v.s.req /\ u.s.prio_queue = pq
        /\ u.s.req_queue = v.s.req_queue
    BY <1>1, <1>2, <1>4, PrioIs
  <2>2. Asked(u) = Asked(v) \cup {r}
    BY <1>1, <1>3, <2>1 DEF Asked
  <2> QED
    BY <2>1, <2>2 DEF u
<1>5. CASE ~prio
  <2>1. /\ Requests(u, v) /\ u.s.req = v.s.req /\ u.s.prio_queue = v.s.prio_queue
        /\ u.s.req_queue = rq
    BY <1>1, <1>2, <1>5, QueueIs
  <2>2. Asked(u) = Asked(v) \cup {r}
    BY <1>1, <1>3, <2>1 DEF Asked
  <2> QED
    BY <2>1, <2>2 DEF u
<1> QED
  BY <1>4, <1>5

LEMMA SendReq ==
  ASSUME NEW v \in Worlds, Up(v), NEW prio \in BOOLEAN, NEW r \in Request
  PROVE  LET u == send_req(v, prio, r)
         IN /\ Requests(u, v) /\ Asked(u) = Asked(v) \cup {r}
            /\ v.s.req # NoReq => u.s.req = v.s.req
<1>1. /\ ~SendFails(v) /\ v.s.state = "CONNECTED"
  BY DEF Up, SendFails, Is
<1>2. CASE v.s.req # NoReq
  <2>1. send_req(v, prio, r) = queue_request(v, prio, r)
    BY <1>1, <1>2 DEF send_req
  <2> QED
    BY <1>2, <2>1, QueueRequest
<1>3. CASE v.s.req = NoReq
  <2> DEFINE u == [v EXCEPT !.s.req = r]
  <2>1. send_req(v, prio, r) = u
    BY <1>1, <1>3 DEF send_req
  <2>2. /\ Requests(u, v) /\ u.s.req = r /\ u.s.prio_queue = v.s.prio_queue
        /\ u.s.req_queue = v.s.req_queue
    BY ReqIs
  <2> HIDE DEF u
  <2>3. Asked(u) = Asked(v) \cup {r}
    BY <1>3, <2>2, Outside DEF Asked
  <2> QED
    BY <1>3, <2>1, <2>2, <2>3
<1> QED
  BY <1>2, <1>3

LEMMA ProcessQueue ==
  ASSUME NEW v \in Worlds, Up(v)
  PROVE  Requests(process_queue(v), v) /\ Asked(process_queue(v)) = Asked(v)
<1> DEFINE pq == v.s.prio_queue
           rq == v.s.req_queue
           p == [v EXCEPT !.s.prio_queue = Tail(pq)]
           q == [v EXCEPT !.s.req_queue = Tail(rq)]
<1>1. CASE v.s.req = NoReq /\ pq # << >>
  <2>1. Tail(pq) \in Seq(Request) /\ Head(pq) \in Request /\ Elems(pq) = Elems(Tail(pq)) \cup {Head(pq)}
    BY <1>1, Queues, ElemsTail
  <2>2. /\ Requests(p, v) /\ p.s.req = v.s.req /\ p.s.prio_queue = Tail(pq)
        /\ p.s.req_queue = rq
    BY <2>1, PrioIs
  <2>3. process_queue(v) = send_req(p, FALSE, Head(pq))
    BY <1>1 DEF process_queue
  <2> HIDE DEF p
  <2>4. p \in Worlds /\ Up(p)
    BY <2>2 DEF Requests, Up, SameSess
  <2>5. Requests(process_queue(v), p) /\ Asked(process_queue(v)) = Asked(p) \cup {Head(pq)}
    BY <2>1, <2>3, <2>4, SendReq
  <2>6. Asked(p) \cup {Head(pq)} = Asked(v)
    BY <2>1, <2>2, Outside DEF Asked
  <2> QED
    BY <2>2, <2>5, <2>6, RequestsTrans
<1>2. CASE v.s.req = NoReq /\ pq = << >> /\ rq # << >>
  <2>1. Tail(rq) \in Seq(Request) /\ Head(rq) \in Request /\ Elems(rq) = Elems(Tail(rq)) \cup {Head(rq)}
    BY <1>2, Queues, ElemsTail
  <2>2. /\ Requests(q, v) /\ q.s.req = v.s.req /\ q.s.prio_queue = pq
        /\ q.s.req_queue = Tail(rq)
    BY <2>1, QueueIs
  <2>3. process_queue(v) = send_req(q, FALSE, Head(rq))
    BY <1>2 DEF process_queue
  <2> HIDE DEF q
  <2>4. q \in Worlds /\ Up(q)
    BY <2>2 DEF Requests, Up, SameSess
  <2>5. Requests(process_queue(v), q) /\ Asked(process_queue(v)) = Asked(q) \cup {Head(rq)}
    BY <2>1, <2>3, <2>4, SendReq
  <2>6. Asked(q) \cup {Head(rq)} = Asked(v)
    BY <2>1, <2>2, Outside DEF Asked
  <2> QED
    BY <2>2, <2>5, <2>6, RequestsTrans
<1>3. CASE v.s.req # NoReq \/ (pq = << >> /\ rq = << >>)
  <2>1. process_queue(v) = v
    BY <1>3 DEF process_queue
  <2> QED
    BY <2>1 DEF Requests, SameSess, SameStreams
<1> QED
  BY <1>1, <1>2, <1>3

LEMMA GoodRequests ==
  ASSUME NEW u, NEW v, Good(v), Requests(u, v), Asked(u) = Asked(v), v.s.state # "FREE"
  PROVE  Good(u)
<1>1. Sess(u)
  BY SessKept DEF Good, Requests
<1>2. Flow(u)
  <2>1. Flow(v) /\ SameStreams(u, v) /\ u.cfg = v.cfg /\ u.s.state = v.s.state
    BY DEF Good, Requests, SameSess
  <2> QED
    BY <2>1, FlowKept
<1> QED
  BY <1>1, <1>2 DEF Good, Requests

\* A request about no stream, or about one that there is.
LEMMA GoodAsked ==
  ASSUME NEW u, NEW v, Good(v), Requests(u, v), NEW r \in Request,
         Asked(u) = Asked(v) \cup {r}, v.s.state # "FREE",
         r.stream = NoSep => r.sig \in Streamless,
         r.stream # NoSep =>
           /\ r.seid = r.stream /\ "stream" \in v.sep[r.stream].f
           /\ r.sig \in {"START", "SUSPEND"} =>
                "io_id" \in v.sep[r.stream].f \/ "abort_int" \in v.sep[r.stream].f
  PROVE  Good(u)
<1>1. Sess(u)
  BY SessKept DEF Good, Requests
<1>2. Flow(v) /\ SameStreams(u, v) /\ u.cfg = v.cfg /\ u.s.state = v.s.state
  BY DEF Good, Requests, SameSess
<1>3. Named(u)
  BY <1>2, Outside DEF Flow, Named
<1>4. ASSUME NEW e \in Seps PROVE At(u, e)
  <2>1. At(v, e) /\ u.sep[e] = v.sep[e] /\ u.s.pending_open = v.s.pending_open
    BY <1>2 DEF Flow, SameStreams
  <2>2. CASE r.stream # e
    <3>1. About(u, e) = About(v, e)
      BY <2>2 DEF About
    <3> QED
      BY <1>2, <2>1, <3>1 DEF At, NoneLeft, Live, Watched, Starts, Asks
  <2>3. CASE r.stream = e
    <3>1. About(u, e) = About(v, e) \cup {r}
      BY <2>3 DEF About
    <3>2. "stream" \in v.sep[e].f
      BY <2>3, Outside
    <3>3. NoneLeft(u, e) /\ Live(u, e)
      BY <1>2, <2>1, <3>2 DEF At, NoneLeft, Live
    <3>4. Watched(u, e)
      BY <2>1, <2>3, <3>1, Outside DEF At, Watched, Asks
    <3>5. Starts(u, e)
      BY <2>1, <3>1 DEF At, Starts, Asks
    <3> QED
      BY <3>3, <3>4, <3>5 DEF At
  <2> QED
    BY <2>2, <2>3
<1> QED
  BY <1>1, <1>3, <1>4 DEF Good, Requests, Flow

LEMMA SendRequest ==
  ASSUME NEW v, Good(v), v.s.state = "CONNECTED", NEW prio \in BOOLEAN,
         NEW stream \in SepOrNone, NEW sig \in Signals, NEW seid \in SepOrNone,
         stream = NoSep => sig \in Streamless,
         stream # NoSep =>
           /\ seid = stream /\ "stream" \in v.sep[stream].f
           /\ sig \in {"START", "SUSPEND"} =>
                "io_id" \in v.sep[stream].f \/ "abort_int" \in v.sep[stream].f
  PROVE  LET u == send_request(v, prio, stream, sig, seid)
         IN /\ Good(u) /\ Requests(u, v)
            /\ ~Refused(v, stream, sig) => Asked(u) = Asked(v) \cup {Req(sig, seid, stream)}
            /\ Refused(v, stream, sig) => u = v
            /\ v.s.req # NoReq => u.s.req = v.s.req
<1> DEFINE u == send_request(v, prio, stream, sig, seid)
           r == Req(sig, seid, stream)
<1>1. v \in Worlds /\ Sess(v) /\ Up(v)
  BY UpConnected DEF Good
<1>2. r \in Request /\ r.sig = sig /\ r.seid = seid /\ r.stream = stream
  BY DEF Req, Request
<1>3. CASE Refused(v, stream, sig)
  <2>1. u = v
    BY <1>3 DEF send_request
  <2> HIDE DEF u
  <2>2. Requests(v, v)
    BY <1>1 DEF Requests, SameSess, SameStreams
  <2> QED
    BY <1>3, <2>1, <2>2 DEF u
<1>4. CASE ~Refused(v, stream, sig)
  <2>1. u = send_req(v, prio, r)
    BY <1>4 DEF send_request
  <2> HIDE DEF u, r
  <2>2. Requests(u, v) /\ Asked(u) = Asked(v) \cup {r} /\ (v.s.req # NoReq => u.s.req = v.s.req)
    BY <1>1, <1>2, <2>1, SendReq
  <2>3. Good(u)
    BY <1>2, <2>2, GoodAsked
  <2> QED
    BY <1>4, <2>2, <2>3 DEF u, r
<1> QED
  BY <1>3, <1>4

-----------------------------------------------------------------------------
(* A stream is freed.                                                      *)

LEMMA NotOfIs ==
  ASSUME NEW q \in Seq(Request), NEW e
  PROVE  NotOf(q, e) \in Seq(Request) /\ Elems(NotOf(q, e)) = {r \in Elems(q) : r.stream # e}
<1> DEFINE at == {i \in DOMAIN q : q[i].stream # e}
<1>1. Picked(q, at) \in Seq(Request) /\ Elems(Picked(q, at)) = {q[i] : i \in at}
  <2>1. at \in SUBSET DOMAIN q
    OBVIOUS
  <2> HIDE DEF at
  <2> QED
    BY <2>1, PickedElems
<1>2. {q[i] : i \in at} = {r \in Elems(q) : r.stream # e}
  BY DEF Elems
<1> QED
  BY <1>1, <1>2 DEF NotOf

LEMMA WithoutStreamIs ==
  ASSUME NEW q \in Seq(Request)
  PROVE  /\ WithoutStream(q) \in Seq(Request)
         /\ Elems(WithoutStream(q)) = {r \in Elems(q) : r.stream = NoSep}
<1> DEFINE at == {i \in DOMAIN q : q[i].stream = NoSep}
<1>1. Picked(q, at) \in Seq(Request) /\ Elems(Picked(q, at)) = {q[i] : i \in at}
  <2>1. at \in SUBSET DOMAIN q
    OBVIOUS
  <2> HIDE DEF at
  <2> QED
    BY <2>1, PickedElems
<1>2. {q[i] : i \in at} = {r \in Elems(q) : r.stream = NoSep}
  BY DEF Elems
<1> QED
  BY <1>1, <1>2 DEF WithoutStream

LEMMA CleanupQueue ==
  ASSUME NEW v \in Worlds, NEW e \in Seps, v.s.req.stream # e
  PROVE  /\ Requests(cleanup_queue(v, e), v)
         /\ Asked(cleanup_queue(v, e)) = {r \in Asked(v) : r.stream # e}
         /\ cleanup_queue(v, e).s.req = v.s.req
<1> DEFINE pq == NotOf(v.s.prio_queue, e)
           rq == NotOf(v.s.req_queue, e)
           u == cleanup_queue(v, e)
<1>1. /\ pq \in Seq(Request) /\ Elems(pq) = {r \in Elems(v.s.prio_queue) : r.stream # e}
      /\ rq \in Seq(Request) /\ Elems(rq) = {r \in Elems(v.s.req_queue) : r.stream # e}
  BY Queues, NotOfIs
<1>2. u = [v EXCEPT !.s.prio_queue = pq, !.s.req_queue = rq]
  BY DEF cleanup_queue
<1> HIDE DEF pq, rq, u
<1>3. /\ Requests(u, v) /\ u.s.req = v.s.req /\ u.s.prio_queue = pq /\ u.s.req_queue = rq
  BY <1>1, <1>2 DEF Worlds, Sessions, Requests, SameSess, SameStreams
<1>4. Asked(u) = {r \in Asked(v) : r.stream # e}
  BY <1>1, <1>3 DEF Asked
<1> QED
  BY <1>3, <1>4 DEF u

LEMMA HandleUnansweredReq ==
  ASSUME NEW v \in Worlds, Named(v)
  PROVE  LET u == handle_unanswered_req(v)
         IN /\ Requests(u, v) /\ u.s.req.stream = NoSep /\ Named(u)
            /\ u.s.req.sig \in {v.s.req.sig, "none"}
            /\ \A x \in Seps : x # v.s.req.stream => About(u, x) = About(v, x)
            /\ Asked(u) = ({u.s.req} \cup Elems(v.s.prio_queue) \cup Elems(v.s.req_queue)) \ {NoReq}
<1> DEFINE u == handle_unanswered_req(v)
           r == IF v.s.req.sig = "ABORT" THEN [v.s.req EXCEPT !.stream = NoSep] ELSE NoReq
<1>1. r \in Request \cup {NoReq} /\ r.stream = NoSep /\ r.sig \in {v.s.req.sig, "none"}
  BY Queues, Outside DEF Request, SepOrNone
<1>a. r = NoReq \/ r.sig \in Streamless
  BY Queues, Outside DEF Request, Streamless
<1>2. u = [v EXCEPT !.s.req = r]
  BY DEF handle_unanswered_req
<1> HIDE DEF r, u
<1>3. /\ Requests(u, v) /\ u.s.req = r /\ u.s.prio_queue = v.s.prio_queue
      /\ u.s.req_queue = v.s.req_queue
  BY <1>1, <1>2, ReqIs
<1>4. Asked(u) = ({u.s.req} \cup Elems(v.s.prio_queue) \cup Elems(v.s.req_queue)) \ {NoReq}
  BY <1>3 DEF Asked
<1>5. ASSUME NEW x \in Seps, x # v.s.req.stream PROVE About(u, x) = About(v, x)
  BY <1>1, <1>3, <1>4, <1>5, Outside DEF About, Asked
<1>6. Named(u)
  <2>1. ASSUME NEW x \in Asked(u) PROVE x \in Asked(v) \/ (x.stream = NoSep /\ x.sig \in Streamless)
    BY <1>1, <1>a, <1>3, <1>4 DEF Asked
  <2> QED
    BY <2>1, Outside DEF Named
<1> QED
  BY <1>1, <1>3, <1>4, <1>5, <1>6 DEF u

LEMMA PendingIs ==
  ASSUME NEW v \in Worlds, NEW po \in SepOrNone
  PROVE  LET u == [v EXCEPT !.s.pending_open = po]
         IN /\ u \in Worlds /\ SameSess(u, v) /\ u.sep = v.sep /\ u.s.pending_open = po
            /\ Asked(u) = Asked(v)
<1> DEFINE u == [v EXCEPT !.s.pending_open = po]
<1>1. /\ u \in Worlds /\ SameSess(u, v) /\ u.sep = v.sep /\ u.s.pending_open = po
      /\ u.s.req = v.s.req /\ u.s.prio_queue = v.s.prio_queue /\ u.s.req_queue = v.s.req_queue
  BY DEF Worlds, Sessions, SameSess
<1> HIDE DEF u
<1>2. Asked(u) = Asked(v)
  BY <1>1 DEF Asked
<1> QED
  BY <1>1, <1>2 DEF u

LEMMA TakePendingOpenIs ==
  ASSUME NEW v \in Worlds, v.s.pending_open \in Seps
  PROVE  LET e == v.s.pending_open
             u == TakePendingOpen(v)
         IN /\ u \in Worlds /\ SameSess(u, v) /\ Beside(u, v, e) /\ Asked(u) = Asked(v)
            /\ About(u, e) = About(v, e) /\ u.s.pending_open = NoSep /\ u.s.req = v.s.req
            /\ u.sep[e].state = v.sep[e].state /\ u.sep[e].f = v.sep[e].f
<1> DEFINE e == v.s.pending_open
           u == TakePendingOpen(v)
           a == [v EXCEPT !.sep[e].timer = "none"]
<1>0. e \in Seps /\ u = [a EXCEPT !.s.pending_open = NoSep]
  BY DEF TakePendingOpen, Worlds
<1> HIDE DEF e, u
<1>1. PICK p \in StreamsOf : a = Put(v, e, p) /\ p.state = v.sep[e].state /\ p.f = v.sep[e].f
  <2>1. "none" \in Timers
    BY DEF Timers
  <2> QED
    BY <1>0, <2>1, TimerIs
<1> HIDE DEF a
<1>2. /\ a \in Worlds /\ SameSess(a, v) /\ Beside(a, v, e) /\ Asked(a) = Asked(v)
      /\ a.s = v.s /\ a.sep[e] = p /\ About(a, e) = About(v, e)
  BY <1>0, <1>1, PutIs
<1>3. u = [a EXCEPT !.s.pending_open = NoSep]
  BY <1>0
<1>4. /\ u \in Worlds /\ SameSess(u, a) /\ u.sep = a.sep /\ u.s.pending_open = NoSep
      /\ Asked(u) = Asked(a) /\ u.s.req = a.s.req
  <2>1. NoSep \in SepOrNone
    BY DEF SepOrNone
  <2>2. u.s.req = a.s.req
    BY <1>2, <1>3 DEF Worlds, Sessions
  <2> QED
    BY <1>2, <1>3, <2>1, <2>2, PendingIs
<1>5. SameSess(u, v) /\ Asked(u) = Asked(v) /\ u.s.req = v.s.req
  BY <1>2, <1>4 DEF SameSess
<1>6. Beside(u, v, e) /\ About(u, e) = About(v, e)
  BY <1>2, <1>4, Outside DEF Beside, About
<1> QED
  BY <1>1, <1>2, <1>4, <1>5, <1>6 DEF u, e

LEMMA IdleIs ==
  ASSUME NEW v \in Worlds, Named(v), NEW e \in Seps
  PROVE  LET u == Idle(v, e)
         IN /\ u \in Worlds /\ SameSess(u, v) /\ Beside(u, v, e) /\ Named(u)
            /\ u.sep[e] = NoStream /\ u.s.pending_open # e /\ About(u, e) = {}
            /\ u.s.req.sig \in {v.s.req.sig, "none"}
<1> DEFINE w1 == IF v.s.pending_open = e THEN TakePendingOpen(v) ELSE v
           w2 == IF w1.s.req.stream = e THEN handle_unanswered_req(w1) ELSE w1
           w3 == cleanup_queue(w2, e)
           u == Put(w3, e, NoStream)
<1>0. Idle(v, e) = u
  BY DEF Idle, Put
<1>1. /\ w1 \in Worlds /\ SameSess(w1, v) /\ Beside(w1, v, e) /\ Asked(w1) = Asked(v)
      /\ w1.s.pending_open # e /\ w1.s.req = v.s.req
  <2>1. CASE v.s.pending_open = e
    BY <2>1, TakePendingOpenIs, Outside
  <2>2. CASE v.s.pending_open # e
    BY <2>2 DEF SameSess, Beside
  <2> QED
    BY <2>1, <2>2
<1> HIDE DEF w1
<1>2. Named(w1)
  BY <1>1 DEF Named
<1>3. /\ Requests(w2, w1) /\ Named(w2) /\ w2.s.req.stream # e
      /\ \A x \in Seps : x # e => About(w2, x) = About(w1, x)
      /\ w2.s.req.sig \in {w1.s.req.sig, "none"}
  <2>1. CASE w1.s.req.stream = e
    BY <1>1, <1>2, <2>1, HandleUnansweredReq, Outside
  <2>2. CASE w1.s.req.stream # e
    BY <1>1, <1>2, <2>2 DEF Requests, SameSess, SameStreams
  <2> QED
    BY <2>1, <2>2
<1> HIDE DEF w2
<1>4. Requests(w3, w2) /\ Asked(w3) = {r \in Asked(w2) : r.stream # e} /\ w3.s.req = w2.s.req
  BY <1>3, CleanupQueue DEF Requests
<1> HIDE DEF w3
<1>5. /\ u \in Worlds /\ SameSess(u, w3) /\ Beside(u, w3, e) /\ Asked(u) = Asked(w3)
      /\ u.s = w3.s /\ u.sep[e] = NoStream /\ About(u, e) = About(w3, e)
  <2>1. w3 \in Worlds /\ NoStream \in StreamsOf
    BY <1>4, Outside DEF Requests
  <2> QED
    BY <2>1, PutIs
<1> HIDE DEF u
<1>6. SameSess(u, v)
  BY <1>1, <1>3, <1>4, <1>5 DEF SameSess, Requests
<1>7. About(w3, e) = {}
  BY <1>4 DEF About
<1>8. u.s.pending_open = w1.s.pending_open
  BY <1>3, <1>4, <1>5 DEF Requests, SameStreams
<1>9. ASSUME NEW x \in Seps, x # e
      PROVE  /\ u.sep[x] = v.sep[x] /\ About(u, x) = About(v, x)
             /\ u.s.pending_open = x => v.s.pending_open = x
  <2>1. u.sep[x] = w3.sep[x] /\ About(u, x) = About(w3, x)
    BY <1>5, <1>9 DEF Beside
  <2>2. w3.sep = w1.sep
    BY <1>3, <1>4 DEF Requests, SameStreams
  <2>3. About(w3, x) = About(w2, x)
    BY <1>4, <1>9 DEF About
  <2>4. /\ w1.sep[x] = v.sep[x] /\ About(w1, x) = About(v, x)
        /\ w1.s.pending_open = x => v.s.pending_open = x
    BY <1>1, <1>9 DEF Beside
  <2> QED
    BY <1>3, <1>8, <1>9, <2>1, <2>2, <2>3, <2>4
<1>10. Named(u)
  BY <1>3, <1>4, <1>5 DEF Named
<1>11. u.s.req.sig \in {v.s.req.sig, "none"}
  BY <1>1, <1>3, <1>4, <1>5
<1> QED
  BY <1>0, <1>1, <1>5, <1>6, <1>7, <1>8, <1>9, <1>10, <1>11 DEF Beside

LEMMA GoodIdle ==
  ASSUME NEW v \in Worlds, NEW a, Good(a), SameSess(v, a), NEW e \in Seps,
         Beside(v, a, e), Named(v), a.s.state # "FREE"
  PROVE  Good(Idle(v, e)) /\ SameSess(Idle(v, e), a) /\ Beside(Idle(v, e), a, e)
         /\ "stream" \notin Idle(v, e).sep[e].f
         /\ Idle(v, e).s.req.sig \in {v.s.req.sig, "none"}
<1> DEFINE u == Idle(v, e)
<1>1. /\ u \in Worlds /\ SameSess(u, v) /\ Beside(u, v, e) /\ Named(u)
      /\ u.sep[e] = NoStream /\ u.s.pending_open # e /\ About(u, e) = {}
      /\ u.s.req.sig \in {v.s.req.sig, "none"}
  BY IdleIs
<1> HIDE DEF u
<1>2. a \in Worlds /\ Sess(a) /\ Flow(a)
  BY DEF Good
<1>3. SameSess(u, a)
  BY <1>1 DEF SameSess
<1>4. Beside(u, a, e)
  BY <1>1 DEF Beside
<1>5. At(u, e)
  BY <1>1, Outside DEF At, NoneLeft, Live, Watched, Starts, Asks
<1>6. Flow(u)
  BY <1>1, <1>2, <1>3, <1>4, <1>5, FlowBeside
<1>7. Sess(u)
  BY <1>1, <1>2, <1>3, SessKept
<1> QED
  BY <1>1, <1>3, <1>4, <1>6, <1>7, Outside DEF Good, u

\* release_stream, and avdtp_sep_set_state(IDLE) wherever it is called.
LEMMA SetIdle ==
  ASSUME NEW v, Good(v), NEW e \in Seps
  PROVE  LET u == avdtp_sep_set_state(v, e, "IDLE")
         IN /\ Good(u) /\ SameSess(u, v) /\ "stream" \notin u.sep[e].f
            /\ \A x \in Seps : x # e => u.sep[x] = v.sep[x]
            /\ u.s.req.sig \in {v.s.req.sig, "none"}
<1>1. v \in Worlds /\ Flow(v)
  BY DEF Good
<1>2. CASE "stream" \notin v.sep[e].f
  <2>1. avdtp_sep_set_state(v, e, "IDLE") = v
    BY <1>2 DEF avdtp_sep_set_state, Has
  <2> QED
    BY <1>2, <2>1 DEF SameSess
<1>3. CASE "stream" \in v.sep[e].f
  <2> DEFINE a == [v EXCEPT !.sep[e].state = "IDLE"]
  <2>1. avdtp_sep_set_state(v, e, "IDLE") = Idle(a, e)
    BY <1>3 DEF avdtp_sep_set_state, Has
  <2>2. PICK p \in StreamsOf : a = Put(v, e, p)
    BY <1>1, StateIs DEF SepStates
  <2>3. a \in Worlds /\ SameSess(a, v) /\ Beside(a, v, e) /\ Asked(a) = Asked(v) /\ a.s = v.s
    BY <1>1, <2>2, PutIs
  <2> HIDE DEF a
  <2>4. Named(a)
    BY <1>1, <2>3 DEF Flow, Named
  <2>5. v.s.state # "FREE"
    BY <1>1, <1>3, StreamLive
  <2>6. Good(Idle(a, e)) /\ SameSess(Idle(a, e), v) /\ Beside(Idle(a, e), v, e)
        /\ "stream" \notin Idle(a, e).sep[e].f /\ Idle(a, e).s.req.sig \in {a.s.req.sig, "none"}
    BY <2>3, <2>4, <2>5, GoodIdle
  <2> QED
    BY <2>1, <2>3, <2>6 DEF Beside
<1> QED
  BY <1>2, <1>3

-----------------------------------------------------------------------------
(* The flags of the session and its references.                            *)

\* u is v but for the flags of the session and its count.
Channel(u, v) ==
  /\ u \in Worlds /\ SameStreams(u, v) /\ Asked(u) = Asked(v) /\ u.s.req = v.s.req
  /\ u.s.prio_queue = v.s.prio_queue
  /\ u.s.state = v.s.state /\ u.s.pending = v.s.pending /\ u.s.watch = v.s.watch
  /\ u.cfg = v.cfg /\ u.users = v.users /\ u.drop = v.drop
Flags(u, v) == Channel(u, v) /\ u.s.ref = v.s.ref

\* The flags that remove_disconnect_timer leaves.
NoTimer(f) == IF "dc_timer" \in f THEN f \ {"dc_timer", "stream_setup"} ELSE f

LEMMA FlagsIs ==
  ASSUME NEW v \in Worlds, NEW f \in SUBSET SessionFlags
  PROVE  LET u == [v EXCEPT !.s.f = f] IN Flags(u, v) /\ u.s.f = f
<1> DEFINE u == [v EXCEPT !.s.f = f]
<1>1. /\ u \in Worlds /\ u.sep = v.sep /\ u.s.pending_open = v.s.pending_open
      /\ u.s.req = v.s.req /\ u.s.prio_queue = v.s.prio_queue /\ u.s.req_queue = v.s.req_queue
      /\ u.s.state = v.s.state /\ u.s.pending = v.s.pending /\ u.s.watch = v.s.watch
      /\ u.cfg = v.cfg /\ u.users = v.users /\ u.drop = v.drop /\ u.s.ref = v.s.ref
      /\ u.s.f = f
  BY DEF Worlds, Sessions
<1> HIDE DEF u
<1>2. Asked(u) = Asked(v)
  BY <1>1 DEF Asked
<1> QED
  BY <1>1, <1>2 DEF Flags, Channel, SameStreams, u

LEMMA FlagsOf ==
  ASSUME NEW v \in Worlds PROVE v.s.f \in SUBSET SessionFlags
  BY DEF Worlds, Sessions

LEMMA OnIs ==
  ASSUME NEW v \in Worlds, NEW x \in SessionFlags
  PROVE  Flags(On(v, x), v) /\ On(v, x).s.f = v.s.f \cup {x}
<1>1. v.s.f \cup {x} \in SUBSET SessionFlags
  BY FlagsOf
<1>2. On(v, x) = [v EXCEPT !.s.f = v.s.f \cup {x}]
  BY DEF On
<1> QED
  BY <1>1, <1>2, FlagsIs

LEMMA OffIs ==
  ASSUME NEW v \in Worlds, NEW x
  PROVE  Flags(Off(v, x), v) /\ Off(v, x).s.f = v.s.f \ {x}
<1> DEFINE f == v.s.f \ {x}
<1>1. f \in SUBSET SessionFlags
  BY FlagsOf
<1>2. Off(v, x) = [v EXCEPT !.s.f = f]
  BY DEF Off
<1> HIDE DEF f
<1>3. Flags(Off(v, x), v) /\ Off(v, x).s.f = f
  BY <1>1, <1>2, FlagsIs
<1> QED
  BY <1>3 DEF f

LEMMA FlagsTrans ==
  ASSUME NEW u, NEW v, NEW w, Flags(u, v), Flags(v, w) PROVE Flags(u, w)
  BY DEF Flags, Channel, SameStreams

LEMMA FlagsSelf == ASSUME NEW v \in Worlds PROVE Flags(v, v)
  BY DEF Flags, Channel, SameStreams

LEMMA RemoveTimer ==
  ASSUME NEW v \in Worlds
  PROVE  LET u == remove_disconnect_timer(v) IN Flags(u, v) /\ u.s.f = NoTimer(v.s.f)
<1>1. CASE "dc_timer" \in v.s.f
  <2> DEFINE a == Off(v, "dc_timer")
             u == Off(a, "stream_setup")
  <2>1. remove_disconnect_timer(v) = u
    BY <1>1 DEF remove_disconnect_timer, Is
  <2>2. Flags(a, v) /\ a.s.f = v.s.f \ {"dc_timer"}
    BY OffIs
  <2> HIDE DEF a
  <2>3. Flags(u, a) /\ u.s.f = a.s.f \ {"stream_setup"}
    BY <2>2, OffIs DEF Flags, Channel
  <2> HIDE DEF u
  <2>4. Flags(u, v)
    BY <2>2, <2>3, FlagsTrans
  <2> QED
    BY <1>1, <2>1, <2>2, <2>3, <2>4 DEF NoTimer
<1>2. CASE "dc_timer" \notin v.s.f
  <2>1. remove_disconnect_timer(v) = v
    BY <1>2 DEF remove_disconnect_timer, Is
  <2> QED
    BY <1>2, <2>1, FlagsSelf DEF NoTimer
<1> QED
  BY <1>1, <1>2

LEMMA SetTimer ==
  ASSUME NEW v \in Worlds
  PROVE  LET u == set_disconnect_timer(v)
         IN Flags(u, v) /\ u.s.f = NoTimer(v.s.f) \cup {"dc_timer"}
<1> DEFINE a == remove_disconnect_timer(v)
           u == On(a, "dc_timer")
<1>1. Flags(a, v) /\ a.s.f = NoTimer(v.s.f)
  BY RemoveTimer
<1> HIDE DEF a
<1>2. a \in Worlds /\ "dc_timer" \in SessionFlags
  BY <1>1 DEF Flags, Channel, SessionFlags
<1>3. Flags(u, a) /\ u.s.f = a.s.f \cup {"dc_timer"}
  BY <1>2, OnIs
<1>4. set_disconnect_timer(v) = u
  BY DEF set_disconnect_timer, a
<1> HIDE DEF u
<1>5. Flags(u, v)
  BY <1>1, <1>3, FlagsTrans
<1> QED
  BY <1>1, <1>3, <1>4, <1>5

LEMMA FlowChannel ==
  ASSUME NEW u, NEW v, Flow(v), Channel(u, v) PROVE Flow(u)
<1>1. SameStreams(u, v) /\ Asked(u) = Asked(v) /\ u.cfg = v.cfg /\ u.s.state = v.s.state
  BY DEF Channel
<1> QED
  BY <1>1, FlowKept

LEMMA GoodFlags ==
  ASSUME NEW u, NEW v, Good(v), Flags(u, v), v.s.state # "FREE",
         "io" \in u.s.f <=> "io" \in v.s.f,
         "dc_timer" \in u.s.f =>
           v.s.state = "CONNECTED" /\ (v.s.ref = 1 \/ "stream_setup" \in u.s.f)
  PROVE  Good(u)
<1>1. Flow(u) /\ u \in Worlds
  BY FlowChannel DEF Good, Flags, Channel
<1>2. Sess(u)
  BY DEF Good, Sess, Flags, Channel, Held
<1> QED
  BY <1>1, <1>2 DEF Good

\* Flags that no timer depends on.
LEMMA GoodOn ==
  ASSUME NEW v, Good(v), v.s.state # "FREE",
         NEW x \in {"auto_dc", "discov_cb", "idle", "accepting", "stream_setup"}
  PROVE  Good(On(v, x)) /\ Flags(On(v, x), v)
<1>1. v \in Worlds /\ x \in SessionFlags
  BY DEF Good, SessionFlags
<1>2. Flags(On(v, x), v) /\ On(v, x).s.f = v.s.f \cup {x}
  BY <1>1, OnIs
<1>3. "dc_timer" \in v.s.f => v.s.state = "CONNECTED" /\ (v.s.ref = 1 \/ "stream_setup" \in v.s.f)
  BY DEF Good, Sess
<1> QED
  BY <1>2, <1>3, GoodFlags

LEMMA GoodOff ==
  ASSUME NEW v, Good(v), v.s.state # "FREE", NEW x \in {"auto_dc", "discov_cb", "idle", "accepting", "dc_timer"}
  PROVE  Good(Off(v, x)) /\ Flags(Off(v, x), v) /\ Off(v, x).s.f = v.s.f \ {x}
<1>1. v \in Worlds
  BY DEF Good
<1>2. Flags(Off(v, x), v) /\ Off(v, x).s.f = v.s.f \ {x}
  BY <1>1, OffIs
<1>3. "dc_timer" \in v.s.f => v.s.state = "CONNECTED" /\ (v.s.ref = 1 \/ "stream_setup" \in v.s.f)
  BY DEF Good, Sess
<1> QED
  BY <1>2, <1>3, GoodFlags

LEMMA CountIs ==
  ASSUME NEW v \in Worlds, NEW n \in Int
  PROVE  LET u == [v EXCEPT !.s.ref = n] IN Channel(u, v) /\ u.s.ref = n /\ u.s.f = v.s.f
<1> DEFINE u == [v EXCEPT !.s.ref = n]
<1>1. /\ u \in Worlds /\ u.sep = v.sep /\ u.s.pending_open = v.s.pending_open
      /\ u.s.req = v.s.req /\ u.s.prio_queue = v.s.prio_queue /\ u.s.req_queue = v.s.req_queue
      /\ u.s.state = v.s.state /\ u.s.pending = v.s.pending /\ u.s.watch = v.s.watch
      /\ u.cfg = v.cfg /\ u.users = v.users /\ u.drop = v.drop /\ u.s.ref = n
      /\ u.s.f = v.s.f
  BY DEF Worlds, Sessions
<1> HIDE DEF u
<1>2. Asked(u) = Asked(v)
  BY <1>1 DEF Asked
<1> QED
  BY <1>1, <1>2 DEF Channel, SameStreams, u

LEMMA RefIs ==
  ASSUME NEW v \in Worlds
  PROVE  LET u == avdtp_ref(v)
         IN Channel(u, v) /\ u.s.ref = v.s.ref + 1 /\ u.s.f = NoTimer(v.s.f)
<1> DEFINE n == v.s.ref + 1
           a == [v EXCEPT !.s.ref = n]
           u == remove_disconnect_timer(a)
<1>1. n \in Int
  BY DEF Worlds, Sessions
<1>2. avdtp_ref(v) = u
  BY DEF avdtp_ref
<1> HIDE DEF n
<1>3. Channel(a, v) /\ a.s.ref = n /\ a.s.f = v.s.f
  BY <1>1, CountIs
<1> HIDE DEF a
<1>4. Flags(u, a) /\ u.s.f = NoTimer(a.s.f)
  BY <1>3, RemoveTimer DEF Channel
<1> HIDE DEF u
<1>5. Channel(u, v) /\ u.s.ref = n
  BY <1>3, <1>4 DEF Flags, Channel, SameStreams
<1> QED
  BY <1>2, <1>3, <1>4, <1>5 DEF n

LEMMA GoodUserRef ==
  ASSUME NEW v, Good(v), v.s.state # "FREE"
  PROVE  LET u == UserRef(v)
         IN /\ Good(u) /\ u.users = v.users + 1 /\ u.s.state = v.s.state /\ SameStreams(u, v)
            /\ u.cfg = v.cfg /\ u.drop = v.drop /\ "dc_timer" \notin u.s.f
<1> DEFINE a == avdtp_ref(v)
           u == [a EXCEPT !.users = a.users + 1]
<1>1. v \in Worlds /\ Sess(v) /\ Flow(v)
  BY DEF Good
<1>2. Channel(a, v) /\ a.s.ref = v.s.ref + 1 /\ a.s.f = NoTimer(v.s.f)
  BY <1>1, RefIs
<1>3. UserRef(v) = u
  BY DEF UserRef
<1> HIDE DEF a
<1>4. a \in Worlds /\ Flow(a)
  BY <1>1, <1>2, FlowChannel DEF Channel
<1>5. /\ u \in Worlds /\ u.s = a.s /\ u.sep = a.sep /\ u.cfg = a.cfg /\ u.drop = a.drop
      /\ u.users = a.users + 1
  BY <1>4 DEF Worlds
<1> HIDE DEF u
<1>6. Asked(u) = Asked(a)
  BY <1>5 DEF Asked
<1>7. Flow(u)
  BY <1>4, <1>5, <1>6, FlowKept DEF SameStreams
<1>8. "dc_timer" \notin u.s.f /\ ("io" \in u.s.f <=> "io" \in v.s.f)
  BY <1>2, <1>5 DEF NoTimer
<1>9. v.s.ref \in Int
  BY <1>1 DEF Worlds, Sessions
<1>10. Sess(u)
  BY <1>1, <1>2, <1>5, <1>8, <1>9 DEF Sess, Channel, Held
<1> QED
  BY <1>2, <1>3, <1>5, <1>7, <1>8, <1>10 DEF Good, Channel, SameStreams

\* A session that nobody holds, whose streams are gone, is freed.
LEMMA GoodFree ==
  ASSUME NEW v \in Worlds, v.users = 0, v.cfg = NoSep, \A e \in Seps : v.sep[e] = NoStream
  PROVE  Good(FreeSession(v))
<1> DEFINE u == FreeSession(v)
<1>1. /\ u \in Worlds /\ u.s = Freed(v.s.f) /\ u.sep = v.sep /\ u.cfg = NoSep /\ u.users = 0
  BY FreedIs DEF FreeSession, Worlds
<1> HIDE DEF u
<1>2. Sess(u)
  BY <1>1, FreedIs DEF Sess, Held
<1>3. Asked(u) = {} /\ u.s.pending_open = NoSep
  BY <1>1, FreedIs, ElemsEmpty DEF Asked
<1>4. Flow(u)
  <2>1. Named(u)
    BY <1>3 DEF Named
  <2>2. ASSUME NEW e \in Seps PROVE At(u, e)
    <3>1. About(u, e) = {} /\ u.sep[e] = NoStream /\ u.s.pending_open # e
      BY <1>1, <1>3, Outside DEF About
    <3> QED
      BY <3>1, Outside DEF At, NoneLeft, Live, Watched, Starts, Asks
  <2> QED
    BY <2>1, <2>2 DEF Flow
<1> QED
  BY <1>1, <1>2, <1>4 DEF Good, u

\* All of the invariant, but the count is one more than the holders' and the local
\* reference.
OneMore(v) ==
  /\ v \in Worlds /\ Flow(v) /\ v.users \in Nat /\ v.s.state # "FREE"
  /\ v.s.ref = 2 + Held(v)
  /\ "io" \in v.s.f <=> v.s.state \in {"CONNECTING", "CONNECTED"}
  /\ v.s.pending # "none" <=> v.s.state = "CONNECTING"
  /\ v.s.watch = "full" => v.s.state = "CONNECTED"
  /\ "dc_timer" \in v.s.f => v.s.state = "CONNECTED" /\ "stream_setup" \in v.s.f
  /\ v.s.pending \in {"auth", "retry", "accept"} => v.cfg \in EndpointSeps \cup {NoSep}
  /\ v.s.pending = "retry" => "busy" \in AuthResults

LEMMA GoodUnref ==
  ASSUME NEW v, OneMore(v) PROVE Good(avdtp_unref(v))
<1> DEFINE n == v.s.ref - 1
           a == [v EXCEPT !.s.ref = n]
           u == avdtp_unref(v)
<1>0. v \in Worlds
  BY DEF OneMore
<1>1. n \in Int /\ v.s.ref \in Int
  BY <1>0 DEF Worlds, Sessions
<1>3. u = CASE a.s.ref = 1 /\ a.s.state = "CONNECTED" /\ Is(a, "io") -> set_disconnect_timer(a)
            [] a.s.ref = 1 /\ ~(a.s.state = "CONNECTED" /\ Is(a, "io")) -> FreeSession(a)
            [] a.s.ref = 0 -> FreeSession(a)
            [] OTHER -> a
  BY DEF avdtp_unref
<1> HIDE DEF n, u
<1>2. Channel(a, v) /\ a.s.ref = n /\ a.s.f = v.s.f
  BY <1>0, <1>1, CountIs
<1> HIDE DEF a
<1>4. Flow(a) /\ a \in Worlds
  BY <1>2, FlowChannel DEF OneMore, Channel
<1>5. Sess(a) /\ a.s.ref >= 1 /\ a.s.ref = 1 + Held(a)
  BY <1>1, <1>2 DEF OneMore, Sess, Held, Channel, n
<1>6. Good(a)
  BY <1>4, <1>5 DEF Good
<1>7. CASE a.s.ref = 1 /\ a.s.state = "CONNECTED" /\ Is(a, "io")
  <2>1. u = set_disconnect_timer(a)
    BY <1>3, <1>7
  <2>2. Flags(u, a) /\ u.s.f = NoTimer(a.s.f) \cup {"dc_timer"}
    BY <1>4, <2>1, SetTimer
  <2> QED
    BY <1>6, <1>7, <2>2, GoodFlags DEF NoTimer, u
<1>8. CASE a.s.ref = 1 /\ ~(a.s.state = "CONNECTED" /\ Is(a, "io"))
  <2>1. u = FreeSession(a)
    BY <1>3, <1>8
  <2>2. a.users = 0 /\ a.cfg = NoSep
    BY <1>5, <1>8 DEF Held, Sess
  <2>3. a.s.state # "CONNECTED"
    BY <1>5, <1>8 DEF Sess, Is
  <2>4. \A e \in Seps : a.sep[e] = NoStream
    BY <1>4, <2>3 DEF Flow, At, Live, NoneLeft
  <2> QED
    BY <1>4, <2>1, <2>2, <2>4, GoodFree DEF u
<1>9. CASE a.s.ref # 1
  <2>1. u = a
    BY <1>3, <1>5, <1>9
  <2> QED
    BY <1>6, <2>1 DEF u
<1> QED
  BY <1>7, <1>8, <1>9 DEF u

LEMMA GoodUserUnref ==
  ASSUME NEW v, Good(v), v.s.state # "FREE", v.users > 0
  PROVE  Good(UserUnref(v))
<1> DEFINE u == [v EXCEPT !.users = v.users - 1]
<1>1. v \in Worlds
  BY DEF Good
<1>2. UserUnref(v) = avdtp_unref(u)
  BY DEF UserUnref
<1>3. /\ u \in Worlds /\ u.s = v.s /\ u.sep = v.sep /\ u.cfg = v.cfg /\ u.users = v.users - 1
  BY <1>1 DEF Worlds
<1> HIDE DEF u
<1>4. Flow(u)
  <2>1. Asked(u) = Asked(v)
    BY <1>3 DEF Asked
  <2> QED
    BY <1>3, <2>1, FlowKept DEF Good, SameStreams
<1>5. OneMore(u)
  BY <1>1, <1>3, <1>4 DEF OneMore, Good, Sess, Held
<1> QED
  BY <1>2, <1>5, GoodUnref

-----------------------------------------------------------------------------
(* The connection is lost.                                                 *)

\* The references that the users drop in the callbacks of connection_lost.
DropOk(v) == v.drop \in 0..v.users /\ (UsersRelease => v.drop = v.users)

\* connection_lost may be called in the middle of a handler.
MayLose(v) ==
  /\ v \in Worlds /\ v.users \in Nat /\ v.s.state # "FREE" /\ v.s.ref = 1 + Held(v) /\ DropOk(v)
  /\ Named(v)
  /\ v.s.pending = "retry" => "busy" \in AuthResults /\ v.cfg \in EndpointSeps \cup {NoSep}

LEMMA GoodMayLose ==
  ASSUME NEW v, Good(v), v.s.state # "FREE", DropOk(v) PROVE MayLose(v)
  BY DEF Good, Sess, MayLose, Flow

LEMMA MayLoseKept ==
  ASSUME NEW u \in Worlds, NEW v, MayLose(v), SameSess(u, v), Asked(u) \subseteq Asked(v)
  PROVE  MayLose(u)
<1>1. Named(u)
  BY DEF MayLose, Named
<1> QED
  BY <1>1 DEF MayLose, SameSess, Held, DropOk

LEMMA ReleaseAllIs ==
  ASSUME NEW v \in Worlds, Named(v)
  PROVE  LET u == ReleaseAll(v)
         IN /\ u \in Worlds /\ SameSess(u, v) /\ u.s.pending_open = NoSep
            /\ \A e \in Seps : u.sep[e] = NoStream
            /\ \A r \in Asked(u) : r.stream = NoSep /\ r.sig \in Streamless
<1> DEFINE r == IF v.s.req.stream # NoSep
                THEN IF v.s.req.sig = "ABORT" THEN [v.s.req EXCEPT !.stream = NoSep] ELSE NoReq
                ELSE v.s.req
           a == [v EXCEPT !.s.req = r]
           pq == WithoutStream(v.s.prio_queue)
           rq == WithoutStream(v.s.req_queue)
           sp == [e \in Seps |-> NoStream]
           u == [a EXCEPT !.sep = sp, !.s.pending_open = NoSep,
                          !.s.prio_queue = pq, !.s.req_queue = rq]
<1>1. r \in Request \cup {NoReq} /\ r.stream = NoSep
  BY Queues, Outside DEF Request, SepOrNone
<1>a. r # NoReq => r.sig \in Streamless
  <2>1. CASE v.s.req.stream # NoSep
    BY <2>1, Queues, Outside DEF Request, Streamless
  <2>2. CASE v.s.req.stream = NoSep
    BY <2>2 DEF Named, Asked
  <2> QED
    BY <2>1, <2>2
<1>b. \A x \in Elems(v.s.prio_queue) \cup Elems(v.s.req_queue) :
        x.stream = NoSep => x.sig \in Streamless
  <2>1. \A x \in Elems(v.s.prio_queue) \cup Elems(v.s.req_queue) : x \in Asked(v)
    BY Queues, ElemsIn, Outside DEF Asked
  <2> QED
    BY <2>1 DEF Named
<1>2. /\ pq \in Seq(Request) /\ Elems(pq) = {x \in Elems(v.s.prio_queue) : x.stream = NoSep}
      /\ rq \in Seq(Request) /\ Elems(rq) = {x \in Elems(v.s.req_queue) : x.stream = NoSep}
  BY Queues, WithoutStreamIs
<1>3. (IF v.s.req.stream # NoSep THEN handle_unanswered_req(v) ELSE v) = a
  <2>1. CASE v.s.req.stream # NoSep
    BY <2>1 DEF handle_unanswered_req
  <2>2. CASE v.s.req.stream = NoSep
    BY <2>2 DEF Worlds, Sessions
  <2> QED
    BY <2>1, <2>2
<1> HIDE DEF r, pq, rq
<1>4. /\ Requests(a, v) /\ a.s.req = r /\ a.s.prio_queue = v.s.prio_queue
      /\ a.s.req_queue = v.s.req_queue
  BY <1>1, ReqIs
<1> HIDE DEF a
<1>5. ReleaseAll(v) = [a EXCEPT !.sep = sp, !.s.pending_open = NoSep,
                                !.s.prio_queue = WithoutStream(a.s.prio_queue),
                                !.s.req_queue = WithoutStream(a.s.req_queue)]
  BY <1>3 DEF ReleaseAll
<1>6. ReleaseAll(v) = u
  BY <1>4, <1>5 DEF pq, rq
<1>7. sp \in [Seps -> StreamsOf]
  BY Outside
<1> HIDE DEF sp
<1>8. /\ u \in Worlds /\ SameSess(u, a) /\ u.s.pending_open = NoSep /\ u.sep = sp
      /\ u.s.req = r /\ u.s.prio_queue = pq /\ u.s.req_queue = rq
  BY <1>2, <1>4, <1>7 DEF Requests, Worlds, Sessions, SameSess, SepOrNone
<1> HIDE DEF u
<1>9. \A x \in Asked(u) : x.stream = NoSep /\ x.sig \in Streamless
  BY <1>1, <1>a, <1>b, <1>2, <1>8 DEF Asked
<1>10. SameSess(u, v)
  BY <1>4, <1>8 DEF Requests, SameSess
<1>11. \A e \in Seps : u.sep[e] = NoStream
  BY <1>8 DEF sp
<1> QED
  BY <1>6, <1>8, <1>9, <1>10, <1>11

\* The session waits for its holders, or nobody holds it and it is freed.
LEMMA ConnectionLost ==
  ASSUME Authorized, NEW v, MayLose(v)
  PROVE  Good(connection_lost(v)) /\ connection_lost(v).s.state # "CONNECTED"
<1> DEFINE w1 == finalize_discovery(v)
           w2 == ReleaseAll(w1)
           n == w2.s.ref - v.drop
           m == w2.users - v.drop
           po == IF w2.s.pending = "retry" THEN w2.s.pending ELSE "none"
           w3 == [w2 EXCEPT !.s.ref = n, !.users = m, !.s.state = "DISCONNECTED",
                            !.s.watch = "none", !.s.pending = po]
           a == Off(w3, "io")
           b == remove_disconnect_timer(a)
           w4 == On(b, "auto_dc")
<1>0. connection_lost(v) = IF w4.s.ref = 1 THEN avdtp_unref(w4) ELSE w4
  BY DEF connection_lost
<1>1. v \in Worlds /\ Named(v)
  BY DEF MayLose
<1>2. Flags(w1, v) /\ Named(w1)
  <2>1. Flags(w1, v)
    BY <1>1, OffIs DEF finalize_discovery
  <2> HIDE DEF w1
  <2> QED
    BY <1>1, <2>1 DEF Flags, Channel, Named
<1> HIDE DEF w1
<1>3. /\ w2 \in Worlds /\ SameSess(w2, w1) /\ w2.s.pending_open = NoSep
      /\ \A e \in Seps : w2.sep[e] = NoStream
      /\ \A r \in Asked(w2) : r.stream = NoSep /\ r.sig \in Streamless
  BY <1>2, ReleaseAllIs DEF Flags, Channel
<1> HIDE DEF w2
<1>4. /\ w2.s.ref = v.s.ref /\ w2.users = v.users /\ w2.cfg = v.cfg
      /\ w2.s.pending = v.s.pending
  BY <1>2, <1>3 DEF Flags, Channel, SameSess
<1>5. n \in Int /\ m \in Nat /\ po \in Pending /\ n = 1 + m + (IF v.cfg = NoSep THEN 0 ELSE 1)
  <2>1. v.s.ref \in Int /\ v.users \in Nat /\ v.drop \in 0..v.users
        /\ v.s.ref = 1 + (v.users + (IF v.cfg = NoSep THEN 0 ELSE 1))
    BY <1>1 DEF MayLose, Worlds, Sessions, DropOk, Held
  <2>2. w2.s.pending \in Pending /\ "none" \in Pending
    BY <1>3 DEF Worlds, Sessions, Pending
  <2> QED
    BY <1>4, <2>1, <2>2
<1>6. n # 1 => po = "none"
  <2> SUFFICES ASSUME v.s.pending = "retry" PROVE n = 1
    BY <1>4
  <2>1. UsersRelease /\ EndpointSeps = {} /\ v.cfg = NoSep /\ v.drop = v.users /\ v.users \in Nat
    BY DEF MayLose, Authorized, DropOk
  <2>2. m = 0
    BY <1>4, <2>1
  <2> HIDE DEF m, n
  <2> QED
    BY <1>5, <2>1, <2>2
<1> HIDE DEF n, m, po
<1>7. /\ w3 \in Worlds /\ w3.sep = w2.sep /\ w3.s.pending_open = w2.s.pending_open
      /\ w3.s.req = w2.s.req /\ w3.s.prio_queue = w2.s.prio_queue
      /\ w3.s.req_queue = w2.s.req_queue /\ w3.s.state = "DISCONNECTED" /\ w3.s.pending = po
      /\ w3.s.watch = "none" /\ w3.cfg = w2.cfg /\ w3.users = m /\ w3.s.ref = n
  <2>1. "DISCONNECTED" \in SessionStates /\ "none" \in Watches
    BY DEF SessionStates, Watches
  <2> DEFINE ses == [w2.s EXCEPT !.ref = n, !.state = "DISCONNECTED", !.watch = "none",
                                 !.pending = po]
  <2>2. w2.s \in Sessions
    BY <1>3 DEF Worlds
  <2>3. /\ ses \in Sessions /\ ses.pending_open = w2.s.pending_open /\ ses.req = w2.s.req
        /\ ses.prio_queue = w2.s.prio_queue /\ ses.req_queue = w2.s.req_queue
        /\ ses.state = "DISCONNECTED" /\ ses.pending = po /\ ses.watch = "none" /\ ses.ref = n
    BY <1>5, <2>1, <2>2 DEF Sessions
  <2>4. w3 = [w2 EXCEPT !.s = ses, !.users = m]
    BY <1>3 DEF Worlds
  <2> HIDE DEF ses, w3
  <2>5. w3 \in Worlds /\ w3.s = ses /\ w3.sep = w2.sep /\ w3.cfg = w2.cfg /\ w3.users = m
    <3>1. w2 \in Worlds /\ m \in Int /\ ses \in Sessions
      BY <1>3, <1>5, <2>3
    <3> QED
      BY <2>4, <3>1 DEF Worlds
  <2> QED
    BY <2>3, <2>5
<1> HIDE DEF w3
<1>8. Asked(w3) = Asked(w2)
  BY <1>7 DEF Asked
<1>9. Flags(a, w3) /\ a.s.f = w3.s.f \ {"io"}
  BY <1>7, OffIs
<1> HIDE DEF a
<1>10. Flags(b, a) /\ b.s.f = NoTimer(a.s.f)
  BY <1>9, RemoveTimer DEF Flags, Channel
<1> HIDE DEF b
<1>11. Flags(w4, b) /\ w4.s.f = b.s.f \cup {"auto_dc"}
  <2>1. b \in Worlds /\ "auto_dc" \in SessionFlags
    BY <1>10 DEF Flags, Channel, SessionFlags
  <2> QED
    BY <2>1, OnIs
<1> HIDE DEF w4
<1>12. Flags(w4, w3)
  BY <1>9, <1>10, <1>11, FlagsTrans
<1>13. "io" \notin w4.s.f /\ "dc_timer" \notin w4.s.f
  BY <1>9, <1>10, <1>11 DEF NoTimer
<1>14. /\ w4 \in Worlds /\ w4.sep = w2.sep /\ w4.s.pending_open = NoSep /\ Asked(w4) = Asked(w2)
       /\ w4.s.state = "DISCONNECTED" /\ w4.s.pending = po /\ w4.s.watch = "none"
       /\ w4.cfg = v.cfg /\ w4.users = m /\ w4.s.ref = n
  BY <1>3, <1>4, <1>7, <1>8, <1>12 DEF Flags, Channel, SameStreams
<1>15. CASE n = 1
  <2> DEFINE k == w4.s.ref - 1
             c == [w4 EXCEPT !.s.ref = k]
  <2>1. k = 0 /\ k \in Int
    BY <1>14, <1>15
  <2>2. avdtp_unref(w4) = CASE c.s.ref = 1 /\ c.s.state = "CONNECTED" /\ Is(c, "io") -> set_disconnect_timer(c)
            [] c.s.ref = 1 /\ ~(c.s.state = "CONNECTED" /\ Is(c, "io")) -> FreeSession(c)
            [] c.s.ref = 0 -> FreeSession(c)
            [] OTHER -> c
    BY DEF avdtp_unref
  <2> HIDE DEF k
  <2>3. Channel(c, w4) /\ c.s.ref = k
    BY <1>14, <2>1, CountIs
  <2> HIDE DEF c
  <2>4. avdtp_unref(w4) = FreeSession(c)
    BY <2>1, <2>2, <2>3
  <2>5. c.users = 0 /\ c.cfg = NoSep
    BY <1>5, <1>14, <1>15, <2>3 DEF Channel
  <2>6. \A e \in Seps : c.sep[e] = NoStream
    BY <1>3, <1>14, <2>3 DEF Channel, SameStreams
  <2>7. Good(FreeSession(c))
    BY <2>3, <2>5, <2>6, GoodFree DEF Channel
  <2>8. FreeSession(c).s.state = "FREE"
    BY <2>3, FreedIs DEF FreeSession, Channel, Worlds
  <2> QED
    BY <1>0, <1>14, <1>15, <2>4, <2>7, <2>8
<1>16. CASE n # 1
  <2>1. Sess(w4)
    BY <1>5, <1>6, <1>13, <1>14, <1>16 DEF Sess, Held
  <2>2. Flow(w4)
    <3>1. Named(w4)
      BY <1>3, <1>14, Outside DEF Named
    <3>2. ASSUME NEW e \in Seps PROVE At(w4, e)
      <4>1. About(w4, e) = {} /\ w4.sep[e] = NoStream /\ w4.s.pending_open # e
        BY <1>3, <1>14, Outside DEF About
      <4> QED
        BY <4>1, Outside DEF At, NoneLeft, Live, Watched, Starts, Asks
    <3> QED
      BY <3>1, <3>2 DEF Flow
  <2> QED
    BY <1>0, <1>14, <1>16, <2>1, <2>2 DEF Good
<1> QED
  BY <1>15, <1>16

-----------------------------------------------------------------------------
(* Requests about a stream.                                                *)

\* The request in flight, which is not an Abort, is dropped and stream e is aborted.
Aborted(w, v, e) ==
  /\ Good(w) /\ w.s.state = "CONNECTED" /\ w.s.req = NoReq /\ w.s.prio_queue = v.s.prio_queue
  /\ e \in Seps /\ v.s.req.sig # "ABORT" /\ {"stream", "abort_int"} \subseteq w.sep[e].f
  /\ "stream" \in v.sep[e].f /\ \A x \in Seps : x # e => w.sep[x] = v.sep[x]

\* Every request that is cancelled aborts its stream or ends the session.
LEMMA CancelRequest ==
  ASSUME Authorized, NEW v, Good(v), DropOk(v), v.s.req # NoReq
  PROVE  /\ Good(cancel_request(v))
         /\ \/ cancel_request(v).s.state # "CONNECTED"
            \/ \E w, e : Aborted(w, v, e) /\ cancel_request(v) = send_request(w, TRUE, e, "ABORT", e)
<1> DEFINE r == v.s.req
           stream == IF r.seid \in Streams(v) THEN r.seid ELSE NoSep
           w1 == [v EXCEPT !.s.req = NoReq]
           w2 == IF stream = NoSep THEN w1 ELSE Set(w1, stream, "abort_int")
           w3 == CASE stream # NoSep /\ r.sig = "START" -> Clear(w2, stream, "starting")
                   [] stream # NoSep /\ r.sig = "CLOSE" -> Clear(w2, stream, "close_int")
                   [] OTHER -> w2
           ends == \/ r.sig \in {"SET_CONFIGURATION", "DISCOVER", "GET_CAPABILITIES",
                                 "ABORT"}
                   \/ stream = NoSep
                   \/ Refused(w3, stream, "ABORT")
<1>0. cancel_request(v) = IF ends THEN connection_lost(w3)
                          ELSE send_request(w3, TRUE, stream, "ABORT", r.seid)
  BY DEF cancel_request
<1>1. v \in Worlds /\ Sess(v) /\ Flow(v)
  BY DEF Good
<1>2. r \in Request /\ v.s.state # "FREE" /\ r \in Asked(v)
  <2>1. r \in Request
    BY <1>1, Queues
  <2>2. v.s.state # "FREE"
    BY <1>1, FreedIs DEF Sess
  <2> QED
    BY <2>1, <2>2 DEF Asked
<1>3. /\ Requests(w1, v) /\ w1.s.req = NoReq /\ w1.s.prio_queue = v.s.prio_queue
      /\ w1.s.req_queue = v.s.req_queue
  BY <1>1, ReqIs
<1> HIDE DEF w1
<1>4. Asked(w1) \subseteq Asked(v) /\ Asked(v) \subseteq Asked(w1) \cup {r}
  BY <1>3 DEF Asked
<1>5. MayLose(v)
  BY <1>2, GoodMayLose
<1>6. w1 \in Worlds /\ MayLose(w1) /\ SameSess(w1, v)
  BY <1>3, <1>4, <1>5, MayLoseKept DEF Requests
<1>7. CASE stream = NoSep
  <2>1. w3 = w1 /\ ends
    BY <1>7
  <2> QED
    BY <1>0, <1>6, <2>1, ConnectionLost
<1>8. CASE stream # NoSep
  <2>1. stream = r.seid /\ stream \in Seps /\ "stream" \in v.sep[stream].f
    BY <1>8 DEF Streams, Has
  <2> HIDE DEF stream
  <2> DEFINE gone == IF r.sig = "START" THEN {"starting"}
                     ELSE IF r.sig = "CLOSE" THEN {"close_int"} ELSE {}
  <2>2. PICK p \in StreamsOf : /\ w3 = Put(w1, stream, p) /\ p.state = v.sep[stream].state
                               /\ p.f = (v.sep[stream].f \cup {"abort_int"}) \ gone
    <3>1. PICK q \in StreamsOf : /\ Set(w1, stream, "abort_int") = Put(w1, stream, q)
                                 /\ q.state = w1.sep[stream].state
                                 /\ q.f = w1.sep[stream].f \cup {"abort_int"}
      <4>1. "abort_int" \in StreamFlags
        BY DEF StreamFlags
      <4> QED
        BY <1>6, <2>1, <4>1, SetIs
    <3>2. w1.sep = v.sep
      BY <1>3 DEF Requests, SameStreams
    <3>3. w2 = Put(w1, stream, q) /\ w2 \in Worlds /\ w2.sep[stream] = q
      BY <1>6, <1>8, <2>1, <3>1, PutIs
    <3>4. \A x \in StreamsOf : Put(w2, stream, x) = Put(w1, stream, x)
      BY <1>6, <2>1, <3>3 DEF Put, Worlds
    <3> HIDE DEF w2
    <3>5. CASE r.sig = "START"
      <4>1. w3 = Clear(w2, stream, "starting")
        BY <1>8, <3>5
      <4>2. PICK x \in StreamsOf : w3 = Put(w2, stream, x) /\ x.state = q.state /\ x.f = q.f \ {"starting"}
        BY <2>1, <3>3, <4>1, ClearIs
      <4> QED
        BY <3>1, <3>2, <3>4, <3>5, <4>2
    <3>6. CASE r.sig = "CLOSE"
      <4>1. w3 = Clear(w2, stream, "close_int")
        BY <1>8, <3>6
      <4>2. PICK x \in StreamsOf : w3 = Put(w2, stream, x) /\ x.state = q.state /\ x.f = q.f \ {"close_int"}
        BY <2>1, <3>3, <4>1, ClearIs
      <4> QED
        BY <3>1, <3>2, <3>4, <3>6, <4>2
    <3>7. CASE r.sig \notin {"START", "CLOSE"}
      <4>1. w3 = w2
        BY <3>7
      <4> QED
        BY <3>1, <3>2, <3>3, <3>7, <4>1
    <3> QED
      BY <3>5, <3>6, <3>7
  <2> HIDE DEF w3, w2
  <2>3. /\ w3 \in Worlds /\ SameSess(w3, w1) /\ Beside(w3, w1, stream) /\ Asked(w3) = Asked(w1)
        /\ w3.s = w1.s /\ w3.sep[stream] = p /\ About(w3, stream) = About(w1, stream)
    BY <1>6, <2>1, <2>2, PutIs
  <2>4. MayLose(w3) /\ SameSess(w3, v)
    <3>1. SameSess(w3, v)
      BY <1>6, <2>3 DEF SameSess
    <3> QED
      BY <1>4, <1>5, <2>3, <3>1, MayLoseKept
  <2>5. CASE ends
    BY <1>0, <2>4, <2>5, ConnectionLost
  <2>6. CASE ~ends
    <3>1. ASSUME NEW x \in Seps, x # stream PROVE About(w1, x) = About(v, x)
      <4>1. r.stream # x
        <5>1. Named(v) /\ r \in Asked(v)
          BY <1>1, <1>2 DEF Flow
        <5>2. r.stream \in Seps => r.seid = r.stream
          BY <5>1 DEF Named
        <5> QED
          BY <2>1, <3>1, <5>2
      <4> QED
        BY <1>4, <4>1 DEF About
    <3>2. Beside(w3, v, stream)
      BY <1>3, <2>3, <3>1 DEF Beside, Requests, SameStreams
    <3>3. Named(w3)
      BY <1>1, <1>4, <2>3 DEF Flow, Named
    <3>4. At(w3, stream)
      <4>1. "stream" \in p.f /\ "abort_int" \in p.f
        BY <2>1, <2>2
      <4>2. At(v, stream)
        BY <1>1, <2>1 DEF Flow
      <4>3. NoneLeft(w3, stream) /\ Watched(w3, stream)
        BY <2>3, <4>1 DEF NoneLeft, Watched
      <4>4. Live(w3, stream)
        BY <2>1, <2>4, <4>2 DEF Live, At, SameSess
      <4>5. Starts(w3, stream)
        <5> SUFFICES ASSUME p.state = "OPEN", "starting" \in p.f PROVE Asks(w3, stream, "START")
          BY <2>3 DEF Starts
        <5>1. r.sig # "START" /\ Asks(v, stream, "START")
          BY <2>2, <4>2 DEF At, Starts
        <5> QED
          BY <1>4, <2>3, <5>1 DEF Asks, About
      <4> QED
        BY <4>3, <4>4, <4>5 DEF At
    <3>5. Flow(w3)
      BY <1>1, <2>1, <2>4, <3>2, <3>3, <3>4, FlowBeside
    <3>6. Sess(w3)
      BY <1>1, <1>2, <2>3, <2>4, SessKept
    <3>7. Good(w3)
      BY <2>3, <3>5, <3>6 DEF Good
    <3>8. w3.s.state = "CONNECTED" /\ "stream" \in w3.sep[stream].f
      BY <1>1, <2>1, <2>2, <2>3, <2>4, StreamLive DEF SameSess
    <3>9. stream \in SepOrNone /\ stream # NoSep /\ "ABORT" \in Signals /\ TRUE \in BOOLEAN
      BY <2>1, Outside DEF SepOrNone, Signals, StreamCommands
    <3>10. Good(send_request(w3, TRUE, stream, "ABORT", stream))
      BY <3>7, <3>8, <3>9, SendRequest
    <3>11. Aborted(w3, v, stream)
      <4>1. w3.s.req = NoReq /\ w3.s.prio_queue = v.s.prio_queue /\ r.sig # "ABORT"
        BY <1>3, <2>3, <2>6
      <4>2. {"stream", "abort_int"} \subseteq w3.sep[stream].f
        BY <2>1, <2>2, <2>3
      <4>3. \A x \in Seps : x # stream => w3.sep[x] = v.sep[x]
        BY <3>2 DEF Beside
      <4> QED
        BY <2>1, <3>7, <3>8, <4>1, <4>2, <4>3 DEF Aborted
    <3>12. cancel_request(v) = send_request(w3, TRUE, stream, "ABORT", stream)
      BY <1>0, <2>1, <2>6
    <3> QED
      BY <3>10, <3>11, <3>12
  <2> QED
    BY <2>5, <2>6
<1> QED
  BY <1>7, <1>8

\* A request about a stream that has one, which does not start it.
LEMMA AskStream ==
  ASSUME NEW v, Good(v), NEW e \in Seps, "stream" \in v.sep[e].f, NEW prio \in BOOLEAN,
         NEW sig \in StreamCommands,
         sig \in {"START", "SUSPEND"} => "io_id" \in v.sep[e].f \/ "abort_int" \in v.sep[e].f
  PROVE  LET u == send_request(v, prio, e, sig, e)
         IN /\ Good(u) /\ Requests(u, v) /\ u.sep = v.sep
            /\ ~Refused(v, e, sig) => Asks(u, e, sig)
            /\ v.s.req # NoReq => u.s.req = v.s.req
<1>1. v \in Worlds /\ Flow(v)
  BY DEF Good
<1>2. v.s.state = "CONNECTED"
  BY <1>1, StreamLive
<1>3. e \in SepOrNone /\ e # NoSep /\ sig \in Signals
  BY Outside DEF SepOrNone, Signals
<1> DEFINE u == send_request(v, prio, e, sig, e)
<1>4. /\ Good(u) /\ Requests(u, v)
      /\ ~Refused(v, e, sig) => Asked(u) = Asked(v) \cup {Req(sig, e, e)}
      /\ v.s.req # NoReq => u.s.req = v.s.req
  BY <1>2, <1>3, SendRequest
<1> HIDE DEF u
<1>5. Req(sig, e, e) # NoReq /\ Req(sig, e, e).stream = e /\ Req(sig, e, e).sig = sig
  BY Outside DEF Req, NoReq
<1>6. ~Refused(v, e, sig) => Asks(u, e, sig)
  BY <1>4, <1>5 DEF Asks, About
<1> QED
  BY <1>4, <1>6 DEF Requests, SameStreams, u

LEMMA GoodAbort ==
  ASSUME Authorized, NEW v, Good(v), DropOk(v), NEW e \in Seps
  PROVE  Good(avdtp_abort(v, e))
<1>1. v \in Worlds /\ Flow(v)
  BY DEF Good
<1>2. CASE ~Has(v, e, "stream") \/ v.sep[e].state = "ABORTING"
  <2>1. avdtp_abort(v, e) = v
    BY <1>2 DEF avdtp_abort
  <2> QED
    BY <2>1
<1>3. CASE ~(~Has(v, e, "stream") \/ v.sep[e].state = "ABORTING") /\ v.s.req.stream = e
  <2>1. avdtp_abort(v, e) = cancel_request(v)
    BY <1>3 DEF avdtp_abort
  <2>2. v.s.req # NoReq
    BY <1>3, Outside
  <2> QED
    BY <2>1, <2>2, CancelRequest
<1>4. CASE ~(~Has(v, e, "stream") \/ v.sep[e].state = "ABORTING") /\ v.s.req.stream # e
  <2> DEFINE a == send_request(v, TRUE, e, "ABORT", e)
  <2>1. avdtp_abort(v, e) = IF Refused(v, e, "ABORT") THEN v ELSE Set(a, e, "abort_int")
    BY <1>4 DEF avdtp_abort
  <2>2. Good(a) /\ a.sep = v.sep
    <3>1. "stream" \in v.sep[e].f /\ "ABORT" \in StreamCommands
      BY <1>4 DEF Has, StreamCommands
    <3> QED
      BY <3>1, AskStream
  <2> HIDE DEF a
  <2>3. a \in Worlds
    BY <2>2 DEF Good
  <2>4. PICK p \in StreamsOf : /\ Set(a, e, "abort_int") = Put(a, e, p)
                               /\ p.state = a.sep[e].state
                               /\ p.f = a.sep[e].f \cup {"abort_int"}
    BY <2>3, SetIs DEF StreamFlags
  <2>5. "stream" \in a.sep[e].f
    BY <1>4, <2>2 DEF Has
  <2>6. a.sep[e].state = "OPEN" /\ "starting" \in a.sep[e].f => Asks(a, e, "START")
    BY <2>2 DEF Good, Flow, At, Starts
  <2>7. Good(Put(a, e, p))
    BY <2>2, <2>4, <2>5, <2>6, GoodPut
  <2> QED
    BY <2>1, <2>4, <2>7
<1> QED
  BY <1>2, <1>3, <1>4

LEMMA GoodClose ==
  ASSUME NEW v, Good(v), NEW e \in Seps
  PROVE  Good(avdtp_close(v, e)) /\ SameSess(avdtp_close(v, e), v)
         /\ ("idle_timer" \in v.sep[e].f => "stream" \in avdtp_close(v, e).sep[e].f)
<1>1. v \in Worlds /\ Flow(v)
  BY DEF Good
<1>2. "idle_timer" \in v.sep[e].f => "stream" \in v.sep[e].f
  BY <1>1, StreamLive
<1> DEFINE keeps == \/ ~Has(v, e, "stream") \/ v.sep[e].state \in {"IDLE", "CONFIGURED"}
                    \/ Has(v, e, "close_int") \/ Refused(v, e, "CLOSE")
           a == send_request(v, FALSE, e, "CLOSE", e)
<1>3. avdtp_close(v, e) = IF keeps THEN v ELSE Set(a, e, "close_int")
  BY DEF avdtp_close
<1>4. CASE keeps
  BY <1>2, <1>3, <1>4 DEF SameSess
<1>5. CASE ~keeps
  <2>1. "stream" \in v.sep[e].f /\ "CLOSE" \in StreamCommands
    BY <1>5 DEF Has, StreamCommands
  <2>2. Good(a) /\ a.sep = v.sep /\ SameSess(a, v)
    BY <2>1, AskStream DEF Requests
  <2> HIDE DEF a, keeps
  <2>3. a \in Worlds
    BY <2>2 DEF Good
  <2>4. PICK p \in StreamsOf : /\ Set(a, e, "close_int") = Put(a, e, p)
                               /\ p.state = a.sep[e].state
                               /\ p.f = a.sep[e].f \cup {"close_int"}
    BY <2>3, SetIs DEF StreamFlags
  <2>5. At(a, e)
    BY <2>2 DEF Good, Flow
  <2>6. Good(Put(a, e, p))
    BY <2>1, <2>2, <2>4, <2>5, GoodPut DEF At, Watched, Starts
  <2>7. SameSess(Put(a, e, p), a) /\ Put(a, e, p).sep[e] = p
    BY <2>3, PutIs
  <2>8. SameSess(Put(a, e, p), v)
    BY <2>2, <2>7 DEF SameSess
  <2> QED
    BY <1>3, <1>5, <2>1, <2>2, <2>4, <2>6, <2>7, <2>8
<1> QED
  BY <1>4, <1>5

LEMMA GoodDelayReport ==
  ASSUME NEW v, Good(v), NEW e \in Seps
  PROVE  /\ Good(avdtp_delay_report(v, e)) /\ Requests(avdtp_delay_report(v, e), v)
         /\ v.s.req # NoReq => avdtp_delay_report(v, e).s.req = v.s.req
<1> DEFINE a == send_request(v, TRUE, e, "DELAY_REPORT", e)
           asks == /\ Has(v, e, "stream") /\ e \in SinkSeps
                   /\ v.sep[e].state \in {"CONFIGURED", "STREAMING"}
<1>1. avdtp_delay_report(v, e) = IF asks THEN a ELSE v
  BY DEF avdtp_delay_report
<1>2. CASE asks
  <2>1. "stream" \in v.sep[e].f /\ "DELAY_REPORT" \in StreamCommands
    BY <1>2 DEF Has, StreamCommands
  <2>2. Good(a) /\ Requests(a, v) /\ (v.s.req # NoReq => a.s.req = v.s.req)
    BY <2>1, AskStream
  <2> HIDE DEF a
  <2> QED
    BY <1>1, <1>2, <2>2
<1>3. CASE ~asks
  BY <1>1, <1>3 DEF Good, Requests, SameSess, SameStreams
<1> QED
  BY <1>2, <1>3

-----------------------------------------------------------------------------
(* States of a stream.                                                     *)

LEMMA PutPut ==
  ASSUME NEW v \in Worlds, NEW e \in Seps, NEW p \in StreamsOf, NEW q \in StreamsOf
  PROVE  Put(Put(v, e, p), e, q) = Put(v, e, q)
  BY DEF Put, Worlds

LEMMA OpenIs ==
  ASSUME NEW v \in Worlds, NEW e \in Seps, "stream" \in v.sep[e].f
  PROVE  \E p \in StreamsOf :
           /\ avdtp_sep_set_state(v, e, "OPEN") = Put(v, e, p) /\ p.state = "OPEN"
           /\ "starting" \notin p.f /\ v.sep[e].f \ {"starting"} \subseteq p.f
           /\ p.f \subseteq v.sep[e].f \cup {"idle_timer"}
<1> DEFINE w1 == [v EXCEPT !.sep[e].state = "OPEN"]
           w2 == Clear(w1, e, "starting")
           idles == v.sep[e].state \in {"STREAMING", "CLOSING", "ABORTING"} /\ Is(v, "auto_dc")
<1>1. avdtp_sep_set_state(v, e, "OPEN") = IF idles THEN Set(w2, e, "idle_timer") ELSE w2
  BY DEF avdtp_sep_set_state, Has
<1>2. PICK p \in StreamsOf : w1 = Put(v, e, p) /\ p.state = "OPEN" /\ p.f = v.sep[e].f
  <2>1. "OPEN" \in SepStates
    BY DEF SepStates
  <2> QED
    BY <2>1, StateIs
<1> HIDE DEF w1
<1>3. w1 \in Worlds /\ w1.sep[e] = p
  BY <1>2, PutIs
<1>4. PICK q \in StreamsOf : w2 = Put(w1, e, q) /\ q.state = "OPEN" /\ q.f = p.f \ {"starting"}
  BY <1>2, <1>3, ClearIs
<1> HIDE DEF w2
<1>5. w2 = Put(v, e, q) /\ w2 \in Worlds /\ w2.sep[e] = q
  BY <1>2, <1>3, <1>4, PutPut, PutIs
<1>6. CASE ~idles
  BY <1>1, <1>2, <1>4, <1>5, <1>6
<1>7. CASE idles
  <2>1. PICK t \in StreamsOf : /\ Set(w2, e, "idle_timer") = Put(w2, e, t) /\ t.state = "OPEN"
                               /\ t.f = q.f \cup {"idle_timer"}
    <3>1. "idle_timer" \in StreamFlags
      BY DEF StreamFlags
    <3> QED
      BY <1>4, <1>5, <3>1, SetIs
  <2>2. Put(w2, e, t) = Put(v, e, t)
    BY <1>5, PutPut
  <2> QED
    BY <1>1, <1>2, <1>4, <1>7, <2>1, <2>2
<1> QED
  BY <1>6, <1>7

LEMMA LaterIs ==
  ASSUME NEW v \in Worlds, NEW e \in Seps, "stream" \in v.sep[e].f,
         NEW st \in {"STREAMING", "CLOSING", "ABORTING"}
  PROVE  \E p \in StreamsOf :
           /\ avdtp_sep_set_state(v, e, st) = Put(v, e, p) /\ p.state = st
           /\ p.f = v.sep[e].f \ {"idle_timer"}
<1> DEFINE w1 == [v EXCEPT !.sep[e].state = st]
<1>1. avdtp_sep_set_state(v, e, st) = Clear(w1, e, "idle_timer")
  BY DEF avdtp_sep_set_state, Has
<1>2. PICK p \in StreamsOf : w1 = Put(v, e, p) /\ p.state = st /\ p.f = v.sep[e].f
  <2>1. st \in SepStates
    BY DEF SepStates
  <2> QED
    BY <2>1, StateIs
<1> HIDE DEF w1
<1>3. w1 \in Worlds /\ w1.sep[e] = p
  BY <1>2, PutIs
<1>4. PICK q \in StreamsOf : /\ Clear(w1, e, "idle_timer") = Put(w1, e, q) /\ q.state = st
                             /\ q.f = p.f \ {"idle_timer"}
  BY <1>2, <1>3, ClearIs
<1>5. Put(w1, e, q) = Put(v, e, q)
  BY <1>2, PutPut
<1> QED
  BY <1>1, <1>2, <1>4, <1>5

LEMMA NoStreamNoState ==
  ASSUME NEW v, NEW e, NEW st, "stream" \notin v.sep[e].f
  PROVE  avdtp_sep_set_state(v, e, st) = v
  BY DEF avdtp_sep_set_state, Has

LEMMA SetOpen ==
  ASSUME NEW v, Good(v), NEW e \in Seps, "io_id" \in v.sep[e].f \/ "abort_int" \in v.sep[e].f
  PROVE  LET u == avdtp_sep_set_state(v, e, "OPEN") IN Good(u) /\ SameSess(u, v) /\ u.s = v.s
<1>1. v \in Worlds /\ Flow(v)
  BY DEF Good
<1>2. "stream" \in v.sep[e].f
  BY <1>1, StreamLive
<1>3. PICK p \in StreamsOf :
           /\ avdtp_sep_set_state(v, e, "OPEN") = Put(v, e, p) /\ p.state = "OPEN"
           /\ "starting" \notin p.f /\ v.sep[e].f \ {"starting"} \subseteq p.f
           /\ p.f \subseteq v.sep[e].f \cup {"idle_timer"}
  BY <1>1, <1>2, OpenIs
<1>4. Good(Put(v, e, p))
  BY <1>2, <1>3, GoodPut
<1>5. SameSess(Put(v, e, p), v) /\ Put(v, e, p).s = v.s
  BY <1>1, PutIs
<1> QED
  BY <1>3, <1>4, <1>5

LEMMA SetLater ==
  ASSUME NEW v, Good(v), NEW e \in Seps, NEW st \in {"STREAMING", "CLOSING", "ABORTING"},
         st = "STREAMING" /\ "stream" \in v.sep[e].f =>
           "io_id" \in v.sep[e].f \/ "abort_int" \in v.sep[e].f
  PROVE  LET u == avdtp_sep_set_state(v, e, st)
         IN /\ Good(u) /\ SameSess(u, v) /\ u.s = v.s
            /\ "stream" \in u.sep[e].f <=> "stream" \in v.sep[e].f
            /\ "stream" \in v.sep[e].f => u.sep[e].state = st
<1>1. v \in Worlds /\ Flow(v)
  BY DEF Good
<1>2. CASE "stream" \notin v.sep[e].f
  <2>1. avdtp_sep_set_state(v, e, st) = v
    BY <1>2, NoStreamNoState
  <2> QED
    BY <1>2, <2>1 DEF SameSess
<1>3. CASE "stream" \in v.sep[e].f
  <2>1. PICK p \in StreamsOf :
           /\ avdtp_sep_set_state(v, e, st) = Put(v, e, p) /\ p.state = st
           /\ p.f = v.sep[e].f \ {"idle_timer"}
    BY <1>1, <1>3, LaterIs
  <2>2. At(v, e)
    BY <1>1 DEF Flow
  <2>3. "io_id" \in v.sep[e].f \/ "abort_int" \in v.sep[e].f <=> "io_id" \in p.f \/ "abort_int" \in p.f
    BY <2>1
  <2>4. p.state # "OPEN" /\ "stream" \in p.f
    BY <1>3, <2>1
  <2>5. "starting" \in p.f \/ p.state \in {"OPEN", "STREAMING"} => "io_id" \in p.f \/ "abort_int" \in p.f
    BY <1>3, <2>1, <2>2, <2>3 DEF At, Watched
  <2>6. Good(Put(v, e, p))
    BY <1>3, <2>3, <2>4, <2>5, GoodPut
  <2>7. SameSess(Put(v, e, p), v) /\ Put(v, e, p).sep[e] = p /\ Put(v, e, p).s = v.s
    BY <1>1, PutIs
  <2> QED
    BY <1>3, <2>1, <2>4, <2>6, <2>7
<1> QED
  BY <1>2, <1>3

LEMMA SetConfigured ==
  ASSUME NEW v, Good(v), NEW e \in Seps
  PROVE  LET u == avdtp_sep_set_state(v, e, "CONFIGURED")
         IN Good(u) /\ SameSess(u, v) /\ (v.s.req # NoReq => u.s.req = v.s.req)
<1>1. v \in Worlds /\ Flow(v)
  BY DEF Good
<1>2. CASE "stream" \notin v.sep[e].f
  <2>1. avdtp_sep_set_state(v, e, "CONFIGURED") = v
    BY <1>2, NoStreamNoState
  <2> QED
    BY <2>1 DEF SameSess
<1>3. CASE "stream" \in v.sep[e].f
  <2> DEFINE a == [v EXCEPT !.sep[e].state = "CONFIGURED"]
  <2>1. avdtp_sep_set_state(v, e, "CONFIGURED") = avdtp_delay_report(a, e)
    BY <1>3 DEF avdtp_sep_set_state, Has
  <2>2. PICK p \in StreamsOf : a = Put(v, e, p) /\ p.state = "CONFIGURED" /\ p.f = v.sep[e].f
    <3>1. "CONFIGURED" \in SepStates
      BY DEF SepStates
    <3> QED
      BY <1>1, <3>1, StateIs
  <2> HIDE DEF a
  <2>3. At(v, e)
    BY <1>1 DEF Flow
  <2>4. Good(a)
    BY <1>3, <2>2, <2>3, GoodPut DEF At, Watched
  <2>5. SameSess(a, v) /\ a.s = v.s
    BY <1>1, <2>2, PutIs
  <2>6. /\ Good(avdtp_delay_report(a, e)) /\ Requests(avdtp_delay_report(a, e), a)
        /\ a.s.req # NoReq => avdtp_delay_report(a, e).s.req = a.s.req
    BY <2>4, GoodDelayReport
  <2> QED
    BY <2>1, <2>5, <2>6 DEF Requests, SameSess
<1> QED
  BY <1>2, <1>3

LEMMA GoodTake ==
  ASSUME NEW v, Good(v), v.s.pending_open \in Seps
  PROVE  LET e == v.s.pending_open
             u == TakePendingOpen(v)
         IN Good(u) /\ SameSess(u, v) /\ "stream" \in u.sep[e].f /\ v.s.state = "CONNECTED"
<1> DEFINE e == v.s.pending_open
           u == TakePendingOpen(v)
<1>1. v \in Worlds /\ Sess(v) /\ Flow(v)
  BY DEF Good
<1>2. /\ u \in Worlds /\ SameSess(u, v) /\ Beside(u, v, e) /\ Asked(u) = Asked(v)
      /\ About(u, e) = About(v, e) /\ u.s.pending_open = NoSep
      /\ u.sep[e].state = v.sep[e].state /\ u.sep[e].f = v.sep[e].f
  BY <1>1, TakePendingOpenIs
<1>3. e \in Seps
  OBVIOUS
<1>4. "stream" \in v.sep[e].f /\ v.s.state = "CONNECTED"
  BY <1>1, StreamLive
<1> HIDE DEF e, u
<1>5. At(v, e)
  BY <1>1, <1>3 DEF Flow
<1>6. At(u, e)
  BY <1>2, <1>4, <1>5 DEF At, NoneLeft, Live, Watched, Starts, Asks, SameSess
<1>7. Named(u)
  BY <1>1, <1>2 DEF Flow, Named
<1>8. Flow(u)
  BY <1>1, <1>2, <1>3, <1>6, <1>7, FlowBeside
<1>9. Sess(u)
  BY <1>1, <1>2, <1>4, SessKept
<1> QED
  BY <1>2, <1>4, <1>8, <1>9 DEF Good, e, u

LEMMA GoodTransportConnect ==
  ASSUME NEW v, Good(v), v.s.pending_open \in Seps
  PROVE  LET u == handle_transport_connect(v) IN Good(u) /\ u.s.state = "CONNECTED"
<1> DEFINE e == v.s.pending_open
           a == TakePendingOpen(v)
           w1 == Set(a, e, "io")
           b == avdtp_sep_set_state(w1, e, "OPEN")
           u == Set(b, e, "io_id")
<1>0. handle_transport_connect(v) = u
  BY DEF handle_transport_connect
<1>1. Good(a) /\ SameSess(a, v) /\ "stream" \in a.sep[e].f /\ v.s.state = "CONNECTED" /\ e \in Seps
  BY GoodTake
<1> HIDE DEF e, a
<1>2. a \in Worlds /\ At(a, e) /\ "io" \in StreamFlags /\ "io_id" \in StreamFlags
  BY <1>1 DEF Good, Flow, StreamFlags
<1>3. PICK p \in StreamsOf : w1 = Put(a, e, p) /\ p.state = a.sep[e].state /\ p.f = a.sep[e].f \cup {"io"}
  BY <1>1, <1>2, SetIs
<1> HIDE DEF w1
<1>4. Good(w1)
  BY <1>1, <1>2, <1>3, GoodPut DEF At, Watched, Starts
<1>5. w1 \in Worlds /\ w1.sep[e] = p /\ SameSess(w1, a)
  BY <1>1, <1>2, <1>3, PutIs
<1>6. "stream" \in w1.sep[e].f
  BY <1>1, <1>3, <1>5
<1>7. PICK q \in StreamsOf :
           /\ b = Put(w1, e, q) /\ q.state = "OPEN"
           /\ "starting" \notin q.f /\ w1.sep[e].f \ {"starting"} \subseteq q.f
  BY <1>1, <1>5, <1>6, OpenIs
<1> HIDE DEF b
<1>8. b \in Worlds /\ b.sep[e] = q
  BY <1>1, <1>5, <1>7, PutIs
<1>9. PICK t \in StreamsOf : u = Put(b, e, t) /\ t.state = "OPEN" /\ t.f = q.f \cup {"io_id"}
  BY <1>1, <1>2, <1>7, <1>8, SetIs
<1> HIDE DEF u
<1>10. u = Put(w1, e, t)
  BY <1>1, <1>5, <1>7, <1>9, PutPut
<1>11. "stream" \in t.f /\ "io_id" \in t.f /\ "starting" \notin t.f
  BY <1>6, <1>7, <1>9
<1>12. Good(u)
  BY <1>1, <1>4, <1>6, <1>10, <1>11, GoodPut
<1>13. SameSess(u, w1)
  BY <1>1, <1>5, <1>10, PutIs
<1> QED
  BY <1>0, <1>1, <1>5, <1>12, <1>13 DEF SameSess

-----------------------------------------------------------------------------
(* The signalling channel.                                                 *)

\* A request about no stream, in any state of the session.
LEMMA SendReqAny ==
  ASSUME NEW v, Good(v), v.s.state # "FREE", NEW prio \in BOOLEAN, NEW r \in Request,
         r.stream = NoSep, r.sig \in Streamless
  PROVE  LET u == send_req(v, prio, r) IN Good(u) /\ u.s.state # "FREE"
<1>1. v \in Worlds /\ Sess(v) /\ Flow(v) /\ ~SendFails(v)
  BY NoSendFails DEF Good
<1>2. CASE v.s.state = "DISCONNECTED"
  <2> DEFINE a == On(v, "io")
             b == [a EXCEPT !.s.state = "CONNECTING", !.s.pending = "out"]
             u == queue_request(b, prio, r)
  <2>1. send_req(v, prio, r) = u
    <3> DEFINE q == queue_request(v, prio, r)
               k == [v EXCEPT !.s.req = r]
    <3>1. send_req(v, prio, r) =
            CASE SendFails(v) -> v
              [] v.s.state = "DISCONNECTED" -> u
              [] \/ v.s.state = "CONNECTING"
                 \/ v.s.state = "CONNECTED" /\ v.s.req # NoReq -> q
              [] OTHER -> k
      BY DEF send_req
    <3> HIDE DEF u, q, k
    <3> QED
      BY <1>1, <1>2, <3>1
  <2>2. Flags(a, v) /\ a.s.f = v.s.f \cup {"io"}
    BY <1>1, OnIs DEF SessionFlags
  <2> HIDE DEF a
  <2>3. a \in Worlds
    BY <2>2 DEF Flags, Channel
  <2>4. /\ b \in Worlds /\ b.s.state = "CONNECTING" /\ b.s.pending = "out" /\ b.s.ref = a.s.ref
        /\ b.s.watch = a.s.watch /\ b.s.f = a.s.f /\ b.sep = a.sep /\ b.cfg = a.cfg
        /\ b.users = a.users /\ b.s.pending_open = a.s.pending_open
        /\ b.s.req = a.s.req /\ b.s.prio_queue = a.s.prio_queue /\ b.s.req_queue = a.s.req_queue
    <3>1. "CONNECTING" \in SessionStates /\ "out" \in Pending
      BY DEF SessionStates, Pending
    <3> QED
      BY <2>3, <3>1 DEF Worlds, Sessions
  <2> HIDE DEF b
  <2>5. Asked(b) = Asked(a)
    BY <2>4 DEF Asked
  <2>6. Flow(b)
    <3>1. Flow(a) /\ a.s.state = "DISCONNECTED"
      BY <1>1, <1>2, <2>2, FlowChannel DEF Flags, Channel
    <3> QED
      BY <2>4, <2>5, <3>1, FlowKept DEF SameStreams
  <2>7. Sess(b)
    BY <1>1, <1>2, <2>2, <2>4 DEF Sess, Flags, Channel, Held
  <2>8. Good(b)
    BY <2>4, <2>6, <2>7 DEF Good
  <2>9. Requests(u, b) /\ Asked(u) = Asked(b) \cup {r}
    BY <2>4, QueueRequest
  <2> HIDE DEF u
  <2>10. Good(u)
    BY <2>4, <2>8, <2>9, GoodAsked
  <2> QED
    BY <2>1, <2>4, <2>9, <2>10 DEF Requests, SameSess
<1>3. CASE v.s.state = "CONNECTING"
  <2> DEFINE u == queue_request(v, prio, r)
  <2>1. send_req(v, prio, r) = u
    BY <1>1, <1>3 DEF send_req
  <2>2. Requests(u, v) /\ Asked(u) = Asked(v) \cup {r}
    BY <1>1, QueueRequest
  <2> HIDE DEF u
  <2>3. Good(u)
    BY <1>3, <2>2, GoodAsked
  <2> QED
    BY <1>3, <2>1, <2>2, <2>3 DEF Requests, SameSess
<1>4. CASE v.s.state = "CONNECTED"
  <2> DEFINE u == send_req(v, prio, r)
  <2>1. Up(v)
    BY <1>1, <1>4, UpConnected
  <2>2. Requests(u, v) /\ Asked(u) = Asked(v) \cup {r}
    BY <1>1, <2>1, SendReq
  <2> HIDE DEF u
  <2>3. Good(u)
    BY <1>4, <2>2, GoodAsked
  <2> QED
    BY <1>4, <2>2, <2>3 DEF Requests, SameSess, u
<1>5. v.s.state \in SessionStates
  BY <1>1 DEF Worlds, Sessions
<1> QED
  BY <1>2, <1>3, <1>4, <1>5 DEF SessionStates

LEMMA GoodDiscover ==
  ASSUME NEW v, Good(v), v.s.state # "FREE"
  PROVE  Good(avdtp_discover(v))
<1>1. v \in Worlds /\ ~SendFails(v)
  BY NoSendFails DEF Good
<1>2. CASE Is(v, "discov_cb")
  <2>1. avdtp_discover(v) = v
    BY <1>2 DEF avdtp_discover
  <2> QED
    BY <2>1
<1>3. CASE ~Is(v, "discov_cb") /\ v.s.seps # {}
  <2> DEFINE a == On(v, "discov_cb")
  <2>1. avdtp_discover(v) = On(a, "idle")
    BY <1>3 DEF avdtp_discover
  <2>2. Good(a) /\ Flags(a, v)
    BY GoodOn
  <2> HIDE DEF a
  <2>3. a.s.state # "FREE"
    BY <2>2 DEF Flags, Channel
  <2> QED
    BY <2>1, <2>2, <2>3, GoodOn
<1>4. CASE ~Is(v, "discov_cb") /\ v.s.seps = {}
  <2> DEFINE r == Req("DISCOVER", NoSep, NoSep)
             a == send_req(v, FALSE, r)
  <2>1. send_request(v, FALSE, NoSep, "DISCOVER", NoSep) = a
    BY <1>1 DEF send_request, Refused
  <2>2. avdtp_discover(v) = On(send_request(v, FALSE, NoSep, "DISCOVER", NoSep), "discov_cb")
    BY <1>1, <1>4 DEF avdtp_discover
  <2>3. r \in Request /\ r.stream = NoSep /\ r.sig \in Streamless
    BY DEF Req, Request, Signals, SepOrNone, Streamless
  <2> HIDE DEF r
  <2>4. Good(a) /\ a.s.state # "FREE"
    BY <2>3, SendReqAny
  <2> HIDE DEF a
  <2> QED
    BY <2>1, <2>2, <2>4, GoodOn
<1> QED
  BY <1>2, <1>3, <1>4

LEMMA GoodProcessQueue ==
  ASSUME NEW v, Good(v), v.s.state = "CONNECTED" PROVE Good(process_queue(v))
<1>1. v \in Worlds /\ Up(v)
  BY UpConnected DEF Good
<1>2. Requests(process_queue(v), v) /\ Asked(process_queue(v)) = Asked(v)
  BY <1>1, ProcessQueue
<1> QED
  BY <1>2, GoodRequests

LEMMA GoodTransportConnectCb ==
  ASSUME Authorized, NEW v, Good(v), DropOk(v), v.s.state # "FREE", NEW ok \in BOOLEAN
  PROVE  Good(TransportConnectCb(v, ok))
<1> DEFINE e == v.s.pending_open
           w1 == TakePendingOpen(v)
           u == TransportConnectCb(v, ok)
<1>0. u = CASE e # NoSep /\ ok -> process_queue(handle_transport_connect(v))
            [] e # NoSep /\ ~ok -> IF w1.sep[e].state = "ABORTING" \/ SendFails(w1)
                                   THEN avdtp_sep_set_state(w1, e, "IDLE")
                                   ELSE avdtp_abort(w1, e)
            [] OTHER -> connection_lost(v)
  BY DEF TransportConnectCb
<1>1. e \in Seps \cup {NoSep}
  BY DEF Good, Worlds, Sessions, SepOrNone
<1>2. CASE e = NoSep
  <2>1. u = connection_lost(v)
    BY <1>0, <1>2
  <2>2. MayLose(v)
    BY GoodMayLose
  <2> QED
    BY <2>1, <2>2, ConnectionLost
<1>3. CASE e # NoSep /\ ok
  <2>1. u = process_queue(handle_transport_connect(v))
    BY <1>0, <1>3
  <2>2. Good(handle_transport_connect(v)) /\ handle_transport_connect(v).s.state = "CONNECTED"
    BY <1>1, <1>3, GoodTransportConnect
  <2> QED
    BY <2>1, <2>2, GoodProcessQueue
<1>4. CASE e # NoSep /\ ~ok
  <2>1. u \in {avdtp_sep_set_state(w1, e, "IDLE"), avdtp_abort(w1, e)}
    BY <1>0, <1>4
  <2>2. Good(w1) /\ SameSess(w1, v) /\ e \in Seps
    BY <1>1, <1>4, GoodTake
  <2> HIDE DEF w1, e, u
  <2>3. DropOk(w1)
    BY <2>2 DEF SameSess, DropOk
  <2>4. Good(avdtp_sep_set_state(w1, e, "IDLE")) /\ Good(avdtp_abort(w1, e))
    BY <2>2, <2>3, SetIdle, GoodAbort
  <2> QED
    BY <2>1, <2>4 DEF u
<1> QED
  BY <1>2, <1>3, <1>4

LEMMA GoodSignallingUp ==
  ASSUME NEW v, Good(v), v.s.state = "CONNECTING"
  PROVE  Good(SignallingUp(v))
<1> DEFINE w1 == [v EXCEPT !.s.state = "CONNECTED", !.s.watch = "full", !.s.pending = "none"]
           a == set_disconnect_timer(w1)
           w2 == IF Is(w1, "stream_setup") THEN Off(a, "auto_dc") ELSE w1
<1>0. SignallingUp(v) = process_queue(w2)
  BY DEF SignallingUp
<1>1. v \in Worlds /\ Sess(v) /\ Flow(v)
  BY DEF Good
<1>2. /\ w1 \in Worlds /\ w1.s.state = "CONNECTED" /\ w1.s.pending = "none" /\ w1.s.ref = v.s.ref
      /\ w1.s.watch = "full" /\ w1.s.f = v.s.f /\ w1.sep = v.sep /\ w1.cfg = v.cfg
      /\ w1.users = v.users /\ w1.s.pending_open = v.s.pending_open
      /\ w1.s.req = v.s.req /\ w1.s.prio_queue = v.s.prio_queue /\ w1.s.req_queue = v.s.req_queue
  <2>1. "CONNECTED" \in SessionStates /\ "none" \in Pending /\ "full" \in Watches
    BY DEF SessionStates, Pending, Watches
  <2> QED
    BY <1>1, <2>1 DEF Worlds, Sessions
<1> HIDE DEF w1
<1>3. Asked(w1) = Asked(v)
  BY <1>2 DEF Asked
<1>4. Flow(w1)
  <2>1. Named(w1)
    BY <1>1, <1>3 DEF Flow, Named
  <2>2. ASSUME NEW e \in Seps PROVE At(w1, e)
    <3>1. At(v, e) /\ About(w1, e) = About(v, e)
      BY <1>1, <1>3 DEF Flow, About
    <3> QED
      BY <1>2, <3>1 DEF At, NoneLeft, Live, Watched, Starts, Asks
  <2> QED
    BY <2>1, <2>2 DEF Flow
<1>5. "dc_timer" \notin v.s.f
  BY <1>1 DEF Sess
<1>6. Sess(w1)
  BY <1>1, <1>2, <1>5 DEF Sess, Held
<1>7. Good(w1)
  BY <1>2, <1>4, <1>6 DEF Good
<1>8. Good(w2) /\ w2.s.state = "CONNECTED"
  <2>1. CASE Is(w1, "stream_setup")
    <3>1. Flags(a, w1) /\ a.s.f = NoTimer(w1.s.f) \cup {"dc_timer"}
      BY <1>2, SetTimer
    <3> HIDE DEF a
    <3>2. "stream_setup" \in a.s.f /\ ("io" \in a.s.f <=> "io" \in w1.s.f)
      BY <1>2, <1>5, <2>1, <3>1 DEF NoTimer, Is
    <3>3. Good(a) /\ a.s.state = "CONNECTED"
      BY <1>2, <1>7, <3>1, <3>2, GoodFlags DEF Flags, Channel
    <3>4. Good(Off(a, "auto_dc")) /\ Flags(Off(a, "auto_dc"), a)
      BY <3>3, GoodOff
    <3> QED
      BY <2>1, <3>3, <3>4 DEF Flags, Channel
  <2>2. CASE ~Is(w1, "stream_setup")
    BY <1>2, <1>7, <2>2
  <2> QED
    BY <2>1, <2>2
<1> HIDE DEF w2
<1> QED
  BY <1>0, <1>8, GoodProcessQueue

\* The session is allocated: nobody held one.
LEMMA GoodGetInternal ==
  ASSUME NEW v, Good(v)
  PROVE  LET u == avdtp_get_internal(v)
         IN Good(u) /\ u.s.state # "FREE" /\ (v.s.state # "FREE" => u = v) /\ u.users = v.users
            /\ (v.s.state = "FREE" => u.s.state = "DISCONNECTED") /\ u.cfg = v.cfg
<1>1. v \in Worlds /\ Sess(v) /\ Flow(v)
  BY DEF Good
<1>2. CASE v.s.state # "FREE"
  <2>1. avdtp_get_internal(v) = v
    BY <1>2 DEF avdtp_get_internal
  <2> QED
    BY <1>2, <2>1
<1>3. CASE v.s.state = "FREE"
  <2> DEFINE u == [v EXCEPT !.s = NewSession]
  <2>1. avdtp_get_internal(v) = u
    BY <1>3 DEF avdtp_get_internal
  <2>2. /\ NewSession \in Sessions /\ NewSession.state = "DISCONNECTED" /\ NewSession.ref = 1
        /\ NewSession.f = {"auto_dc"} /\ NewSession.pending = "none" /\ NewSession.watch = "none"
        /\ NewSession.req = NoReq /\ NewSession.prio_queue = << >> /\ NewSession.req_queue = << >>
        /\ NewSession.pending_open = NoSep
    <3>1. /\ NoSession.pending = "none" /\ NoSession.watch = "none" /\ NoSession.req = NoReq
          /\ NoSession.prio_queue = << >> /\ NoSession.req_queue = << >>
          /\ NoSession.pending_open = NoSep /\ NoSession \in Sessions
      BY Outside DEF NoSession
    <3>2. /\ "DISCONNECTED" \in SessionStates /\ "none" \in Pending /\ "none" \in Watches
          /\ {"auto_dc"} \in SUBSET SessionFlags /\ NoSep \in SepOrNone /\ << >> \in Seq(Request)
      BY DEF SessionStates, Pending, Watches, SessionFlags, SepOrNone
    <3>3. NewSession \in Sessions
      <4>1. ASSUME NEW z \in Sessions, NEW st \in SessionStates, NEW n \in Int,
                   NEW f \in SUBSET SessionFlags
            PROVE  [z EXCEPT !.state = st, !.ref = n, !.f = f] \in Sessions
        BY DEF Sessions
      <4>2. NoSession \in Sessions /\ 1 \in Int
        BY Outside
      <4> QED
        BY <3>2, <4>1, <4>2 DEF NewSession
    <3> QED
      BY <3>1, <3>3 DEF NewSession, Sessions
  <2>3. u \in Worlds /\ u.s = NewSession /\ u.sep = v.sep /\ u.cfg = v.cfg /\ u.users = v.users
    BY <1>1, <2>2 DEF Worlds
  <2> HIDE DEF u
  <2>4. Sess(u)
    <3>1. v.users = 0 /\ v.cfg = NoSep
      BY <1>1, <1>3 DEF Sess
    <3> QED
      BY <2>2, <2>3, <3>1 DEF Sess, Held
  <2>5. Asked(u) = {}
    BY <2>2, <2>3, ElemsEmpty DEF Asked
  <2>6. ASSUME NEW e \in Seps PROVE At(u, e)
    <3>1. v.sep[e] = NoStream
      BY <1>1, <1>3 DEF Flow, At, Live, NoneLeft
    <3>2. About(u, e) = {} /\ u.sep[e] = NoStream /\ u.s.pending_open # e
      BY <2>2, <2>3, <2>5, <3>1, Outside DEF About
    <3> QED
      BY <3>2, Outside DEF At, NoneLeft, Live, Watched, Starts, Asks
  <2>7. Flow(u)
    BY <2>5, <2>6 DEF Flow, Named
  <2> QED
    BY <1>3, <2>1, <2>2, <2>3, <2>4, <2>7 DEF Good
<1> QED
  BY <1>2, <1>3

-----------------------------------------------------------------------------
(* One stream at a time.                                                   *)

LEMMA GoodSet ==
  ASSUME NEW v, Good(v), NEW e \in Seps, "stream" \in v.sep[e].f,
         NEW x \in StreamFlags \ {"starting"}
  PROVE  LET u == Set(v, e, x)
         IN /\ Good(u) /\ SameSess(u, v) /\ u.s = v.s /\ "stream" \in u.sep[e].f
            /\ u.sep[e].state = v.sep[e].state
<1>1. v \in Worlds /\ At(v, e)
  BY DEF Good, Flow
<1>2. PICK p \in StreamsOf : /\ Set(v, e, x) = Put(v, e, p) /\ p.state = v.sep[e].state
                             /\ p.f = v.sep[e].f \cup {x}
  BY <1>1, SetIs
<1>3. Good(Put(v, e, p))
  BY <1>1, <1>2, GoodPut DEF At, Watched, Starts
<1>4. SameSess(Put(v, e, p), v) /\ Put(v, e, p).s = v.s /\ Put(v, e, p).sep[e] = p
  BY <1>1, PutIs
<1> QED
  BY <1>2, <1>3, <1>4

LEMMA GoodClear ==
  ASSUME NEW v, Good(v), NEW e \in Seps, "stream" \in v.sep[e].f,
         NEW x, x \notin {"stream", "io_id", "abort_int"}
  PROVE  LET u == Clear(v, e, x)
         IN /\ Good(u) /\ SameSess(u, v) /\ u.s = v.s /\ "stream" \in u.sep[e].f
            /\ u.sep[e].state = v.sep[e].state /\ u.sep[e].f = v.sep[e].f \ {x}
<1>1. v \in Worlds /\ At(v, e)
  BY DEF Good, Flow
<1>2. PICK p \in StreamsOf : /\ Clear(v, e, x) = Put(v, e, p) /\ p.state = v.sep[e].state
                             /\ p.f = v.sep[e].f \ {x}
  BY <1>1, ClearIs
<1>3. Good(Put(v, e, p))
  BY <1>1, <1>2, GoodPut DEF At, Watched, Starts
<1>4. SameSess(Put(v, e, p), v) /\ Put(v, e, p).s = v.s /\ Put(v, e, p).sep[e] = p
  BY <1>1, PutIs
<1> QED
  BY <1>2, <1>3, <1>4

LEMMA GoodTimer ==
  ASSUME NEW v, Good(v), NEW e \in Seps, "stream" \in v.sep[e].f, NEW t \in Timers
  PROVE  LET u == [v EXCEPT !.sep[e].timer = t]
         IN Good(u) /\ SameSess(u, v) /\ u.s = v.s /\ u.sep[e].f = v.sep[e].f
<1> DEFINE u == [v EXCEPT !.sep[e].timer = t]
<1>1. v \in Worlds /\ At(v, e)
  BY DEF Good, Flow
<1>2. PICK p \in StreamsOf : /\ u = Put(v, e, p) /\ p.state = v.sep[e].state
                             /\ p.f = v.sep[e].f
  BY <1>1, TimerIs
<1> HIDE DEF u
<1>3. Good(Put(v, e, p))
  BY <1>1, <1>2, GoodPut DEF At, Watched, Starts
<1>4. SameSess(Put(v, e, p), v) /\ Put(v, e, p).s = v.s /\ Put(v, e, p).sep[e] = p
  BY <1>1, PutIs
<1> QED
  BY <1>2, <1>3, <1>4 DEF u

LEMMA GoodPendingOpen ==
  ASSUME NEW v, Good(v), v.s.state # "FREE", NEW po \in SepOrNone,
         po # NoSep => "stream" \in v.sep[po].f
  PROVE  LET u == [v EXCEPT !.s.pending_open = po]
         IN Good(u) /\ SameSess(u, v) /\ u.sep = v.sep /\ u.s.req = v.s.req
<1> DEFINE u == [v EXCEPT !.s.pending_open = po]
<1>1. v \in Worlds /\ Sess(v) /\ Flow(v)
  BY DEF Good
<1>2. /\ u \in Worlds /\ SameSess(u, v) /\ u.sep = v.sep /\ u.s.pending_open = po
      /\ Asked(u) = Asked(v)
  BY <1>1, PendingIs
<1>3. u.s.req = v.s.req
  BY <1>1 DEF Worlds, Sessions
<1> HIDE DEF u
<1>4. Sess(u)
  BY <1>1, <1>2, SessKept
<1>5. ASSUME NEW x \in Seps PROVE At(u, x)
  <2>1. At(v, x) /\ About(u, x) = About(v, x)
    BY <1>1, <1>2 DEF Flow, About
  <2>2. u.s.pending_open = x => "stream" \in v.sep[x].f
    BY <1>2, Outside
  <2> QED
    BY <1>2, <2>1, <2>2 DEF At, NoneLeft, Live, Watched, Starts, Asks, SameSess
<1>6. Named(u)
  BY <1>1, <1>2 DEF Flow, Named
<1>7. Good(u)
  BY <1>2, <1>4, <1>5, <1>6 DEF Good, Flow
<1> QED
  BY <1>2, <1>3, <1>7 DEF u

LEMMA GoodCloseStream ==
  ASSUME NEW v, Good(v), NEW e \in Seps, "stream" \in v.sep[e].f
  PROVE  LET u == close_stream(v, e)
         IN /\ Good(u) /\ SameSess(u, v) /\ u.s = v.s /\ "stream" \in u.sep[e].f
            /\ u.sep[e].f = v.sep[e].f \ {"io", "connecting"}
<1> DEFINE a == Clear(v, e, "io")
           u == Clear(a, e, "connecting")
<1>1. close_stream(v, e) = u
  BY DEF close_stream
<1>2. Good(a) /\ SameSess(a, v) /\ a.s = v.s /\ "stream" \in a.sep[e].f /\ a.sep[e].f = v.sep[e].f \ {"io"}
  BY GoodClear
<1> HIDE DEF a
<1>3. Good(u) /\ SameSess(u, a) /\ u.s = a.s /\ "stream" \in u.sep[e].f /\ u.sep[e].f = a.sep[e].f \ {"connecting"}
  BY <1>2, GoodClear
<1> HIDE DEF u
<1> QED
  BY <1>1, <1>2, <1>3 DEF SameSess

\* A SEP without a stream gets one, for which at most the configuration was asked.
LEMMA GoodAttach ==
  ASSUME NEW v \in Worlds, NEW e \in Seps, Sess(v), Named(v),
         \A x \in Seps : x # e => At(v, x),
         v.s.state = "CONNECTED", v.cfg # e, ~Asks(v, e, "START"), ~Asks(v, e, "SUSPEND")
  PROVE  LET u == Attach(v, e) IN Good(u) /\ SameSess(u, v)
<1> DEFINE p == [NoStream EXCEPT !.f = {"stream"}]
           u == Attach(v, e)
<1>1. p \in StreamsOf /\ p.state = "IDLE" /\ p.f = {"stream"}
  BY DEF NoStream, StreamsOf, SepStates, Timers, StreamFlags
<1>2. u = Put(v, e, p)
  BY DEF Attach, Put
<1> HIDE DEF p, u
<1>3. /\ u \in Worlds /\ SameSess(u, v) /\ Beside(u, v, e) /\ Asked(u) = Asked(v)
      /\ u.s = v.s /\ u.sep[e] = p /\ About(u, e) = About(v, e)
  BY <1>1, <1>2, PutIs
<1>4. At(u, e)
  BY <1>1, <1>3 DEF At, NoneLeft, Live, Watched, Starts, Asks, SameSess
<1>5. ASSUME NEW x \in Seps, x # e PROVE At(u, x)
  <2>1. /\ u.sep[x] = v.sep[x] /\ About(u, x) = About(v, x)
        /\ u.s.pending_open = x => v.s.pending_open = x
    BY <1>3, <1>5 DEF Beside
  <2>2. At(v, x) /\ u.s.state = v.s.state /\ u.cfg = v.cfg
    BY <1>3, <1>5 DEF SameSess
  <2> QED
    BY <2>1, <2>2 DEF At, NoneLeft, Live, Watched, Starts, Asks
<1>6. Sess(u)
  BY <1>3, SessKept
<1>7. Named(u)
  BY <1>3 DEF Named
<1>8. Good(u)
  BY <1>3, <1>4, <1>5, <1>6, <1>7 DEF Good, Flow
<1> QED
  BY <1>3, <1>8 DEF u

-----------------------------------------------------------------------------
(* Commands of the peer.                                                   *)

LEMMA GoodSetconf ==
  ASSUME NEW v, Good(v), v.s.state = "CONNECTED", v.cfg = NoSep, NEW e \in Seps
  PROVE  LET u == avdtp_setconf_cmd(v, e) IN Good(u) /\ u.s.state = "CONNECTED"
<1> DEFINE a == avdtp_ref(v)
           u == [a EXCEPT !.cfg = e]
<1>0. avdtp_setconf_cmd(v, e) = IF Has(v, e, "stream") THEN v ELSE u
  BY DEF avdtp_setconf_cmd
<1>1. v \in Worlds /\ Sess(v) /\ Flow(v)
  BY DEF Good
<1>2. Channel(a, v) /\ a.s.ref = v.s.ref + 1 /\ a.s.f = NoTimer(v.s.f)
  BY <1>1, RefIs
<1> HIDE DEF a
<1>3. CASE ~Has(v, e, "stream")
  <2>1. /\ u \in Worlds /\ u.s = a.s /\ u.sep = a.sep /\ u.users = a.users /\ u.cfg = e
    <3>1. a \in Worlds /\ e \in SepOrNone
      BY <1>2 DEF Channel, SepOrNone
    <3> QED
      BY <3>1 DEF Worlds
  <2> HIDE DEF u
  <2>2. Asked(u) = Asked(v)
    BY <1>2, <2>1 DEF Channel, Asked
  <2>3. /\ u.s.state = "CONNECTED" /\ u.s.pending = v.s.pending /\ u.s.watch = v.s.watch
        /\ u.users = v.users /\ u.s.ref = v.s.ref + 1 /\ u.s.f = NoTimer(v.s.f)
        /\ u.sep = v.sep /\ u.s.pending_open = v.s.pending_open
    BY <1>2, <2>1 DEF Channel, SameStreams
  <2>4. "dc_timer" \notin u.s.f /\ ("io" \in u.s.f <=> "io" \in v.s.f)
    BY <2>3 DEF NoTimer
  <2>5. Held(u) = Held(v) + 1 /\ e # NoSep
    BY <1>1, <2>1, <2>3, Outside DEF Held, Sess
  <2>6. v.s.pending = "none"
    BY <1>1 DEF Sess
  <2>7. Sess(u)
    <3>1. Held(v) \in Int /\ v.s.ref = 1 + Held(v) /\ v.users \in Nat
      BY <1>1 DEF Sess, Held, Worlds
    <3>2. u.s.ref = 1 + Held(u)
      BY <2>3, <2>5, <3>1
    <3> QED
      BY <1>1, <2>3, <2>4, <2>6, <3>1, <3>2 DEF Sess
  <2>8. ASSUME NEW x \in Seps PROVE At(u, x)
    <3>1. At(v, x) /\ About(u, x) = About(v, x)
      BY <1>1, <2>2 DEF Flow, About
    <3>2. "stream" \in v.sep[x].f => x # e
      BY <1>3 DEF Has
    <3> QED
      BY <2>1, <2>3, <3>1, <3>2 DEF At, NoneLeft, Live, Watched, Starts, Asks
  <2>9. Named(u)
    BY <1>1, <2>2 DEF Flow, Named
  <2>10. Good(u)
    BY <2>1, <2>7, <2>8, <2>9 DEF Good, Flow
  <2> QED
    BY <1>0, <1>3, <2>3, <2>10
<1> QED
  BY <1>0, <1>3

LEMMA GoodOpenCmd ==
  ASSUME NEW v, Good(v), v.s.state = "CONNECTED", NEW e \in Seps
  PROVE  LET u == avdtp_open_cmd(v, e) IN Good(u) /\ u.s.state = "CONNECTED"
<1> DEFINE a == Set(v, e, "open_acp")
           b == [a EXCEPT !.sep[e].timer = "open"]
           u == [b EXCEPT !.s.pending_open = e]
<1>1. CASE v.sep[e].state = "CONFIGURED"
  <2>1. "stream" \in v.sep[e].f /\ "open_acp" \in StreamFlags \ {"starting"} /\ "open" \in Timers
        /\ e \in SepOrNone
    BY <1>1, StreamLive DEF Good, StreamFlags, Timers, SepOrNone
  <2>2. Good(a) /\ SameSess(a, v) /\ "stream" \in a.sep[e].f
    BY <2>1, GoodSet
  <2>3. avdtp_open_cmd(v, e) = [a EXCEPT !.s.pending_open = e, !.sep[e].timer = "open"]
    BY <1>1 DEF avdtp_open_cmd
  <2> HIDE DEF a
  <2>4. avdtp_open_cmd(v, e) = u
    BY <2>2, <2>3 DEF Good, Worlds
  <2>5. Good(b) /\ SameSess(b, a) /\ b.sep[e].f = a.sep[e].f
    BY <2>1, <2>2, GoodTimer
  <2> HIDE DEF b
  <2>6. b.s.state = "CONNECTED"
    BY <2>2, <2>5 DEF SameSess
  <2>7. Good(u) /\ SameSess(u, b)
    BY <2>1, <2>2, <2>5, <2>6, GoodPendingOpen
  <2> QED
    BY <2>4, <2>6, <2>7 DEF SameSess
<1>2. CASE ~(v.sep[e].state = "CONFIGURED")
  <2>1. avdtp_open_cmd(v, e) = v
    BY <1>2 DEF avdtp_open_cmd
  <2> QED
    BY <2>1
<1> QED
  BY <1>1, <1>2

\* The stream is watched once it is open, and from then on.
LEMMA WatchedAt ==
  ASSUME NEW v, Good(v), NEW e \in Seps,
         v.sep[e].state \in {"OPEN", "STREAMING"} \/ Asks(v, e, "START") \/ Asks(v, e, "SUSPEND")
  PROVE  /\ "io_id" \in v.sep[e].f \/ "abort_int" \in v.sep[e].f
         /\ "stream" \in v.sep[e].f
<1>1. v \in Worlds /\ Flow(v) /\ At(v, e)
  BY DEF Good, Flow
<1>2. "io_id" \in v.sep[e].f \/ "abort_int" \in v.sep[e].f
  BY <1>1 DEF At, Watched
<1> QED
  BY <1>1, <1>2, StreamLive

LEMMA GoodStartCmd ==
  ASSUME NEW v, Good(v), v.s.state = "CONNECTED", NEW e \in Seps
  PROVE  LET u == avdtp_start_cmd(v, e) IN Good(u) /\ u.s.state = "CONNECTED"
<1> DEFINE a == Set(v, e, "starting")
           u == avdtp_sep_set_state(a, e, "STREAMING")
<1>0. v \in Worlds /\ "starting" \in StreamFlags /\ "STREAMING" \in {"STREAMING", "CLOSING", "ABORTING"}
  BY DEF Good, StreamFlags
<1>1. CASE v.sep[e].state = "OPEN" /\ ~Has(v, e, "starting")
  <2>1. avdtp_start_cmd(v, e) = u
    BY <1>1 DEF avdtp_start_cmd
  <2>2. "stream" \in v.sep[e].f /\ ("io_id" \in v.sep[e].f \/ "abort_int" \in v.sep[e].f)
    BY <1>1, WatchedAt
  <2>3. PICK p \in StreamsOf : a = Put(v, e, p) /\ p.f = v.sep[e].f \cup {"starting"}
    BY <1>0, SetIs
  <2> HIDE DEF a
  <2>4. a \in Worlds /\ a.sep[e] = p
    BY <1>0, <2>3, PutIs
  <2>5. "stream" \in a.sep[e].f
    BY <2>2, <2>3, <2>4
  <2>6. PICK q \in StreamsOf : /\ u = Put(a, e, q) /\ q.state = "STREAMING"
                               /\ q.f = a.sep[e].f \ {"idle_timer"}
    BY <1>0, <2>4, <2>5, LaterIs
  <2> HIDE DEF u
  <2>7. u = Put(v, e, q)
    BY <1>0, <2>3, <2>6, PutPut
  <2>8. "stream" \in q.f /\ ("io_id" \in q.f \/ "abort_int" \in q.f)
    BY <2>2, <2>3, <2>4, <2>6
  <2>9. Good(Put(v, e, q))
    BY <2>2, <2>6, <2>8, GoodPut
  <2>10. SameSess(Put(v, e, q), v)
    BY <1>0, PutIs
  <2> QED
    BY <2>1, <2>7, <2>9, <2>10 DEF SameSess
<1>2. CASE ~(v.sep[e].state = "OPEN" /\ ~Has(v, e, "starting"))
  <2>1. avdtp_start_cmd(v, e) = v
    BY <1>2 DEF avdtp_start_cmd
  <2> QED
    BY <2>1
<1> QED
  BY <1>1, <1>2

LEMMA GoodCloseCmd ==
  ASSUME NEW v, Good(v), v.s.state = "CONNECTED", NEW e \in Seps
  PROVE  LET u == avdtp_close_cmd(v, e) IN Good(u) /\ u.s.state = "CONNECTED"
<1> DEFINE a == avdtp_sep_set_state(v, e, "CLOSING")
           u == [a EXCEPT !.sep[e].timer = "close"]
<1>1. CASE v.sep[e].state \in {"OPEN", "STREAMING"}
  <2>1. avdtp_close_cmd(v, e) = u
    BY <1>1 DEF avdtp_close_cmd
  <2>2. "stream" \in v.sep[e].f
    BY <1>1, WatchedAt
  <2>3. Good(a) /\ SameSess(a, v) /\ "stream" \in a.sep[e].f
    BY <2>2, SetLater
  <2> HIDE DEF a
  <2>4. "close" \in Timers
    BY DEF Timers
  <2>5. Good(u) /\ SameSess(u, a)
    BY <2>3, <2>4, GoodTimer
  <2> QED
    BY <2>1, <2>3, <2>5 DEF SameSess
<1>2. CASE v.sep[e].state \notin {"OPEN", "STREAMING"}
  <2>1. avdtp_close_cmd(v, e) = v
    BY <1>2 DEF avdtp_close_cmd
  <2> QED
    BY <2>1
<1> QED
  BY <1>1, <1>2

LEMMA GoodSuspendCmd ==
  ASSUME NEW v, Good(v), v.s.state = "CONNECTED", NEW e \in Seps
  PROVE  LET u == avdtp_suspend_cmd(v, e) IN Good(u) /\ u.s.state = "CONNECTED"
<1>1. CASE v.sep[e].state = "STREAMING"
  <2> DEFINE u == avdtp_sep_set_state(v, e, "OPEN")
  <2>1. avdtp_suspend_cmd(v, e) = u
    BY <1>1 DEF avdtp_suspend_cmd
  <2>2. Good(u) /\ SameSess(u, v)
    BY <1>1, WatchedAt, SetOpen
  <2> QED
    BY <2>1, <2>2 DEF SameSess
<1>2. CASE v.sep[e].state # "STREAMING"
  <2>1. avdtp_suspend_cmd(v, e) = v
    BY <1>2 DEF avdtp_suspend_cmd
  <2> QED
    BY <2>1
<1> QED
  BY <1>1, <1>2

LEMMA GoodParseCmd ==
  ASSUME NEW v, Good(v), v.s.state = "CONNECTED", v.cfg = NoSep, NEW e \in Seps,
         NEW sig \in PeerSignals
  PROVE  LET u == avdtp_parse_cmd(v, sig, e) IN Good(u) /\ u.s.state = "CONNECTED"
<1> DEFINE u == avdtp_parse_cmd(v, sig, e)
           c1 == avdtp_setconf_cmd(v, e)
           c2 == avdtp_open_cmd(v, e)
           c3 == avdtp_start_cmd(v, e)
           c4 == avdtp_close_cmd(v, e)
           c5 == avdtp_suspend_cmd(v, e)
           c6 == avdtp_abort_cmd(v, e)
<1>1. u \in {c1, c2, c3, c4, c5, c6, v}
  BY DEF avdtp_parse_cmd, PeerSignals
<1>2. Good(c1) /\ c1.s.state = "CONNECTED"
  BY GoodSetconf
<1>3. Good(c2) /\ c2.s.state = "CONNECTED"
  BY GoodOpenCmd
<1>4. Good(c3) /\ c3.s.state = "CONNECTED"
  BY GoodStartCmd
<1>5. Good(c4) /\ c4.s.state = "CONNECTED"
  BY GoodCloseCmd
<1>6. Good(c5) /\ c5.s.state = "CONNECTED"
  BY GoodSuspendCmd
<1>7. Good(c6) /\ c6.s.state = "CONNECTED"
  BY SetLater DEF avdtp_abort_cmd, SameSess
<1> HIDE DEF u, c1, c2, c3, c4, c5, c6
<1> QED
  BY <1>1, <1>2, <1>3, <1>4, <1>5, <1>6, <1>7 DEF u

LEMMA GoodAfterCommand ==
  ASSUME NEW v, Good(v), v.s.state = "CONNECTED"
  PROVE  Good(AfterCommand(v))
<1> DEFINE a == set_disconnect_timer(v)
           w1 == IF v.s.ref = 1 /\ Streams(v) = {} /\ v.s.req = NoReq THEN a ELSE v
           b == remove_disconnect_timer(w1)
<1>0. AfterCommand(v) = IF Streams(w1) # {} THEN b ELSE w1
  BY DEF AfterCommand
<1>1. v \in Worlds
  BY DEF Good
<1>2. Good(w1) /\ w1.s.state = "CONNECTED"
  <2>1. CASE v.s.ref = 1
    <3>1. Flags(a, v) /\ a.s.f = NoTimer(v.s.f) \cup {"dc_timer"}
      BY <1>1, SetTimer
    <3> HIDE DEF a
    <3>2. "io" \in a.s.f <=> "io" \in v.s.f
      BY <3>1 DEF NoTimer
    <3>3. Good(a) /\ a.s.state = "CONNECTED"
      BY <2>1, <3>1, <3>2, GoodFlags DEF Flags, Channel
    <3> QED
      BY <3>3
  <2>2. CASE v.s.ref # 1
    BY <2>2
  <2> QED
    BY <2>1, <2>2
<1> HIDE DEF w1
<1>3. Good(b)
  <2>1. Flags(b, w1) /\ b.s.f = NoTimer(w1.s.f)
    BY <1>2, RemoveTimer DEF Good
  <2> HIDE DEF b
  <2>2. ("io" \in b.s.f <=> "io" \in w1.s.f) /\ "dc_timer" \notin b.s.f
    BY <2>1 DEF NoTimer
  <2> QED
    BY <1>2, <2>1, <2>2, GoodFlags
<1> QED
  BY <1>0, <1>2, <1>3

-----------------------------------------------------------------------------
(* Answers of the peer.                                                    *)

\* The stream that the request in flight starts is not waiting for the answer.
Settled(v) ==
  v.s.req.sig = "START" /\ v.s.req.stream \in Seps =>
    ~(v.sep[v.s.req.stream].state = "OPEN" /\ "starting" \in v.sep[v.s.req.stream].f)

LEMMA GoodAnswered ==
  ASSUME NEW v, Good(v), v.s.state = "CONNECTED", Settled(v)
  PROVE  Good(Answered(v))
<1> DEFINE u == [v EXCEPT !.s.req = NoReq]
<1>0. Answered(v) = process_queue(u)
  BY DEF Answered
<1>1. v \in Worlds /\ Sess(v) /\ Flow(v)
  BY DEF Good
<1>2. /\ Requests(u, v) /\ u.s.req = NoReq /\ u.s.prio_queue = v.s.prio_queue
      /\ u.s.req_queue = v.s.req_queue
  BY <1>1, ReqIs
<1> HIDE DEF u
<1>3. Asked(u) \subseteq Asked(v) /\ Asked(v) \subseteq Asked(u) \cup {v.s.req}
  BY <1>2 DEF Asked
<1>4. u.sep = v.sep /\ u.s.pending_open = v.s.pending_open /\ u.cfg = v.cfg /\ u.s.state = v.s.state
      /\ u \in Worlds
  BY <1>2 DEF Requests, SameSess, SameStreams
<1>5. Named(u)
  BY <1>1, <1>3 DEF Flow, Named
<1>6. ASSUME NEW e \in Seps PROVE At(u, e)
  <2>1. At(v, e) /\ About(u, e) \subseteq About(v, e)
    BY <1>1, <1>3 DEF Flow, About
  <2>2. NoneLeft(u, e) /\ Live(u, e)
    BY <1>4, <2>1 DEF At, NoneLeft, Live
  <2>3. Watched(u, e)
    BY <1>4, <2>1 DEF At, Watched, Asks
  <2>4. Starts(u, e)
    <3> SUFFICES ASSUME v.sep[e].state = "OPEN", "starting" \in v.sep[e].f
                 PROVE  Asks(u, e, "START")
      BY <1>4 DEF Starts
    <3>1. PICK r \in About(v, e) : r.sig = "START"
      BY <2>1 DEF At, Starts, Asks
    <3>2. r.stream = e /\ r \in Asked(v)
      BY <3>1 DEF About
    <3>3. r # v.s.req
      BY <3>1, <3>2 DEF Settled
    <3>4. r \in About(u, e)
      BY <1>3, <3>2, <3>3 DEF About
    <3> QED
      BY <3>1, <3>4 DEF Asks
  <2> QED
    BY <2>2, <2>3, <2>4 DEF At
<1>7. Sess(u)
  BY <1>1, <1>2, SessKept DEF Requests
<1>8. Good(u)
  BY <1>4, <1>5, <1>6, <1>7 DEF Good, Flow
<1> QED
  BY <1>0, <1>4, <1>8, GoodProcessQueue

LEMMA SeqOfElems ==
  ASSUME NEW S, NEW T, NEW p \in Seq(S), Elems(p) \subseteq T PROVE p \in Seq(T)
<1>1. p \in [1..Len(p) -> S] /\ Len(p) \in Nat /\ DOMAIN p = 1..Len(p)
  OBVIOUS
<1>2. \A i \in 1..Len(p) : p[i] \in T
  BY <1>1 DEF Elems
<1>3. p \in [1..Len(p) -> T]
  BY <1>1, <1>2
<1> QED
  BY <1>1, <1>3

\* Requests about no stream are added.
LEMMA GoodMore ==
  ASSUME NEW u, NEW v, NEW R, Good(v), Requests(u, v), v.s.state # "FREE",
         Asked(u) = Asked(v) \cup R, \A r \in R : r.stream = NoSep /\ r.sig \in Streamless
  PROVE  Good(u)
<1>1. Sess(u)
  BY SessKept DEF Good, Requests
<1>2. Flow(v) /\ SameStreams(u, v) /\ u.cfg = v.cfg /\ u.s.state = v.s.state
  BY DEF Good, Requests, SameSess
<1>3. Named(u)
  BY <1>2, Outside DEF Flow, Named
<1>4. ASSUME NEW e \in Seps PROVE At(u, e)
  <2>1. At(v, e) /\ About(u, e) = About(v, e)
    BY <1>2, Outside DEF Flow, About
  <2> QED
    BY <1>2, <2>1 DEF At, NoneLeft, Live, Watched, Starts, Asks, SameStreams
<1> QED
  BY <1>1, <1>3, <1>4 DEF Good, Requests, Flow

LEMMA GoodDiscoverResp ==
  ASSUME NEW v, Good(v), v.s.state = "CONNECTED", NEW listed \in SUBSET Seps, NEW busy
  PROVE  LET u == avdtp_discover_resp(v, listed, busy)
         IN /\ Good(u) /\ u.s.state = "CONNECTED" /\ u.s.req = v.s.req /\ u.sep = v.sep
            /\ Elems(v.s.prio_queue) \subseteq Elems(u.s.prio_queue)
            /\ \A r \in Elems(u.s.prio_queue) \ Elems(v.s.prio_queue) : r.stream = NoSep
<1> DEFINE skip == (busy \ v.s.seps) \ Streams(v)
           add == listed \ skip
           all == [e \in 1..61 |-> Req(GetCap, e, NoSep)]
           more == Picked(all, add)
           pq == v.s.prio_queue \o more
           known == v.s.seps \cup add
           w1 == [v EXCEPT !.s.seps = known, !.s.prio_queue = pq]
           u == avdtp_discover_resp(v, listed, busy)
<1>1. u \in {w1, finalize_discovery(w1)}
  BY DEF avdtp_discover_resp
<1>2. v \in Worlds /\ v.s \in Sessions /\ v.s.seps \in SUBSET Seps
  BY DEF Good, Worlds, Sessions
<1>3. more \in Seq(Request) /\ \A r \in Elems(more) : r.stream = NoSep /\ r.sig \in Streamless
  <2> DEFINE S == {Req(GetCap, e, NoSep) : e \in 1..61}
  <2>1. all \in Seq(S) /\ DOMAIN all = 1..61
    BY SMT
  <2>2. add \in SUBSET (1..61) /\ add \subseteq Seps
    BY ConstantsAssumption
  <2> HIDE DEF S, add
  <2>3. more \in Seq(S) /\ Elems(more) = {all[i] : i \in add}
    BY <2>1, <2>2, PickedElems
  <2>4. \A i \in add : all[i] = Req(GetCap, i, NoSep)
    BY <2>2
  <2>5. \A i \in add : /\ Req(GetCap, i, NoSep) \in Request /\ Req(GetCap, i, NoSep).stream = NoSep
                       /\ Req(GetCap, i, NoSep).sig \in Streamless
    BY <2>2 DEF Req, Request, Signals, SepOrNone, Streamless
  <2> HIDE DEF all
  <2>6. \A r \in Elems(more) : r \in Request /\ r.stream = NoSep /\ r.sig \in Streamless
    BY <2>3, <2>4, <2>5
  <2> QED
    BY <2>3, <2>6, SeqOfElems
<1>4. known \in SUBSET Seps
  BY <1>2
<1> HIDE DEF more, known
<1>5. pq \in Seq(Request) /\ Elems(pq) = Elems(v.s.prio_queue) \cup Elems(more)
  BY <1>2, <1>3, Queues, ElemsConcat
<1> HIDE DEF pq
<1>6. /\ Requests(w1, v) /\ w1.s.req = v.s.req /\ w1.s.prio_queue = pq
      /\ w1.s.req_queue = v.s.req_queue
  <2> DEFINE ses == [v.s EXCEPT !.seps = known, !.prio_queue = pq]
  <2>1. /\ ses \in Sessions /\ ses.req = v.s.req /\ ses.prio_queue = pq
        /\ ses.req_queue = v.s.req_queue /\ ses.state = v.s.state /\ ses.ref = v.s.ref
        /\ ses.pending = v.s.pending /\ ses.watch = v.s.watch /\ ses.f = v.s.f
        /\ ses.pending_open = v.s.pending_open
    BY <1>2, <1>4, <1>5 DEF Sessions
  <2>2. w1 = [v EXCEPT !.s = ses]
    BY <1>2 DEF Worlds
  <2> HIDE DEF ses, w1
  <2>3. /\ w1 \in Worlds /\ w1.s = ses /\ w1.sep = v.sep /\ w1.cfg = v.cfg /\ w1.users = v.users
        /\ w1.drop = v.drop
    BY <1>2, <2>1, <2>2 DEF Worlds
  <2> QED
    BY <2>1, <2>3 DEF Requests, SameSess, SameStreams
<1> HIDE DEF w1
<1>7. Asked(w1) = Asked(v) \cup Elems(more)
  <2>1. NoReq \notin Elems(more)
    BY <1>3, ElemsIn, Outside
  <2> QED
    BY <1>5, <1>6, <2>1 DEF Asked
<1>8. Good(w1) /\ w1.s.state = "CONNECTED"
  BY <1>3, <1>6, <1>7, GoodMore DEF Requests, SameSess
<1>9. /\ Good(finalize_discovery(w1)) /\ finalize_discovery(w1).s.state = "CONNECTED"
      /\ finalize_discovery(w1).s.req = v.s.req /\ finalize_discovery(w1).sep = w1.sep
      /\ finalize_discovery(w1).s.prio_queue = w1.s.prio_queue
  BY <1>6, <1>8, GoodOff DEF finalize_discovery, Flags, Channel, SameStreams
<1>10. w1.sep = v.sep
  BY <1>6 DEF Requests, SameStreams
<1> HIDE DEF u
<1>11. Good(u) /\ u.s.state = "CONNECTED" /\ u.s.req = v.s.req /\ u.sep = v.sep /\ u.s.prio_queue = pq
  BY <1>1, <1>6, <1>8, <1>9, <1>10
<1> QED
  BY <1>3, <1>5, <1>11 DEF u

LEMMA GoodGetCapResp ==
  ASSUME NEW v, Good(v), v.s.state = "CONNECTED"
  PROVE  LET u == GetCapResp(v) IN Good(u) /\ u.s.state = "CONNECTED" /\ u.s.req = v.s.req
<1> DEFINE u == GetCapResp(v)
           a == finalize_discovery(v)
<1>1. u \in {v, a}
  BY DEF GetCapResp
<1>2. Good(a) /\ a.s.state = "CONNECTED" /\ a.s.req = v.s.req
  BY GoodOff DEF finalize_discovery, Flags, Channel
<1> HIDE DEF u, a
<1> QED
  BY <1>1, <1>2 DEF u

\* The request in flight about a stream has its stream.
LEMMA InFlight ==
  ASSUME NEW v, Good(v), v.s.req.stream \in Seps
  PROVE  LET e == v.s.req.stream
         IN /\ "stream" \in v.sep[e].f /\ Asks(v, e, v.s.req.sig) /\ v.s.req # NoReq
            /\ v.s.state = "CONNECTED"
<1> DEFINE e == v.s.req.stream
<1>1. v \in Worlds /\ Flow(v)
  BY DEF Good
<1>2. v.s.req # NoReq
  BY Outside
<1>3. v.s.req \in About(v, e)
  BY <1>2 DEF About, Asked
<1>4. "stream" \in v.sep[e].f
  BY <1>1, <1>3, StreamLive
<1> QED
  BY <1>1, <1>2, <1>3, <1>4, StreamLive DEF Asks

LEMMA GoodParseResp ==
  ASSUME NEW v, Good(v), v.s.req.stream \in Seps, v.s.req.sig \in StreamCommands
  PROVE  LET u == avdtp_parse_resp(v, v.s.req.sig, v.s.req.stream)
         IN Good(u) /\ u.s.state = "CONNECTED" /\ Settled(u)
<1> DEFINE e == v.s.req.stream
           sig == v.s.req.sig
           u == avdtp_parse_resp(v, sig, e)
<1>1. /\ "stream" \in v.sep[e].f /\ Asks(v, e, sig) /\ v.s.req # NoReq /\ e \in Seps
      /\ v.s.state = "CONNECTED" /\ v.s.req.stream = e /\ v.s.req.sig = sig
      /\ sig \in StreamCommands
  BY InFlight
<1> HIDE DEF e, sig, u
<1>2. CASE sig = "SET_CONFIGURATION"
  <2> DEFINE a == avdtp_sep_set_state(v, e, "CONFIGURED")
  <2>1. u = a
    BY <1>2 DEF u, avdtp_parse_resp
  <2>2. Good(a) /\ SameSess(a, v) /\ a.s.req = v.s.req
    BY <1>1, SetConfigured
  <2> HIDE DEF a
  <2> QED
    BY <1>1, <1>2, <2>1, <2>2 DEF Settled, SameSess, u, sig, e
<1>3. CASE sig = "OPEN"
  <2> DEFINE a == Set(v, e, "io")
             b == Set(a, e, "connecting")
             c == [b EXCEPT !.s.pending_open = e]
  <2>1. u = c
    BY <1>3 DEF u, avdtp_parse_resp
  <2>2. {"io", "connecting"} \subseteq StreamFlags \ {"starting"} /\ e \in SepOrNone
    BY <1>1 DEF StreamFlags, SepOrNone
  <2>3. Good(a) /\ SameSess(a, v) /\ a.s = v.s /\ "stream" \in a.sep[e].f
    BY <1>1, <2>2, GoodSet
  <2> HIDE DEF a
  <2>4. Good(b) /\ SameSess(b, a) /\ b.s = a.s /\ "stream" \in b.sep[e].f
    BY <1>1, <2>2, <2>3, GoodSet
  <2> HIDE DEF b
  <2>5. b.s.state = "CONNECTED"
    BY <1>1, <2>3, <2>4
  <2>6. Good(c) /\ SameSess(c, b) /\ c.s.req = b.s.req
    BY <2>2, <2>4, <2>5, GoodPendingOpen
  <2> HIDE DEF c
  <2> QED
    BY <1>1, <1>3, <2>1, <2>3, <2>4, <2>5, <2>6 DEF Settled, SameSess, u, sig, e
<1>4. CASE sig = "START"
  <2>1. "io_id" \in v.sep[e].f \/ "abort_int" \in v.sep[e].f
    BY <1>1, <1>4, WatchedAt
  <2>2. CASE v.sep[e].state = "STREAMING"
    <3>1. u = v
      BY <1>4, <2>2 DEF u, avdtp_parse_resp
    <3> QED
      BY <1>1, <2>2, <3>1 DEF Settled, u, sig, e
  <2>3. CASE v.sep[e].state # "STREAMING"
    <3> DEFINE a == avdtp_sep_set_state(v, e, "STREAMING")
    <3>1. u = a
      BY <1>4, <2>3 DEF u, avdtp_parse_resp
    <3>2. Good(a) /\ a.s = v.s /\ a.sep[e].state = "STREAMING"
      BY <1>1, <2>1, SetLater
    <3> HIDE DEF a
    <3> QED
      BY <1>1, <3>1, <3>2 DEF Settled, u, sig, e
  <2> QED
    BY <2>2, <2>3
<1>5. CASE sig = "SUSPEND"
  <2> DEFINE a == avdtp_sep_set_state(v, e, "OPEN")
  <2>1. u = a
    BY <1>5 DEF u, avdtp_parse_resp
  <2>2. Good(a) /\ a.s = v.s
    BY <1>1, <1>5, WatchedAt, SetOpen
  <2> HIDE DEF a
  <2> QED
    BY <1>1, <1>5, <2>1, <2>2 DEF Settled, u, sig, e
<1>6. CASE sig = "CLOSE"
  <2> DEFINE a == avdtp_sep_set_state(v, e, "CLOSING")
             b == close_stream(a, e)
  <2>1. u = b
    BY <1>6 DEF u, avdtp_parse_resp
  <2>2. Good(a) /\ a.s = v.s /\ "stream" \in a.sep[e].f
    BY <1>1, SetLater
  <2> HIDE DEF a
  <2>3. Good(b) /\ b.s = a.s
    BY <1>1, <2>2, GoodCloseStream
  <2> HIDE DEF b
  <2> QED
    BY <1>1, <1>6, <2>1, <2>2, <2>3 DEF Settled, u, sig, e
<1>7. CASE sig = "ABORT"
  <2> DEFINE a == avdtp_sep_set_state(v, e, "ABORTING")
             b == avdtp_sep_set_state(a, e, "IDLE")
  <2>1. u = b
    BY <1>7 DEF u, avdtp_parse_resp
  <2>2. Good(a) /\ a.s = v.s
    BY <1>1, SetLater
  <2> HIDE DEF a
  <2>3. Good(b) /\ SameSess(b, a) /\ b.s.req.sig \in {a.s.req.sig, "none"}
    BY <1>1, <2>2, SetIdle
  <2> HIDE DEF b
  <2> QED
    BY <1>1, <1>7, <2>1, <2>2, <2>3 DEF Settled, SameSess, u, sig, e
<1>8. CASE sig = "DELAY_REPORT"
  <2>1. u = v
    BY <1>8 DEF u, avdtp_parse_resp
  <2> QED
    BY <1>1, <1>8, <2>1 DEF Settled, u, sig, e
<1> QED
  BY <1>1, <1>2, <1>3, <1>4, <1>5, <1>6, <1>7, <1>8 DEF StreamCommands

LEMMA GoodParseRej ==
  ASSUME NEW v, Good(v), v.s.state = "CONNECTED", v.s.req # NoReq, v.s.req.sig # "ABORT"
  PROVE  LET u == avdtp_parse_rej(v, v.s.req.sig, v.s.req.stream)
         IN Good(u) /\ u.s.state = "CONNECTED" /\ Settled(u)
<1> DEFINE e == v.s.req.stream
           sig == v.s.req.sig
           u == avdtp_parse_rej(v, sig, e)
<1>0. v.s.req.stream = e /\ v.s.req.sig = sig
  OBVIOUS
<1>1. sig \in {"START", "CLOSE"} => e \in Seps /\ "stream" \in v.sep[e].f
  <2> SUFFICES ASSUME sig \in {"START", "CLOSE"} PROVE e \in Seps /\ "stream" \in v.sep[e].f
    OBVIOUS
  <2>1. v \in Worlds /\ Named(v) /\ v.s.req \in Asked(v) /\ v.s.req \in Request
    BY Queues DEF Good, Flow, Asked
  <2>2. sig \notin Streamless
    BY ConstantsAssumption DEF Streamless
  <2>3. e # NoSep
    BY <2>1, <2>2 DEF Named
  <2>4. e \in Seps
    BY <2>1, <2>3 DEF Request, SepOrNone
  <2> QED
    BY <2>4, InFlight
<1> HIDE DEF e, sig, u
<1>2. CASE sig = "START"
  <2> DEFINE a == Clear(v, e, "starting")
  <2>1. u = a
    BY <1>2 DEF u, avdtp_parse_rej
  <2>2. Good(a) /\ a.s = v.s /\ a.sep[e].f = v.sep[e].f \ {"starting"}
    BY <1>1, <1>2, GoodClear
  <2> HIDE DEF a
  <2>3. Settled(a)
    BY <1>0, <2>2 DEF Settled
  <2> QED
    BY <2>1, <2>2, <2>3 DEF u, sig, e
<1>3. CASE sig = "CLOSE"
  <2> DEFINE a == Clear(v, e, "close_int")
  <2>1. u = a
    BY <1>3 DEF u, avdtp_parse_rej
  <2>2. Good(a) /\ a.s = v.s
    BY <1>1, <1>3, GoodClear
  <2> HIDE DEF a
  <2>3. Settled(a)
    BY <1>0, <1>3, <2>2 DEF Settled
  <2> QED
    BY <2>1, <2>2, <2>3 DEF u, sig, e
<1>4. CASE sig \notin {"START", "CLOSE"}
  <2>1. u = v
    BY <1>4 DEF u, avdtp_parse_rej
  <2>2. Settled(v)
    BY <1>0, <1>4 DEF Settled
  <2> QED
    BY <2>1, <2>2 DEF u, sig, e
<1> QED
  BY <1>2, <1>3, <1>4

-----------------------------------------------------------------------------
(* Steps.                                                                  *)

LEMMA GoodDrop ==
  ASSUME NEW u \in Worlds, NEW v, Good(v), u.s = v.s, u.sep = v.sep, u.cfg = v.cfg,
         u.users = v.users
  PROVE  Good(u)
<1>1. Sess(v) /\ Flow(v)
  BY DEF Good
<1>2. Sess(u)
  BY <1>1 DEF Sess, Held
<1>3. Asked(u) = Asked(v)
  BY DEF Asked
<1>4. Flow(u)
  BY <1>1, <1>3, FlowKept DEF SameStreams
<1> QED
  BY <1>2, <1>4 DEF Good

LEMMA WorldIs ==
  ASSUME IInv, NEW d \in DropChoices \cup {0}
  PROVE  LET v == World(d)
         IN /\ Good(v) /\ v.s = s /\ v.sep = sep /\ v.cfg = cfg /\ v.users = users /\ v.drop = d
            /\ d \in DropChoices => DropOk(v)
<1> DEFINE z == World(0)
           v == World(d)
<1>1. z \in Worlds /\ Sess(z) /\ Good(z)
  BY DEF IInv, Good
<1>2. z.s = s /\ z.sep = sep /\ z.cfg = cfg /\ z.users = users
  BY DEF World
<1>3. users \in Nat
  BY <1>1, <1>2 DEF Sess
<1>4. d \in Int
  BY <1>3 DEF DropChoices
<1>5. v.s = s /\ v.sep = sep /\ v.cfg = cfg /\ v.users = users /\ v.drop = d
  BY DEF World
<1>6. v \in Worlds
  <2>1. s \in Sessions /\ sep \in [Seps -> StreamsOf] /\ cfg \in SepOrNone /\ users \in Int
    BY <1>1, <1>2 DEF Worlds
  <2> QED
    BY <1>4, <2>1 DEF World, Worlds
<1>7. d \in DropChoices => DropOk(v)
  BY <1>3, <1>5 DEF DropChoices, DropOk
<1> HIDE DEF z, v
<1>8. Good(v)
  BY <1>1, <1>2, <1>5, <1>6, GoodDrop
<1> QED
  BY <1>5, <1>7, <1>8 DEF v

LEMMA WorldInstalled ==
  ASSUME NEW u, Good(u), InstallWorld(u) PROVE IInv'
<1> DEFINE z == [s |-> u.s, sep |-> u.sep, cfg |-> u.cfg, users |-> u.users, drop |-> 0]
<1>1. u \in Worlds
  BY DEF Good
<1>2. z \in Worlds /\ z.s = u.s /\ z.sep = u.sep /\ z.cfg = u.cfg /\ z.users = u.users
  BY <1>1 DEF Worlds
<1>3. World(0)' = z
  BY DEF World, InstallWorld
<1> HIDE DEF z
<1>4. Good(z)
  BY <1>2, GoodDrop
<1>5. IInv' <=> Good(z)
  BY <1>3 DEF IInv
<1> QED
  BY <1>4, <1>5

LEMMA Installed ==
  ASSUME NEW u, Good(u), Install(u) PROVE IInv'
  BY WorldInstalled DEF Install

\* What the signalling channel waits for changes.
LEMMA WaitsIs ==
  ASSUME NEW v \in Worlds, NEW x \in Pending
  PROVE  LET u == [v EXCEPT !.s.pending = x]
         IN /\ u \in Worlds /\ SameStreams(u, v) /\ Asked(u) = Asked(v) /\ u.s.pending = x
            /\ u.s.state = v.s.state /\ u.s.ref = v.s.ref /\ u.s.watch = v.s.watch
            /\ u.s.f = v.s.f /\ u.cfg = v.cfg /\ u.users = v.users /\ u.drop = v.drop
<1> DEFINE u == [v EXCEPT !.s.pending = x]
<1>1. /\ u \in Worlds /\ u.sep = v.sep /\ u.s.pending_open = v.s.pending_open /\ u.s.pending = x
      /\ u.s.state = v.s.state /\ u.s.ref = v.s.ref /\ u.s.watch = v.s.watch
      /\ u.s.f = v.s.f /\ u.cfg = v.cfg /\ u.users = v.users /\ u.drop = v.drop
      /\ u.s.req = v.s.req /\ u.s.prio_queue = v.s.prio_queue /\ u.s.req_queue = v.s.req_queue
  BY DEF Worlds, Sessions
<1> HIDE DEF u
<1>2. Asked(u) = Asked(v)
  BY <1>1 DEF Asked
<1> QED
  BY <1>1, <1>2 DEF u, SameStreams

LEMMA GoodWaits ==
  ASSUME NEW v \in Worlds, NEW x \in Pending \ {"none"}, Flow(v), v.users \in Nat,
         v.s.state = "CONNECTING", v.s.ref = 1 + Held(v), "io" \in v.s.f, v.s.watch # "full",
         "dc_timer" \notin v.s.f, v.cfg \in EndpointSeps \cup {NoSep},
         x = "retry" => "busy" \in AuthResults
  PROVE  Good([v EXCEPT !.s.pending = x])
<1> DEFINE u == [v EXCEPT !.s.pending = x]
<1>1. /\ u \in Worlds /\ SameStreams(u, v) /\ Asked(u) = Asked(v) /\ u.s.pending = x
      /\ u.s.state = v.s.state /\ u.s.ref = v.s.ref /\ u.s.watch = v.s.watch
      /\ u.s.f = v.s.f /\ u.cfg = v.cfg /\ u.users = v.users
  BY WaitsIs
<1> HIDE DEF u
<1>2. Flow(u)
  BY <1>1, FlowKept
<1>3. Sess(u)
  BY <1>1 DEF Sess, Held
<1> QED
  BY <1>1, <1>2, <1>3 DEF Good, u

LEMMA GoodAuthorize ==
  ASSUME Authorized, NEW v \in Worlds, Flow(v), v.users \in Nat, NEW result \in AuthResults,
         v.s.state = "CONNECTING", v.s.ref = 1 + Held(v), "io" \in v.s.f, v.s.watch # "full",
         "dc_timer" \notin v.s.f, v.cfg \in EndpointSeps \cup {NoSep}
  PROVE  Good(Authorize(v, result))
<1>1. CASE result = "ok"
  <2>1. Authorize(v, result) = [v EXCEPT !.s.pending = "auth"]
    BY <1>1 DEF Authorize
  <2>2. "auth" \in Pending \ {"none"}
    BY DEF Pending
  <2> QED
    BY <2>1, <2>2, GoodWaits
<1>2. CASE result = "busy"
  <2>1. Authorize(v, result) = [v EXCEPT !.s.pending = "retry"]
    BY <1>2 DEF Authorize
  <2>2. "retry" \in Pending \ {"none"} /\ "busy" \in AuthResults
    BY <1>2 DEF Pending
  <2> QED
    BY <2>1, <2>2, GoodWaits
<1>3. result \in {"ok", "busy"}
  BY ConstantsAssumption DEF Authorized
<1> QED
  BY <1>1, <1>2, <1>3

LEMMA ConnectCbStep ==
  ASSUME Authorized, IInv, NEW ok \in BOOLEAN, avdtp_connect_cb(ok) PROVE IInv'
<1>1. PICK d \in DropChoices :
        Install(IF ok THEN SignallingUp(World(d)) ELSE connection_lost(World(d)))
  BY DEF avdtp_connect_cb
<1> DEFINE v == World(d)
<1>2. Good(v) /\ v.s = s /\ DropOk(v)
  BY WorldIs
<1>3. s.pending \in {"out", "accept"}
  BY DEF avdtp_connect_cb
<1> HIDE DEF v
<1>4. v.s.state = "CONNECTING"
  BY <1>2, <1>3 DEF Good, Sess
<1>5. Good(SignallingUp(v))
  BY <1>2, <1>4, GoodSignallingUp
<1>6. Good(connection_lost(v))
  BY <1>2, <1>4, GoodMayLose, ConnectionLost
<1>7. Install(SignallingUp(v)) \/ Install(connection_lost(v))
  BY <1>1 DEF v
<1> QED
  BY <1>5, <1>6, <1>7, Installed

LEMMA AuthCbStep ==
  ASSUME Authorized, IInv, NEW ok \in BOOLEAN, auth_cb(ok) PROVE IInv'
<1> DEFINE Yes(w) == [On(w, "stream_setup") EXCEPT !.s.pending = "accept"]
           No(w) == connection_lost([w EXCEPT !.s.pending = "none"])
<1>1. PICK d \in DropChoices : Install(Yes(World(d))) \/ Install(No(World(d)))
  BY DEF auth_cb
<1> DEFINE v == World(d)
<1>2. Good(v) /\ v.s = s /\ DropOk(v)
  BY WorldIs
<1>3. s.pending = "auth"
  BY DEF auth_cb
<1> HIDE DEF v
<1>4. v \in Worlds /\ v.s.state = "CONNECTING" /\ v.s.pending = "auth" /\ v.s.watch # "full"
      /\ v.cfg \in EndpointSeps \cup {NoSep}
  BY <1>2, <1>3 DEF Good, Sess
<1>5. Good(Yes(v))
  <2> DEFINE a == On(v, "stream_setup")
  <2>1. Good(a) /\ Flags(a, v)
    BY <1>2, <1>4, GoodOn
  <2> HIDE DEF a
  <2>2. "accept" \in Pending \ {"none"}
    BY DEF Pending
  <2>3. /\ a \in Worlds /\ a.s.state = "CONNECTING" /\ a.s.watch # "full"
        /\ a.cfg \in EndpointSeps \cup {NoSep}
    BY <1>4, <2>1 DEF Flags, Channel
  <2>4. Flow(a) /\ a.users \in Nat /\ a.s.ref = 1 + Held(a) /\ "io" \in a.s.f /\ "dc_timer" \notin a.s.f
    BY <2>1, <2>3 DEF Good, Sess
  <2>5. Good([a EXCEPT !.s.pending = "accept"])
    BY <2>2, <2>3, <2>4, GoodWaits
  <2> QED
    BY <2>5 DEF a
<1>6. Good(No(v))
  <2> DEFINE b == [v EXCEPT !.s.pending = "none"]
  <2>1. MayLose(v)
    BY <1>2, <1>4, GoodMayLose
  <2>2. "none" \in Pending
    BY DEF Pending
  <2>3. /\ b \in Worlds /\ Asked(b) = Asked(v) /\ b.s.pending = "none"
        /\ b.s.state = v.s.state /\ b.s.ref = v.s.ref
        /\ b.cfg = v.cfg /\ b.users = v.users /\ b.drop = v.drop
    BY <1>4, <2>2, WaitsIs
  <2> HIDE DEF b
  <2>4. MayLose(b)
    BY <2>1, <2>3 DEF MayLose, Held, DropOk, Named
  <2>5. Good(connection_lost(b))
    BY <2>4, ConnectionLost
  <2> QED
    BY <2>5 DEF b
<1>7. Install(Yes(v)) \/ Install(No(v))
  BY <1>1 DEF v
<1> HIDE DEF Yes, No
<1> QED
  BY <1>5, <1>6, <1>7, Installed

LEMMA TransportAcceptedStep ==
  ASSUME Authorized, IInv, NEW ok \in BOOLEAN, TransportAccepted(ok) PROVE IInv'
<1>1. PICK d \in DropChoices : Install(TransportConnectCb(Off(World(d), "accepting"), ok))
  BY DEF TransportAccepted
<1> DEFINE v == World(d)
           a == Off(v, "accepting")
<1>2. Good(v) /\ v.s = s /\ DropOk(v)
  BY WorldIs
<1>3. "accepting" \in s.f /\ s.state # "FREE"
  BY DEF TransportAccepted
<1>4. Install(TransportConnectCb(a, ok))
  BY <1>1
<1> HIDE DEF v
<1>5. v.s.state # "FREE"
  BY <1>2, <1>3, FreedIs DEF Good, Sess
<1>6. Good(a) /\ Flags(a, v)
  BY <1>2, <1>5, GoodOff
<1> HIDE DEF a
<1>7. DropOk(a) /\ a.s.state # "FREE"
  BY <1>2, <1>5, <1>6 DEF Flags, Channel, DropOk
<1>8. Good(TransportConnectCb(a, ok))
  BY <1>6, <1>7, GoodTransportConnectCb
<1> QED
  BY <1>4, <1>8, Installed

LEMMA AuthorizationHandlerStep ==
  ASSUME Authorized, IInv, NEW result \in AuthResults, avdtp_authorization_handler(result)
  PROVE  IInv'
<1> DEFINE v == World(0)
<1>1. Good(v) /\ v.s = s /\ v.cfg = cfg
  BY WorldIs
<1>2. s.pending = "retry" /\ IdleDone
  BY DEF avdtp_authorization_handler
<1>3. s.state = "CONNECTING" /\ "io" \in s.f
  BY <1>1, <1>2 DEF Good, Sess
<1>4. Install(Authorize(v, result))
  BY <1>3 DEF avdtp_authorization_handler
<1> HIDE DEF v
<1>5. /\ v \in Worlds /\ v.s.state = "CONNECTING" /\ v.s.watch # "full"
      /\ v.cfg \in EndpointSeps \cup {NoSep} /\ Flow(v) /\ v.users \in Nat
      /\ v.s.ref = 1 + Held(v) /\ "io" \in v.s.f /\ "dc_timer" \notin v.s.f
  BY <1>1, <1>2, <1>3 DEF Good, Sess
<1>6. Good(Authorize(v, result))
  BY <1>5, GoodAuthorize
<1> QED
  BY <1>4, <1>6, Installed

LEMMA ConfirmTransportStep ==
  ASSUME IInv, ConfirmTransport PROVE IInv'
<1> DEFINE v == World(0)
<1>1. Good(v) /\ v.s = s
  BY WorldIs
<1>2. Install(On(v, "accepting")) /\ s.pending_open # NoSep
  BY DEF ConfirmTransport, AwaitsTransport
<1> HIDE DEF v
<1>3. v.s.state # "FREE"
  BY <1>1, <1>2, FreedIs DEF Good, Sess
<1>4. Good(On(v, "accepting"))
  BY <1>1, <1>3, GoodOn
<1> QED
  BY <1>2, <1>4, Installed

LEMMA ConfirmSignallingStep ==
  ASSUME Authorized, IInv, NEW result \in AuthResults \cup {"nodev"}, ConfirmSignalling(result)
  PROVE  IInv'
<1> DEFINE v == World(0)
           w == avdtp_get_internal(v)
           a == On(w, "io")
           w1 == [a EXCEPT !.s.state = "CONNECTING", !.s.watch = "hup"]
<1>1. Good(v) /\ v.s = s /\ v.cfg = cfg
  BY WorldIs
<1>2. /\ s.state # "CONNECTING" /\ "io" \notin s.f /\ cfg \in EndpointSeps \cup {NoSep}
      /\ Install(IF result = "nodev" THEN w ELSE Authorize(w1, result))
  BY DEF ConfirmSignalling, IdleDone
<1> HIDE DEF v
<1>3. /\ Good(w) /\ w.s.state # "FREE" /\ (v.s.state # "FREE" => w = v) /\ w.users = v.users
      /\ (v.s.state = "FREE" => w.s.state = "DISCONNECTED") /\ w.cfg = v.cfg
  BY <1>1, GoodGetInternal
<1> HIDE DEF w
<1>4. w.s.state = "DISCONNECTED"
  <2>1. CASE v.s.state = "FREE"
    BY <1>3, <2>1
  <2>2. CASE v.s.state # "FREE"
    <3>1. w.s = s /\ s.state # "CONNECTED" /\ s.state \in SessionStates
      BY <1>1, <1>2, <1>3, <2>2 DEF Good, Sess, Worlds, Sessions
    <3> QED
      BY <1>2, <2>2, <1>1, <3>1 DEF SessionStates
  <2> QED
    BY <2>1, <2>2
<1>5. w \in Worlds /\ Sess(w) /\ Flow(w)
  BY <1>3 DEF Good
<1>6. Flags(a, w) /\ a.s.f = w.s.f \cup {"io"}
  BY <1>5, OnIs DEF SessionFlags
<1> HIDE DEF a
<1>7. /\ w1 \in Worlds /\ w1.s.state = "CONNECTING" /\ w1.s.ref = a.s.ref
      /\ w1.s.watch = "hup" /\ w1.s.f = a.s.f /\ w1.sep = a.sep /\ w1.cfg = a.cfg
      /\ w1.users = a.users /\ w1.s.pending_open = a.s.pending_open
      /\ w1.s.req = a.s.req /\ w1.s.prio_queue = a.s.prio_queue /\ w1.s.req_queue = a.s.req_queue
  <2>1. "CONNECTING" \in SessionStates /\ "hup" \in Watches /\ a \in Worlds
    BY <1>6 DEF SessionStates, Watches, Flags, Channel
  <2> QED
    BY <2>1 DEF Worlds, Sessions
<1> HIDE DEF w1
<1>8. Asked(w1) = Asked(a)
  BY <1>7 DEF Asked
<1>9. Flow(w1)
  <2>1. Flow(a) /\ a.s.state = "DISCONNECTED"
    BY <1>4, <1>5, <1>6, FlowChannel DEF Flags, Channel
  <2> QED
    BY <1>7, <1>8, <2>1, FlowKept DEF SameStreams
<1>10. /\ w1.users \in Nat /\ w1.s.ref = 1 + Held(w1) /\ "io" \in w1.s.f
       /\ "dc_timer" \notin w1.s.f /\ w1.cfg \in EndpointSeps \cup {NoSep}
  <2>1. w.users \in Nat /\ w.s.ref = 1 + Held(w) /\ "dc_timer" \notin w.s.f
    BY <1>4, <1>5 DEF Sess
  <2>2. w1.users = w.users /\ w1.cfg = w.cfg /\ w1.s.ref = w.s.ref /\ w1.s.f = w.s.f \cup {"io"}
    BY <1>6, <1>7 DEF Flags, Channel
  <2> QED
    BY <1>1, <1>2, <1>3, <2>1, <2>2 DEF Held
<1>11. CASE result = "nodev"
  BY <1>2, <1>3, <1>11, Installed
<1>12. CASE result # "nodev"
  <2>1. result \in AuthResults /\ Install(Authorize(w1, result))
    BY <1>2, <1>12
  <2>2. Good(Authorize(w1, result))
    BY <1>7, <1>9, <1>10, <2>1, GoodAuthorize
  <2> QED
    BY <2>1, <2>2, Installed
<1> QED
  BY <1>11, <1>12

LEMMA HangupStep ==
  ASSUME Authorized, IInv, Hangup PROVE IInv'
<1>1. PICK d \in DropChoices : Install(connection_lost(World(d)))
  BY DEF Hangup
<1> DEFINE v == World(d)
<1>2. Good(v) /\ v.s = s /\ DropOk(v)
  BY WorldIs
<1>3. s.watch # "none"
  BY DEF Hangup, Readable
<1>4. Install(connection_lost(v))
  BY <1>1
<1> HIDE DEF v
<1>5. v.s.state # "FREE"
  BY <1>2, <1>3, FreedIs DEF Good, Sess
<1>6. Good(connection_lost(v))
  BY <1>2, <1>5, GoodMayLose, ConnectionLost
<1> QED
  BY <1>4, <1>6, Installed

LEMMA DisconnectTimeoutStep ==
  ASSUME Authorized, IInv, NEW what \in {"takes", "discovers", "busy", "lost"},
         disconnect_timeout(what)
  PROVE  IInv'
<1> DEFINE W(d) == Off(Off(World(d), "dc_timer"), "stream_setup")
<1>1. PICK d \in DropChoices :
        \/ Install(avdtp_discover(Off(UserRef(W(d)), "auto_dc")))
        \/ Install(avdtp_discover(Off(W(d), "auto_dc")))
        \/ Install(W(d)) \/ Install(connection_lost(W(d)))
  BY DEF disconnect_timeout
<1> DEFINE v == World(d)
           a == Off(v, "dc_timer")
           w == Off(a, "stream_setup")
<1>2. Good(v) /\ v.s = s /\ DropOk(v)
  BY WorldIs
<1>3. "dc_timer" \in s.f
  BY DEF disconnect_timeout
<1>4. \/ Install(avdtp_discover(Off(UserRef(w), "auto_dc")))
      \/ Install(avdtp_discover(Off(w, "auto_dc")))
      \/ Install(w) \/ Install(connection_lost(w))
  BY <1>1
<1> HIDE DEF v, W
<1>5. v.s.state = "CONNECTED"
  BY <1>2, <1>3 DEF Good, Sess
<1>6. Good(a) /\ Flags(a, v) /\ a.s.f = v.s.f \ {"dc_timer"}
  BY <1>2, <1>5, GoodOff
<1> HIDE DEF a
<1>7. Flags(w, a) /\ w.s.f = a.s.f \ {"stream_setup"}
  BY <1>6, OffIs DEF Good
<1> HIDE DEF w
<1>8. /\ a.s.state # "FREE" /\ ("io" \in w.s.f <=> "io" \in a.s.f) /\ "dc_timer" \notin w.s.f
      /\ w.s.state # "FREE"
  BY <1>5, <1>6, <1>7 DEF Flags, Channel
<1>9. Good(w)
  BY <1>6, <1>7, <1>8, GoodFlags
<1>10. DropOk(w)
  BY <1>2, <1>6, <1>7 DEF DropOk, Flags, Channel
<1>11. Good(connection_lost(w))
  BY <1>8, <1>9, <1>10, GoodMayLose, ConnectionLost
<1>12. ASSUME NEW x, Good(x), x.s.state # "FREE" PROVE Good(avdtp_discover(Off(x, "auto_dc")))
  <2> DEFINE y == Off(x, "auto_dc")
  <2>1. Good(y) /\ Flags(y, x)
    BY <1>12, GoodOff
  <2> HIDE DEF y
  <2>2. y.s.state # "FREE"
    BY <1>12, <2>1 DEF Flags, Channel
  <2>3. Good(avdtp_discover(y))
    BY <2>1, <2>2, GoodDiscover
  <2> QED
    BY <2>3 DEF y
<1>13. Good(UserRef(w)) /\ UserRef(w).s.state # "FREE"
  BY <1>8, <1>9, GoodUserRef
<1> QED
  BY <1>4, <1>8, <1>9, <1>11, <1>12, <1>13, Installed

\* What the peer sends is read while the session is connected.
LEMMA ReadableIs ==
  ASSUME IInv, Readable PROVE s.state = "CONNECTED"
<1>1. Good(World(0)) /\ World(0).s = s
  BY WorldIs
<1> QED
  BY <1>1 DEF Readable, Good, Sess

LEMMA CommandStep ==
  ASSUME IInv, NEW sig \in PeerSignals, NEW e \in Seps, Command(sig, e) PROVE IInv'
<1> DEFINE v == World(0)
           a == avdtp_parse_cmd(v, sig, e)
<1>1. Good(v) /\ v.s = s /\ v.cfg = cfg
  BY WorldIs
<1>2. Readable /\ cfg = NoSep /\ InstallWorld(AfterCommand(a))
  BY DEF Command
<1> HIDE DEF v
<1>3. v.s.state = "CONNECTED"
  BY <1>1, <1>2, ReadableIs
<1>4. Good(a) /\ a.s.state = "CONNECTED"
  BY <1>1, <1>2, <1>3, GoodParseCmd
<1> HIDE DEF a
<1> QED
  BY <1>2, <1>4, GoodAfterCommand, WorldInstalled

LEMMA AcceptDiscoverStep ==
  ASSUME IInv, NEW listed \in SUBSET Seps, NEW busy, AcceptDiscover(listed, busy) PROVE IInv'
<1> DEFINE v == World(0)
           a == avdtp_discover_resp(v, listed, busy)
<1>1. Good(v) /\ v.s = s
  BY WorldIs
<1>2. Readable /\ s.req.sig = "DISCOVER" /\ Install(Answered(a))
  BY DEF AcceptDiscover
<1> HIDE DEF v
<1>3. v.s.state = "CONNECTED"
  BY <1>1, <1>2, ReadableIs
<1>4. Good(a) /\ a.s.state = "CONNECTED" /\ a.s.req = v.s.req
  BY <1>1, <1>3, GoodDiscoverResp
<1> HIDE DEF a
<1>5. Settled(a)
  BY <1>1, <1>2, <1>4 DEF Settled
<1> QED
  BY <1>2, <1>4, <1>5, GoodAnswered, Installed

LEMMA AcceptGetCapStep ==
  ASSUME IInv, AcceptGetCap PROVE IInv'
<1> DEFINE v == World(0)
           a == GetCapResp(v)
<1>1. Good(v) /\ v.s = s
  BY WorldIs
<1>2. Readable /\ s.req.sig = GetCap /\ Install(Answered(a))
  BY DEF AcceptGetCap, IsGetCap
<1> HIDE DEF v
<1>3. v.s.state = "CONNECTED"
  BY <1>1, <1>2, ReadableIs
<1>4. Good(a) /\ a.s.state = "CONNECTED" /\ a.s.req = v.s.req
  BY <1>1, <1>3, GoodGetCapResp
<1> HIDE DEF a
<1>5. Settled(a)
  BY <1>1, <1>2, <1>4, ConstantsAssumption DEF Settled
<1> QED
  BY <1>2, <1>4, <1>5, GoodAnswered, Installed

LEMMA AcceptStreamStep ==
  ASSUME IInv, AcceptStream PROVE IInv'
<1> DEFINE v == World(0)
           a == avdtp_parse_resp(v, v.s.req.sig, v.s.req.stream)
<1>1. Good(v) /\ v.s = s
  BY WorldIs
<1>2. /\ Readable /\ s.req.sig \in StreamCommands
      /\ Install(Answered(IF s.req.stream = NoSep THEN v
                          ELSE avdtp_parse_resp(v, s.req.sig, s.req.stream)))
  BY DEF AcceptStream
<1>3. Install(Answered(IF v.s.req.stream = NoSep THEN v ELSE a))
  BY <1>1, <1>2
<1> HIDE DEF v
<1>4. v.s.state = "CONNECTED"
  BY <1>1, <1>2, ReadableIs
<1>5. CASE v.s.req.stream = NoSep
  <2>1. Settled(v)
    BY <1>5, Outside DEF Settled
  <2> QED
    BY <1>1, <1>3, <1>4, <1>5, <2>1, GoodAnswered, Installed
<1>6. CASE v.s.req.stream # NoSep
  <2>1. v.s.req.stream \in Seps
    BY <1>1, <1>6, Queues, Outside DEF Good, Request, SepOrNone
  <2>2. Good(a) /\ a.s.state = "CONNECTED" /\ Settled(a)
    BY <1>1, <1>2, <2>1, GoodParseResp
  <2>3. Install(Answered(a))
    BY <1>3, <1>6
  <2> HIDE DEF a
  <2> QED
    BY <2>2, <2>3, GoodAnswered, Installed
<1> QED
  BY <1>5, <1>6

LEMMA AcceptOpenFailsStep ==
  ASSUME Authorized, IInv, AcceptOpenFails PROVE IInv'
<1>1. PICK d \in DropChoices :
        Install(connection_lost(avdtp_sep_set_state(World(d), s.req.stream, "IDLE")))
  BY DEF AcceptOpenFails
<1> DEFINE v == World(d)
           e == s.req.stream
           a == avdtp_sep_set_state(v, e, "IDLE")
<1>2. Good(v) /\ v.s = s /\ DropOk(v)
  BY WorldIs
<1>3. Readable /\ s.req.sig = "OPEN"
  BY DEF AcceptOpenFails
<1>4. Install(connection_lost(a))
  BY <1>1
<1> HIDE DEF v
<1>5. v.s.state = "CONNECTED"
  BY <1>2, <1>3, ReadableIs
<1>6. e \in Seps
  <2>1. v \in Worlds /\ Named(v) /\ v.s.req # NoReq
    BY <1>2, <1>3, Outside DEF Good, Flow
  <2>2. v.s.req \in Asked(v) /\ v.s.req \in Request
    BY <2>1, Queues DEF Asked
  <2>3. v.s.req.sig \notin Streamless
    BY <1>2, <1>3, ConstantsAssumption DEF Streamless
  <2>4. v.s.req.stream # NoSep
    BY <2>1, <2>2, <2>3 DEF Named
  <2> QED
    BY <1>2, <2>2, <2>4 DEF Request, SepOrNone
<1> HIDE DEF e
<1>7. Good(a) /\ SameSess(a, v)
  BY <1>2, <1>6, SetIdle
<1> HIDE DEF a
<1>8. a.s.state # "FREE" /\ DropOk(a)
  BY <1>2, <1>5, <1>7 DEF SameSess, DropOk
<1> QED
  BY <1>4, <1>7, <1>8, GoodMayLose, ConnectionLost, Installed

LEMMA RejectStep ==
  ASSUME Authorized, IInv, Reject PROVE IInv'
<1>1. PICK d \in DropChoices :
        Install(IF s.req.sig = "ABORT" THEN connection_lost(World(d))
                ELSE Answered(avdtp_parse_rej(World(d), s.req.sig, s.req.stream)))
  BY DEF Reject
<1> DEFINE v == World(d)
           a == avdtp_parse_rej(v, v.s.req.sig, v.s.req.stream)
<1>2. Good(v) /\ v.s = s /\ DropOk(v)
  BY WorldIs
<1>3. Readable /\ s.req # NoReq
  BY DEF Reject
<1>4. Install(IF v.s.req.sig = "ABORT" THEN connection_lost(v) ELSE Answered(a))
  BY <1>1, <1>2
<1> HIDE DEF v
<1>5. v.s.state = "CONNECTED" /\ v.s.req # NoReq
  BY <1>2, <1>3, ReadableIs
<1>6. CASE v.s.req.sig = "ABORT"
  <2>1. Good(connection_lost(v))
    BY <1>2, <1>5, GoodMayLose, ConnectionLost
  <2> QED
    BY <1>4, <1>6, <2>1, Installed
<1>7. CASE v.s.req.sig # "ABORT"
  <2>1. Good(a) /\ a.s.state = "CONNECTED" /\ Settled(a)
    BY <1>2, <1>5, <1>7, GoodParseRej
  <2>2. Install(Answered(a))
    BY <1>4, <1>7
  <2> HIDE DEF a
  <2> QED
    BY <2>1, <2>2, GoodAnswered, Installed
<1> QED
  BY <1>6, <1>7

LEMMA GeneralRejectStep ==
  ASSUME IInv, GeneralReject PROVE IInv'
<1> DEFINE v == World(0)
<1>1. Good(v) /\ v.s = s
  BY WorldIs
<1>2. Readable /\ s.req.sig # "START" /\ Install(Answered(v))
  BY DEF GeneralReject
<1> HIDE DEF v
<1>3. v.s.state = "CONNECTED" /\ Settled(v)
  BY <1>1, <1>2, ReadableIs DEF Settled
<1> QED
  BY <1>1, <1>2, <1>3, GoodAnswered, Installed

LEMMA TransportConnectedStep ==
  ASSUME Authorized, IInv, NEW e \in Seps, NEW ok \in BOOLEAN, TransportConnected(e, ok)
  PROVE  IInv'
<1>1. PICK d \in DropChoices : Install(TransportConnectCb(Clear(World(d), e, "connecting"), ok))
  BY DEF TransportConnected
<1> DEFINE v == World(d)
           a == Clear(v, e, "connecting")
<1>2. Good(v) /\ v.sep = sep /\ DropOk(v)
  BY WorldIs
<1>3. "connecting" \in sep[e].f
  BY DEF TransportConnected
<1>4. Install(TransportConnectCb(a, ok))
  BY <1>1
<1> HIDE DEF v
<1>5. "stream" \in v.sep[e].f /\ v.s.state = "CONNECTED"
  <2>1. v \in Worlds /\ Flow(v) /\ v.sep[e].f # {}
    BY <1>2, <1>3 DEF Good
  <2> QED
    BY <2>1, StreamLive
<1>6. Good(a) /\ SameSess(a, v)
  BY <1>2, <1>5, GoodClear
<1> HIDE DEF a
<1>7. DropOk(a) /\ a.s.state # "FREE"
  BY <1>2, <1>5, <1>6 DEF SameSess, DropOk
<1> QED
  BY <1>4, <1>6, <1>7, GoodTransportConnectCb, Installed

\* The transport channel is gone: the stream goes too, unless our Abort will end it.
LEMMA TransportGone ==
  ASSUME NEW v, Good(v), NEW e \in Seps, "io_id" \in v.sep[e].f
  PROVE  LET w == Clear(close_stream(v, e), e, "io_id")
             u == avdtp_sep_set_state(w, e, "IDLE")
         IN /\ "abort_int" \in v.sep[e].f => Good(w)
            /\ Good(u) /\ SameSess(u, v) /\ "stream" \notin u.sep[e].f
            /\ \A x \in Seps : x # e => u.sep[x] = v.sep[x]
<1> DEFINE a == close_stream(v, e)
           w == Clear(a, e, "io_id")
           u == avdtp_sep_set_state(w, e, "IDLE")
           b == [w EXCEPT !.sep[e].state = "IDLE"]
<1>1. v \in Worlds /\ Flow(v) /\ "stream" \in v.sep[e].f /\ v.s.state # "FREE"
  <2>1. v \in Worlds /\ Flow(v)
    BY DEF Good
  <2> QED
    BY <2>1, StreamLive
<1>2. /\ Good(a) /\ SameSess(a, v) /\ a.s = v.s /\ "stream" \in a.sep[e].f
      /\ a.sep[e].f = v.sep[e].f \ {"io", "connecting"}
  BY <1>1, GoodCloseStream
<1>3. \A x \in Seps : x # e => a.sep[x] = v.sep[x]
  BY <1>1 DEF close_stream, Clear, Worlds
<1> HIDE DEF a
<1>4. a \in Worlds /\ Flow(a) /\ At(a, e) /\ a.s.state # "FREE"
  BY <1>1, <1>2 DEF Good, Flow
<1>5. PICK p \in StreamsOf : w = Put(a, e, p) /\ p.state = a.sep[e].state /\ p.f = a.sep[e].f \ {"io_id"}
  BY <1>4, ClearIs
<1> HIDE DEF w
<1>6. w \in Worlds /\ w.sep[e] = p
  BY <1>4, <1>5, PutIs
<1>7. ASSUME "abort_int" \in v.sep[e].f PROVE Good(w)
  <2>1. "stream" \in p.f /\ "abort_int" \in p.f
    BY <1>2, <1>5, <1>7
  <2>2. p.state = "OPEN" /\ "starting" \in p.f => Asks(a, e, "START")
    BY <1>4, <1>5 DEF At, Starts
  <2> QED
    BY <1>2, <1>5, <2>1, <2>2, GoodPut
<1>8. u = Idle(b, e)
  <2>1. "stream" \in w.sep[e].f
    BY <1>2, <1>5, <1>6
  <2> QED
    BY <2>1 DEF avdtp_sep_set_state, Has
<1>9. PICK q \in StreamsOf : b = Put(w, e, q)
  BY <1>6, StateIs DEF SepStates
<1>10. b = Put(a, e, q)
  BY <1>4, <1>5, <1>9, PutPut
<1> HIDE DEF b, u
<1>11. b \in Worlds /\ SameSess(b, a) /\ Beside(b, a, e) /\ Asked(b) = Asked(a)
  BY <1>4, <1>10, PutIs
<1>12. Named(b)
  BY <1>4, <1>11 DEF Flow, Named
<1>13. Good(u) /\ SameSess(u, a) /\ Beside(u, a, e) /\ "stream" \notin u.sep[e].f
  BY <1>2, <1>4, <1>8, <1>11, <1>12, GoodIdle
<1>14. SameSess(u, v) /\ \A x \in Seps : x # e => u.sep[x] = v.sep[x]
  BY <1>2, <1>3, <1>13 DEF SameSess, Beside
<1> QED
  BY <1>7, <1>13, <1>14 DEF u, w, a

\* The last user closes the signalling channel of a session without streams: it is freed.
LEMMA GoodDisconnectSession ==
  ASSUME NEW v, Good(v), v.s.state = "CONNECTED", v.users = 1, v.cfg = NoSep,
         \A x \in Seps : "stream" \notin v.sep[x].f
  PROVE  /\ Good(avdtp_disconnect_session(v))
         /\ avdtp_disconnect_session(v).s.state # "CONNECTED"
<1> DEFINE a == Off(v, "io")
           b == [a EXCEPT !.s.watch = "none"]
           y == [b EXCEPT !.users = b.users - 1]
           n == y.s.ref - 1
           c == [y EXCEPT !.s.ref = n]
           u == avdtp_disconnect_session(v)
<1>1. u = avdtp_unref(y)
  BY DEF avdtp_disconnect_session, UserUnref
<1>2. avdtp_unref(y) =
        CASE c.s.ref = 1 /\ c.s.state = "CONNECTED" /\ Is(c, "io") -> set_disconnect_timer(c)
          [] c.s.ref = 1 /\ ~(c.s.state = "CONNECTED" /\ Is(c, "io")) -> FreeSession(c)
          [] c.s.ref = 0 -> FreeSession(c)
          [] OTHER -> c
  BY DEF avdtp_unref
<1>3. v \in Worlds /\ Sess(v) /\ Flow(v)
  BY DEF Good
<1>4. v.s.ref = 2
  BY <1>3 DEF Sess, Held
<1>5. Flags(a, v) /\ a.s.f = v.s.f \ {"io"}
  BY <1>3, OffIs
<1> HIDE DEF a, u
<1>6. a \in Worlds /\ a.sep = v.sep /\ a.cfg = NoSep /\ a.users = 1 /\ a.s.ref = 2
  BY <1>4, <1>5 DEF Flags, Channel, SameStreams
<1>7. /\ b \in Worlds /\ b.s.f = a.s.f /\ b.s.ref = 2 /\ b.sep = v.sep /\ b.cfg = NoSep /\ b.users = 1
  <2>1. "none" \in Watches
    BY DEF Watches
  <2> QED
    BY <1>6, <2>1 DEF Worlds, Sessions
<1> HIDE DEF b
<1>8. y \in Worlds /\ y.s = b.s /\ y.sep = v.sep /\ y.cfg = NoSep /\ y.users = 0
  BY <1>7 DEF Worlds
<1> HIDE DEF y
<1>9. n = 1 /\ n \in Int
  BY <1>7, <1>8
<1> HIDE DEF n
<1>10. Channel(c, y) /\ c.s.ref = n /\ c.s.f = y.s.f
  BY <1>8, <1>9, CountIs
<1> HIDE DEF c
<1>11. c \in Worlds /\ c.users = 0 /\ c.cfg = NoSep /\ c.sep = v.sep /\ ~Is(c, "io") /\ c.s.ref = 1
  BY <1>5, <1>7, <1>8, <1>9, <1>10 DEF Channel, SameStreams, Is
<1>12. avdtp_unref(y) = FreeSession(c)
  BY <1>2, <1>11
<1>13. \A e \in Seps : c.sep[e] = NoStream
  BY <1>3, <1>11 DEF Flow, At, NoneLeft
<1>14. Good(FreeSession(c)) /\ FreeSession(c).s.state # "CONNECTED"
  BY <1>11, <1>13, GoodFree, FreedIs DEF FreeSession, Worlds
<1> QED
  BY <1>1, <1>12, <1>14 DEF u

LEMMA TransportCbStep ==
  ASSUME IInv, NEW e \in Seps, NEW last \in BOOLEAN, transport_cb(e, last) PROVE IInv'
<1> DEFINE v == World(0)
           w == Clear(close_stream(v, e), e, "io_id")
           u == avdtp_sep_set_state(w, e, "IDLE")
           w1 == IF "abort_int" \in sep[e].f THEN w ELSE u
<1>1. Good(v) /\ v.s = s /\ v.sep = sep /\ v.cfg = cfg /\ v.users = users
  BY WorldIs
<1>2. /\ "io_id" \in sep[e].f
      /\ last => /\ users = 1 /\ cfg = NoSep /\ Streams(v) = {e} /\ "abort_int" \notin sep[e].f
      /\ Install(IF last THEN avdtp_disconnect_session(w1) ELSE w1)
  BY DEF transport_cb
<1> HIDE DEF v
<1>3. /\ "abort_int" \in v.sep[e].f => Good(w)
      /\ Good(u) /\ SameSess(u, v) /\ "stream" \notin u.sep[e].f
      /\ \A x \in Seps : x # e => u.sep[x] = v.sep[x]
  BY <1>1, <1>2, TransportGone
<1> HIDE DEF w, u
<1>4. CASE ~last
  <2>1. Install(w1) /\ Good(w1)
    BY <1>1, <1>2, <1>3, <1>4
  <2> HIDE DEF w1
  <2> QED
    BY <2>1, Installed
<1>5. CASE last
  <2>1. w1 = u /\ Install(avdtp_disconnect_session(w1))
    BY <1>2, <1>5
  <2>2. v.s.state = "CONNECTED"
    <3>1. v \in Worlds /\ Flow(v) /\ v.sep[e].f # {}
      BY <1>1, <1>2 DEF Good
    <3> QED
      BY <3>1, StreamLive
  <2>3. u.s.state = "CONNECTED" /\ u.users = 1 /\ u.cfg = NoSep
    BY <1>1, <1>2, <1>3, <1>5, <2>2 DEF SameSess
  <2>4. \A x \in Seps : "stream" \notin u.sep[x].f
    BY <1>2, <1>3, <1>5 DEF Streams, Has
  <2>5. Good(avdtp_disconnect_session(u))
    BY <1>3, <2>3, <2>4, GoodDisconnectSession
  <2> HIDE DEF w1
  <2> QED
    BY <2>1, <2>5, Installed
<1> QED
  BY <1>4, <1>5

LEMMA RequestTimeoutStep ==
  ASSUME Authorized, IInv, request_timeout PROVE IInv'
<1>1. PICK d \in DropChoices : Install(cancel_request(World(d)))
  BY DEF request_timeout
<1> DEFINE v == World(d)
<1>2. Good(v) /\ v.s = s /\ DropOk(v)
  BY WorldIs
<1>3. s.req # NoReq /\ Install(cancel_request(v))
  BY <1>1 DEF request_timeout
<1> HIDE DEF v
<1>4. Good(cancel_request(v))
  BY <1>2, <1>3, CancelRequest
<1> QED
  BY <1>3, <1>4, Installed

LEMMA GoodOpenTimesOut ==
  ASSUME Authorized, NEW v, Good(v), DropOk(v), NEW e \in Seps, "stream" \in v.sep[e].f
  PROVE  Good(OpenTimesOut(v, e))
<1> DEFINE b == [v EXCEPT !.sep[e].timer = "none"]
           c == [b EXCEPT !.s.pending_open = NoSep]
<1>1. v \in Worlds /\ v.s.state = "CONNECTED"
  BY DEF Good, Flow, At, Live
<1>2. OpenTimesOut(v, e) = avdtp_abort(c, e)
  BY <1>1 DEF OpenTimesOut, Worlds
<1>3. "none" \in Timers /\ NoSep \in SepOrNone
  BY DEF Timers, SepOrNone
<1>4. Good(b) /\ SameSess(b, v)
  BY <1>1, <1>3, GoodTimer
<1> HIDE DEF b
<1>5. b.s.state # "FREE"
  BY <1>1, <1>4 DEF SameSess
<1>6. Good(c) /\ SameSess(c, b)
  BY <1>3, <1>4, <1>5, GoodPendingOpen
<1> HIDE DEF c
<1>7. DropOk(c)
  BY <1>4, <1>6 DEF SameSess, DropOk
<1> QED
  BY <1>2, <1>6, <1>7, GoodAbort

LEMMA GoodCloseTimesOut ==
  ASSUME NEW v, Good(v), NEW e \in Seps, "stream" \in v.sep[e].f
  PROVE  Good(CloseTimesOut(v, e))
<1> DEFINE b == [v EXCEPT !.sep[e].timer = "none"]
<1>1. Good(b) /\ b.sep[e].f = v.sep[e].f
  BY GoodTimer DEF Timers
<1> HIDE DEF b
<1>2. Good(close_stream(b, e))
  BY <1>1, GoodCloseStream
<1> QED
  BY <1>2 DEF CloseTimesOut, b

\* A timer that runs belongs to a stream.
LEMMA TimerLive ==
  ASSUME NEW v, Good(v), NEW e \in Seps, v.sep[e].timer # "none"
  PROVE  "stream" \in v.sep[e].f
<1>1. v \in Worlds /\ Flow(v)
  BY DEF Good
<1> QED
  BY <1>1, StreamLive

LEMMA OpenTimeoutStep ==
  ASSUME Authorized, IInv, NEW e \in Seps, stream_open_timeout(e) PROVE IInv'
<1>1. PICK d \in DropChoices : Install(OpenTimesOut(World(d), e))
  BY DEF stream_open_timeout
<1> DEFINE v == World(d)
<1>2. Good(v) /\ v.sep = sep /\ DropOk(v)
  BY WorldIs
<1>3. sep[e].timer = "open" /\ Install(OpenTimesOut(v, e))
  BY <1>1 DEF stream_open_timeout
<1> HIDE DEF v
<1>4. Good(OpenTimesOut(v, e))
  BY <1>2, <1>3, TimerLive, GoodOpenTimesOut
<1> QED
  BY <1>3, <1>4, Installed

LEMMA CloseTimeoutStep ==
  ASSUME IInv, NEW e \in Seps, stream_close_timeout(e) PROVE IInv'
<1> DEFINE v == World(0)
<1>1. Good(v) /\ v.sep = sep
  BY WorldIs
<1>2. sep[e].timer = "close" /\ Install(CloseTimesOut(v, e))
  BY DEF stream_close_timeout
<1> HIDE DEF v
<1>3. Good(CloseTimesOut(v, e))
  BY <1>1, <1>2, TimerLive, GoodCloseTimesOut
<1> QED
  BY <1>2, <1>3, Installed

LEMMA OldTimeoutStep ==
  ASSUME Authorized, IInv, NEW e \in Seps, NEW timer, OldTimeout(e, timer) PROVE IInv'
<1>1. PICK d \in DropChoices :
        InstallWorld(IF timer = "open" THEN OpenTimesOut(World(d), e)
                                       ELSE CloseTimesOut(World(d), e))
  BY DEF OldTimeout
<1> DEFINE v == World(d)
           u == IF timer = "open" THEN OpenTimesOut(v, e) ELSE CloseTimesOut(v, e)
<1>2. Good(v) /\ v.sep = sep /\ DropOk(v)
  BY WorldIs
<1>3. "stream" \in sep[e].f /\ InstallWorld(u)
  BY <1>1 DEF OldTimeout
<1> HIDE DEF v
<1>4. Good(u)
  BY <1>2, <1>3, GoodOpenTimesOut, GoodCloseTimesOut
<1> HIDE DEF u
<1> QED
  BY <1>3, <1>4, WorldInstalled

LEMMA StreamTimeoutStep ==
  ASSUME IInv, NEW e \in Seps, stream_timeout(e) PROVE IInv'
<1> DEFINE v == World(0)
           a == avdtp_close(v, e)
<1>1. Good(v) /\ v.sep = sep
  BY WorldIs
<1>2. "idle_timer" \in sep[e].f /\ Install(Clear(a, e, "idle_timer"))
  BY DEF stream_timeout
<1> HIDE DEF v
<1>3. Good(a) /\ "stream" \in a.sep[e].f
  BY <1>1, <1>2, GoodClose
<1> HIDE DEF a
<1>4. Good(Clear(a, e, "idle_timer"))
  BY <1>3, GoodClear
<1> QED
  BY <1>2, <1>4, Installed

LEMMA ProcessDiscoverStep ==
  ASSUME IInv, process_discover PROVE IInv'
<1> DEFINE v == World(0)
           a == Off(v, "idle")
<1>1. Good(v) /\ v.s = s
  BY WorldIs
<1>2. s.state # "FREE" /\ Install(finalize_discovery(a))
  BY DEF process_discover
<1> HIDE DEF v
<1>3. v.s.state # "FREE"
  BY <1>1, <1>2
<1>4. Good(a) /\ Flags(a, v)
  BY <1>1, <1>3, GoodOff
<1> HIDE DEF a
<1>5. a.s.state # "FREE"
  BY <1>3, <1>4 DEF Flags, Channel
<1>6. Good(finalize_discovery(a))
  BY <1>4, <1>5, GoodOff DEF finalize_discovery
<1> QED
  BY <1>2, <1>6, Installed

\* a2dp answers: its setup has a stream of the session to configure, and a reference
\* that it drops.
LEMMA AutoConfigStep ==
  ASSUME IInv, NEW ok \in BOOLEAN, NEW takes \in BOOLEAN, auto_config(ok, takes) PROVE IInv'
<1> DEFINE v == World(0)
           n == v.users + 1
           w == [v EXCEPT !.cfg = NoSep, !.users = n]
           r == UserRef(w)
           w1 == IF takes THEN r ELSE w
           a == Attach(w1, cfg)
           c == avdtp_sep_set_state(a, cfg, "CONFIGURED")
           w2 == IF ok /\ w.s.state = "CONNECTED" /\ Is(w, "io") THEN c ELSE w1
<1>1. Good(v) /\ v.s = s /\ v.cfg = cfg
  BY WorldIs
<1>2. cfg # NoSep /\ Install(UserUnref(w2))
  BY DEF auto_config
<1> HIDE DEF v
<1>3. v \in Worlds /\ Sess(v) /\ Flow(v) /\ cfg \in Seps
  BY <1>1, <1>2 DEF Good, Worlds, SepOrNone
<1>4. v.s.state # "FREE" /\ v.users \in Nat /\ n \in Nat /\ v.users \in Int
  BY <1>1, <1>2, <1>3 DEF Sess
<1>5. n = v.users + 1
  OBVIOUS
<1> HIDE DEF n
<1>6. w \in Worlds /\ w.s = v.s /\ w.sep = v.sep /\ w.cfg = NoSep /\ w.users = n
  <2>1. NoSep \in SepOrNone /\ n \in Int
    BY <1>4 DEF SepOrNone
  <2> QED
    BY <1>3, <2>1 DEF Worlds
<1> HIDE DEF w
<1>7. Good(w) /\ w.s.state # "FREE"
  <2>1. Asked(w) = Asked(v)
    BY <1>6 DEF Asked
  <2>2. ASSUME NEW x \in Seps PROVE At(w, x)
    <3>1. At(v, x) /\ About(w, x) = About(v, x)
      BY <1>3, <2>1 DEF Flow, About
    <3> QED
      BY <1>6, <3>1, Outside DEF At, NoneLeft, Live, Watched, Starts, Asks
  <2>3. Named(w)
    BY <1>3, <2>1 DEF Flow, Named
  <2>4. Held(w) = Held(v)
    BY <1>1, <1>2, <1>4, <1>5, <1>6 DEF Held
  <2>5. Sess(w)
    BY <1>3, <1>4, <1>6, <2>4 DEF Sess
  <2> QED
    BY <1>4, <1>6, <2>2, <2>3, <2>5 DEF Good, Flow
<1>8. /\ Good(w1) /\ w1.s.state = w.s.state /\ w1.users \in Nat \ {0} /\ w1.cfg = NoSep
      /\ w1.sep = v.sep
  <2>1. /\ Good(r) /\ r.users = w.users + 1 /\ r.s.state = w.s.state /\ SameStreams(r, w)
        /\ r.cfg = w.cfg
    BY <1>7, GoodUserRef
  <2> HIDE DEF r
  <2>2. CASE takes
    BY <1>4, <1>6, <2>1, <2>2 DEF SameStreams
  <2>3. CASE ~takes
    BY <1>4, <1>5, <1>6, <1>7, <2>3
  <2> QED
    BY <2>2, <2>3
<1> HIDE DEF w1
<1>9. Good(w2) /\ w2.s.state # "FREE" /\ w2.users > 0
  <2>1. CASE ok /\ w.s.state = "CONNECTED" /\ Is(w, "io")
    <3>1. w1 \in Worlds /\ Sess(w1) /\ Flow(w1) /\ w1.s.state = "CONNECTED"
      BY <1>8, <2>1 DEF Good
    <3>2. "stream" \notin w1.sep[cfg].f
      BY <1>1, <1>3, <1>8 DEF Flow, At, Live
    <3>3. Named(w1) /\ \A x \in Seps : At(w1, x)
      BY <3>1 DEF Flow
    <3>4. About(w1, cfg) = {}
      BY <1>3, <3>2, <3>3 DEF At, NoneLeft
    <3>5. ~Asks(w1, cfg, "START") /\ ~Asks(w1, cfg, "SUSPEND") /\ w1.cfg # cfg
      BY <1>2, <1>8, <3>4 DEF Asks
    <3>6. Good(a) /\ SameSess(a, w1)
      BY <1>3, <3>1, <3>3, <3>5, GoodAttach
    <3> HIDE DEF a
    <3>7. Good(c) /\ SameSess(c, a)
      BY <1>3, <3>6, SetConfigured
    <3> HIDE DEF c
    <3> QED
      BY <1>8, <2>1, <3>1, <3>6, <3>7 DEF SameSess
  <2>2. CASE ~(ok /\ w.s.state = "CONNECTED" /\ Is(w, "io"))
    BY <1>7, <1>8, <2>2
  <2> QED
    BY <2>1, <2>2
<1> HIDE DEF w2
<1>10. Good(UserUnref(w2))
  BY <1>9, GoodUserUnref
<1> QED
  BY <1>2, <1>10, Installed

\* MayAsk: there is a session.
LEMMA GetStep ==
  ASSUME IInv, avdtp_get PROVE IInv'
<1> DEFINE v == World(0)
           a == avdtp_get_internal(v)
           b == UserRef(a)
<1>1. Good(v)
  BY WorldIs
<1>2. Install(avdtp_discover(b))
  BY DEF avdtp_get
<1> HIDE DEF v
<1>3. Good(a) /\ a.s.state # "FREE"
  BY <1>1, GoodGetInternal
<1> HIDE DEF a
<1>4. Good(b) /\ b.s.state # "FREE"
  BY <1>3, GoodUserRef
<1> HIDE DEF b
<1> QED
  BY <1>2, <1>4, GoodDiscover, Installed

LEMMA DiscoverStep ==
  ASSUME IInv, Discover PROVE IInv'
<1> DEFINE v == World(0)
<1>1. Good(v) /\ v.s = s
  BY WorldIs
<1>2. s.state # "FREE" /\ Install(avdtp_discover(v))
  BY DEF Discover, MayAsk
<1> HIDE DEF v
<1> QED
  BY <1>1, <1>2, GoodDiscover, Installed

LEMMA UnrefStep ==
  ASSUME IInv, Unref PROVE IInv'
<1> DEFINE v == World(0)
<1>1. Good(v) /\ v.s = s /\ v.users = users
  BY WorldIs
<1>2. s.state # "FREE" /\ users > 0 /\ Install(UserUnref(v))
  BY DEF Unref
<1> HIDE DEF v
<1> QED
  BY <1>1, <1>2, GoodUserUnref, Installed

\* The stream is attached after its configuration has been asked for.
LEMMA SetConfigurationStep ==
  ASSUME IInv, NEW e \in Seps, avdtp_set_configuration(e) PROVE IInv'
<1> DEFINE v == World(0)
           r == Req("SET_CONFIGURATION", e, e)
           q == send_req(v, FALSE, r)
<1>1. Good(v) /\ v.s = s /\ v.sep = sep /\ v.cfg = cfg
  BY WorldIs
<1>2. /\ s.state = "CONNECTED" /\ cfg # e /\ SameType(e) \cap Streams(v) = {}
      /\ Install(Attach(send_request(v, FALSE, e, "SET_CONFIGURATION", e), e))
  BY DEF avdtp_set_configuration
<1> HIDE DEF v
<1>3. v \in Worlds /\ Sess(v) /\ Flow(v) /\ Up(v)
  BY <1>1, <1>2, UpConnected DEF Good
<1>4. "stream" \notin v.sep[e].f
  BY <1>2 DEF SameType, Streams, Has
<1>5. v.sep[e] = NoStream /\ About(v, e) = {}
  BY <1>3, <1>4 DEF Flow, At, NoneLeft
<1>6. ~Refused(v, e, "SET_CONFIGURATION")
  BY <1>3, <1>5, NoSendFails, Outside DEF Refused, Has
<1>7. send_request(v, FALSE, e, "SET_CONFIGURATION", e) = q
  BY <1>6 DEF send_request
<1>8. r \in Request /\ r.stream = e /\ r.seid = e /\ r.sig = "SET_CONFIGURATION"
  BY DEF Req, Request, Signals, StreamCommands, SepOrNone
<1> HIDE DEF r
<1>9. Requests(q, v) /\ Asked(q) = Asked(v) \cup {r}
  BY <1>3, <1>8, SendReq
<1> HIDE DEF q
<1>10. q \in Worlds /\ SameSess(q, v) /\ SameStreams(q, v) /\ q.s.state = "CONNECTED" /\ q.cfg # e
  BY <1>1, <1>2, <1>9 DEF Requests, SameSess
<1>11. Sess(q)
  BY <1>1, <1>2, <1>3, <1>10, SessKept
<1>12. Named(q)
  BY <1>3, <1>8, <1>9, Outside DEF Flow, Named
<1>13. ASSUME NEW x \in Seps, x # e PROVE At(q, x)
  <2>1. At(v, x) /\ About(q, x) = About(v, x)
    BY <1>3, <1>8, <1>9, <1>13 DEF Flow, About
  <2> QED
    BY <1>10, <2>1 DEF At, NoneLeft, Live, Watched, Starts, Asks, SameStreams, SameSess
<1>14. ~Asks(q, e, "START") /\ ~Asks(q, e, "SUSPEND")
  <2>1. About(q, e) \subseteq {r}
    BY <1>5, <1>9 DEF About
  <2> QED
    BY <1>8, <2>1 DEF Asks
<1>15. Good(Attach(q, e))
  BY <1>10, <1>11, <1>12, <1>13, <1>14, GoodAttach
<1> QED
  BY <1>2, <1>7, <1>15, Installed

LEMMA OpenStep ==
  ASSUME IInv, NEW e \in Seps, avdtp_open(e) PROVE IInv'
<1> DEFINE v == World(0)
           u == send_request(v, FALSE, e, "OPEN", e)
<1>1. Good(v) /\ v.sep = sep
  BY WorldIs
<1>2. sep[e].state = "CONFIGURED" /\ Install(u)
  BY DEF avdtp_open
<1> HIDE DEF v
<1>3. "stream" \in v.sep[e].f /\ "OPEN" \in StreamCommands
  <2>1. v \in Worlds /\ Flow(v) /\ v.sep[e].state # "IDLE"
    BY <1>1, <1>2 DEF Good
  <2> QED
    BY <2>1, StreamLive DEF StreamCommands
<1>4. Good(u)
  BY <1>1, <1>3, AskStream
<1> QED
  BY <1>2, <1>4, Installed

LEMMA StartStep ==
  ASSUME IInv, NEW e \in Seps, avdtp_start(e) PROVE IInv'
<1> DEFINE v == World(0)
           a == send_request(v, FALSE, e, "START", e)
           u == Set(a, e, "starting")
<1>1. Good(v) /\ v.sep = sep
  BY WorldIs
<1>2. sep[e].state = "OPEN" /\ ~Refused(v, e, "START") /\ Install(u)
  BY DEF avdtp_start
<1> HIDE DEF v
<1>3. /\ "stream" \in v.sep[e].f /\ ("io_id" \in v.sep[e].f \/ "abort_int" \in v.sep[e].f)
      /\ "START" \in StreamCommands /\ "starting" \in StreamFlags
  BY <1>1, <1>2, WatchedAt DEF StreamCommands, StreamFlags
<1>4. Good(a) /\ a.sep = v.sep /\ Asks(a, e, "START")
  BY <1>1, <1>2, <1>3, AskStream
<1> HIDE DEF a
<1>5. PICK p \in StreamsOf : u = Put(a, e, p) /\ p.f = a.sep[e].f \cup {"starting"}
  BY <1>3, <1>4, SetIs DEF Good
<1> HIDE DEF u
<1>6. Good(u)
  BY <1>3, <1>4, <1>5, GoodPut
<1> QED
  BY <1>2, <1>6, Installed

LEMMA SuspendStep ==
  ASSUME IInv, NEW e \in Seps, avdtp_suspend(e) PROVE IInv'
<1> DEFINE v == World(0)
           u == send_request(v, FALSE, e, "SUSPEND", e)
<1>1. Good(v) /\ v.sep = sep
  BY WorldIs
<1>2. "starting" \in sep[e].f /\ Install(u)
  BY DEF avdtp_suspend
<1> HIDE DEF v
<1>3. /\ "stream" \in v.sep[e].f /\ ("io_id" \in v.sep[e].f \/ "abort_int" \in v.sep[e].f)
      /\ "SUSPEND" \in StreamCommands
  <2>1. v \in Worlds /\ Flow(v) /\ v.sep[e].f # {} /\ At(v, e)
    BY <1>1, <1>2 DEF Good, Flow
  <2> QED
    BY <1>1, <1>2, <2>1, StreamLive DEF At, Watched, StreamCommands
<1>4. Good(u)
  BY <1>1, <1>3, AskStream
<1> QED
  BY <1>2, <1>4, Installed

LEMMA CloseStep ==
  ASSUME IInv, NEW e \in Seps, Close(e) PROVE IInv'
<1> DEFINE v == World(0)
<1>1. Good(v) /\ Install(avdtp_close(v, e))
  BY WorldIs DEF Close
<1> HIDE DEF v
<1> QED
  BY <1>1, GoodClose, Installed

LEMMA AbortStep ==
  ASSUME Authorized, IInv, NEW e \in Seps, Abort(e) PROVE IInv'
<1>1. PICK d \in DropChoices : Install(avdtp_abort(World(d), e))
  BY DEF Abort
<1> DEFINE v == World(d)
<1>2. Good(v) /\ DropOk(v) /\ Install(avdtp_abort(v, e))
  BY <1>1, WorldIs
<1> HIDE DEF v
<1> QED
  BY <1>2, GoodAbort, Installed

LEMMA DelayReportStep ==
  ASSUME IInv, NEW e \in Seps, DelayReport(e) PROVE IInv'
<1> DEFINE v == World(0)
<1>1. Good(v) /\ Install(avdtp_delay_report(v, e))
  BY WorldIs DEF DelayReport
<1> HIDE DEF v
<1> QED
  BY <1>1, GoodDelayReport, Installed

LEMMA UnregisterStep ==
  ASSUME IInv, NEW e \in Seps, avdtp_unregister_sep(e) PROVE IInv'
<1> DEFINE v == World(0)
<1>1. Good(v) /\ Install(avdtp_sep_set_state(v, e, "IDLE"))
  BY WorldIs DEF avdtp_unregister_sep, release_stream
<1> HIDE DEF v
<1> QED
  BY <1>1, SetIdle, Installed

-----------------------------------------------------------------------------
(* The theorem.                                                            *)

LEMMA InitGood == Init => IInv
<1> SUFFICES ASSUME Init PROVE Good(World(0))
  BY DEF IInv
<1> DEFINE v == World(0)
<1>1. v.s = NoSession /\ v.sep = [e \in Seps |-> NoStream] /\ v.cfg = NoSep /\ v.users = 0
  BY DEF Init, World
<1>2. v \in Worlds
  BY Outside DEF Init, World, Worlds, SepOrNone
<1> HIDE DEF v
<1>3. FreeSession(v) = v
  <2>1. Freed(v.s.f) = v.s
    <3>1. v.s.f \cap {"idle", "accepting"} = NoSession.f
      BY <1>1 DEF NoSession
    <3>2. [NoSession EXCEPT !.f = NoSession.f] = NoSession
      BY DEF NoSession
    <3> QED
      BY <1>1, <3>1, <3>2 DEF Freed
  <2> QED
    BY <1>2, <2>1 DEF FreeSession, Worlds
<1>4. Good(FreeSession(v))
  BY <1>1, <1>2, GoodFree
<1> QED
  BY <1>3, <1>4 DEF v

LEMMA NextGood ==
  ASSUME Authorized, IInv, [Next]_vars PROVE IInv'
<1>1. CASE SignallingNext
  BY <1>1, ConnectCbStep, AuthCbStep, TransportAcceptedStep, AuthorizationHandlerStep,
     ConfirmSignallingStep, ConfirmTransportStep, HangupStep, DisconnectTimeoutStep
     DEF SignallingNext
<1>2. CASE PeerNext
  BY <1>2, CommandStep, AcceptDiscoverStep, AcceptGetCapStep, AcceptStreamStep,
     AcceptOpenFailsStep, RejectStep, GeneralRejectStep, TransportCbStep,
     TransportConnectedStep DEF PeerNext
<1>3. CASE TimerNext
  BY <1>3, RequestTimeoutStep, OpenTimeoutStep, CloseTimeoutStep, OldTimeoutStep,
     StreamTimeoutStep,
     ProcessDiscoverStep, AutoConfigStep DEF TimerNext
<1>4. CASE UserNext
  BY <1>4, GetStep, DiscoverStep, UnrefStep, SetConfigurationStep, OpenStep, StartStep,
     SuspendStep, CloseStep, AbortStep, DelayReportStep, UnregisterStep DEF UserNext
<1>5. CASE UNCHANGED vars
  <2>1. World(0)' = World(0)
    BY <1>5 DEF World, vars
  <2> QED
    BY <2>1 DEF IInv
<1> QED
  BY <1>1, <1>2, <1>3, <1>4, <1>5 DEF Next

\* The timers that were overwritten.
OldOk == old \in [Seps -> SUBSET {"open", "close"}]

LEMMA NextOld ==
  ASSUME IInv, OldOk, [Next]_vars PROVE OldOk'
<1>1. ASSUME NEW e \in Seps, NEW x \in SUBSET {"open", "close"}, old' = [old EXCEPT ![e] = x]
      PROVE  OldOk'
  BY <1>1 DEF OldOk
<1>2. \A e \in Seps : {sep[e].timer} \ {"none"} \subseteq {"open", "close"}
  <2>1. World(0) \in Worlds /\ World(0).sep = sep
    BY WorldIs DEF Good
  <2> QED
    BY <2>1 DEF Worlds, StreamsOf, Timers
<1>3. ASSUME NEW sig \in PeerSignals, NEW e \in Seps, Command(sig, e) PROVE OldOk'
  BY <1>1, <1>2, <1>3 DEF Command, Overwritten, OldOk
<1>4. ASSUME NEW e \in Seps, NEW timer, OldTimeout(e, timer) PROVE OldOk'
  BY <1>1, <1>2, <1>4 DEF OldTimeout, OldOk
<1>5. CASE UNCHANGED old
  BY <1>5 DEF OldOk
<1>6. CASE SignallingNext
  <2>1. UNCHANGED old
    BY <1>6 DEF SignallingNext, Install, avdtp_connect_cb, auth_cb, TransportAccepted,
       avdtp_authorization_handler, ConfirmSignalling, ConfirmTransport, Hangup,
       disconnect_timeout
  <2> QED
    BY <1>5, <2>1
<1>7. CASE PeerNext
  <2>1. UNCHANGED old \/ \E sig \in PeerSignals, e \in Seps : Command(sig, e)
    BY <1>7 DEF PeerNext, Install, AcceptDiscover, AcceptGetCap, AcceptStream,
       AcceptOpenFails, Reject, GeneralReject, transport_cb, TransportConnected
  <2> QED
    BY <1>3, <1>5, <2>1
<1>8. CASE TimerNext
  <2>1. \/ UNCHANGED old
        \/ \E e \in Seps, timer \in {"open", "close"} : OldTimeout(e, timer)
    BY <1>8 DEF TimerNext, Install, request_timeout, stream_open_timeout,
       stream_close_timeout, stream_timeout, process_discover, auto_config
  <2> QED
    BY <1>4, <1>5, <2>1
<1>9. CASE UserNext
  <2>1. UNCHANGED old
    BY <1>9 DEF UserNext, Install, avdtp_get, Discover, Unref, avdtp_set_configuration,
       avdtp_open, avdtp_start, avdtp_suspend, Close, Abort, DelayReport,
       avdtp_unregister_sep
  <2> QED
    BY <1>5, <2>1
<1>10. CASE UNCHANGED vars
  BY <1>5, <1>10 DEF vars
<1> QED
  BY <1>6, <1>7, <1>8, <1>9, <1>10 DEF Next

LEMMA GoodSafe == IInv /\ OldOk => SessionSafe
<1> SUFFICES ASSUME IInv, OldOk PROVE SessionSafe
  OBVIOUS
<1> DEFINE v == World(0)
<1>1. Good(v) /\ v.s = s /\ v.sep = sep /\ v.cfg = cfg /\ v.users = users
  BY WorldIs
<1> HIDE DEF v
<1>2. v \in Worlds /\ Sess(v) /\ Flow(v)
  BY <1>1 DEF Good
<1>3. TypeOK
  <2>1. s \in Sessions /\ sep \in [Seps -> StreamsOf] /\ cfg \in SepOrNone /\ users \in Nat
    BY <1>1, <1>2 DEF Worlds, Sess
  <2>2. s.ref \in Nat
    <3>1. CASE s.state = "FREE"
      BY <1>1, <1>2, <3>1, FreedIs DEF Sess
    <3>2. CASE s.state # "FREE"
      BY <1>1, <1>2, <2>1, <3>2 DEF Sess, Held
    <3> QED
      BY <3>1, <3>2
  <2>3. s \in [state : SessionStates, ref : Nat, pending : Pending,
               watch : Watches, f : SUBSET SessionFlags,
               req : Request \cup {NoReq}, prio_queue : Seq(Request),
               req_queue : Seq(Request), pending_open : SepOrNone,
               seps : SUBSET Seps]
    BY <2>1, <2>2 DEF Sessions
  <2>4. sep \in [Seps -> [state : SepStates, timer : Timers, f : SUBSET StreamFlags]]
    BY <2>1 DEF StreamsOf
  <2> QED
    BY <2>1, <2>3, <2>4 DEF TypeOK, OldOk
<1>4. ASSUME NEW e \in Seps PROVE Outstanding(e) = {r.sig : r \in About(v, e)}
  <2>1. Asked(v) = ({s.req} \cup {s.prio_queue[i] : i \in DOMAIN s.prio_queue}
                            \cup {s.req_queue[i] : i \in DOMAIN s.req_queue}) \ {NoReq}
    BY <1>1 DEF Asked, Elems
  <2>2. NoReq.stream # e
    BY Outside
  <2>3. About(v, e) = {x \in {s.req} \cup {s.prio_queue[i] : i \in DOMAIN s.prio_queue}
                             \cup {s.req_queue[i] : i \in DOMAIN s.req_queue} : x.stream = e}
    BY <2>1, <2>2 DEF About
  <2> QED
    BY <2>3 DEF Outstanding
<1>5. NoDangling
  <2>1. ASSUME NEW e \in Seps, "stream" \notin sep[e].f
        PROVE  sep[e] = NoStream /\ Outstanding(e) = {} /\ s.pending_open # e
    <3>1. v.sep[e] = NoStream /\ v.s.pending_open # e /\ About(v, e) = {}
      BY <1>1, <1>2, <2>1 DEF Flow, At, NoneLeft
    <3>2. Outstanding(e) = {}
      BY <1>4, <3>1
    <3> QED
      BY <1>1, <3>1, <3>2
  <2>2. ASSUME NEW e \in Seps, s.state \in {"FREE", "DISCONNECTED"} PROVE "stream" \notin sep[e].f
    BY <1>1, <1>2, <2>2 DEF Flow, At, Live
  <2>3. s.state = "FREE" => s = Freed(s.f)
    BY <1>1, <1>2 DEF Sess
  <2> QED
    BY <2>1, <2>2, <2>3 DEF NoDangling
<1>6. StartUnderWay
  <2> SUFFICES ASSUME NEW e \in Seps, sep[e].state = "OPEN", "starting" \in sep[e].f
               PROVE  "START" \in Outstanding(e)
    BY DEF StartUnderWay
  <2>1. Asks(v, e, "START")
    BY <1>1, <1>2 DEF Flow, At, Starts
  <2> QED
    BY <1>4, <2>1 DEF Asks
<1>7. TransportWatched
  BY <1>1, <1>2 DEF TransportWatched, Flow, At, Watched
<1>8. RefCount
  <2>1. CASE s.state = "FREE"
    BY <1>1, <1>2, <2>1, FreedIs DEF RefCount, Sess
  <2>2. CASE s.state # "FREE"
    BY <1>1, <1>2, <2>2 DEF RefCount, Sess, Held
  <2> QED
    BY <2>1, <2>2
<1>9. TimerUnreferenced
  BY <1>1, <1>2 DEF TimerUnreferenced, Sess
<1> QED
  BY <1>3, <1>5, <1>6, <1>7, <1>8, <1>9 DEF SessionSafe, Consistent, References

\* However the users, the peer, the timers and the channels of an AVDTP session are
\* interleaved, and wherever its connection is lost (audio/avdtp.c): what the session,
\* its streams, its requests and its holders know of each other fits, also when the peer
\* repeats an Open and the timer that was overwritten expires.  What such a timer does
\* once its stream is freed is not followed.  The hypothesis is that authorization does
\* not drop references it never took.
THEOREM SessionTheorem ==
  ASSUME Authorized PROVE Spec => []SessionSafe
<1>1. Init => OldOk
  BY DEF Init, OldOk
<1> QED
  BY <1>1, InitGood, NextGood, NextOld, GoodSafe, PTL DEF Spec

-----------------------------------------------------------------------------
(* The order of an Abort and the other requests about its stream.          *)

Urgent == {"ABORT", "DELAY_REPORT"}
Prio(v) == Elems(v.s.prio_queue)
Aborts(v) == {e \in Seps : "abort_int" \in v.sep[e].f}

\* What overtakes other requests about a stream is an Abort or a delay report.
Overtakes(v) == \A r \in Prio(v) : r.stream \in Seps => r.sig \in Urgent

\* The Abort of a stream that we abort is in flight or overtakes what is queued, and
\* what was in flight about the stream was cancelled.
Aborting(v, e) ==
  /\ v.s.req.stream = e => v.s.req.sig \in Urgent
  /\ \E r \in Prio(v) \cup {v.s.req} : r.stream = e /\ r.sig = "ABORT"

Order(v) == Overtakes(v) /\ \A e \in Aborts(v) : Aborting(v, e)

\* From v to u no stream comes, and those that stay are still aborted.
Follows(u, v) == Streams(u) \subseteq Streams(v) /\ Aborts(v) \cap Streams(u) \subseteq Aborts(u)

Leads(v, u) == Order(v) => Order(u) /\ Follows(u, v)

\* Nothing of that changes.
Calm(u, v) == /\ u.s.req = v.s.req /\ Prio(u) = Prio(v)
              /\ Aborts(u) = Aborts(v) /\ Streams(u) = Streams(v)

LEMMA LeadsTrans ==
  ASSUME NEW u, NEW v, NEW w, Leads(u, v), Leads(v, w) PROVE Leads(u, w)
  BY DEF Leads, Follows

LEMMA CalmTrans ==
  ASSUME NEW u, NEW v, NEW w, Calm(u, v), Calm(v, w) PROVE Calm(u, w)
  BY DEF Calm

LEMMA CalmLeads ==
  ASSUME NEW u, NEW v, Calm(u, v) PROVE Leads(v, u)
<1>1. Overtakes(v) => Overtakes(u)
  BY DEF Calm, Overtakes
<1>2. ASSUME NEW e, Aborting(v, e) PROVE Aborting(u, e)
  BY <1>2 DEF Calm, Aborting
<1>3. Follows(u, v)
  BY DEF Calm, Follows
<1> QED
  BY <1>1, <1>2, <1>3 DEF Leads, Order, Calm

LEMMA LeadsSelf == ASSUME NEW v PROVE Leads(v, v) /\ Calm(v, v)
  BY DEF Leads, Follows, Calm

\* A stream that is aborted exists.
LEMMA AbortsIn ==
  ASSUME NEW v, Good(v)
  PROVE  Aborts(v) \subseteq Streams(v) /\ (v.s.state # "CONNECTED" => Streams(v) = {})
<1>1. v \in Worlds /\ Flow(v)
  BY DEF Good
<1>2. ASSUME NEW e \in Seps
      PROVE  /\ "abort_int" \in v.sep[e].f => "stream" \in v.sep[e].f
             /\ "stream" \in v.sep[e].f => v.s.state = "CONNECTED"
  BY <1>1, StreamLive
<1> QED
  BY <1>2 DEF Aborts, Streams, Has

\* Without streams there is nothing to put in order.
LEMMA StreamlessOrder ==
  ASSUME NEW u, Good(u), Streams(u) = {}
  PROVE  Order(u) /\ \A v : Leads(v, u)
<1>1. Aborts(u) = {}
  BY AbortsIn
<1>2. Overtakes(u)
  <2> SUFFICES ASSUME NEW r \in Prio(u), r.stream \in Seps PROVE FALSE
    BY DEF Overtakes
  <2>1. u \in Worlds /\ Flow(u)
    BY DEF Good
  <2>2. r \in Request
    BY <2>1, Queues, ElemsIn DEF Prio
  <2>3. r \in About(u, r.stream)
    BY <2>2, Outside DEF About, Asked, Prio
  <2>4. "stream" \in u.sep[r.stream].f
    BY <2>1, <2>3, StreamLive
  <2> QED
    BY <2>4 DEF Streams, Has
<1> QED
  BY <1>1, <1>2 DEF Order, Leads, Follows

LEMMA DownLeads ==
  ASSUME NEW u, Good(u), u.s.state # "CONNECTED" PROVE \A v : Leads(v, u)
  BY AbortsIn, StreamlessOrder

LEMMA LostLeads ==
  ASSUME Authorized, NEW v, MayLose(v) PROVE \A w : Leads(w, connection_lost(v))
  BY ConnectionLost, DownLeads

-----------------------------------------------------------------------------
(* What changes nothing of the order.                                      *)

LEMMA CalmPut ==
  ASSUME NEW v \in Worlds, NEW e \in Seps, NEW p \in StreamsOf,
         "stream" \in p.f <=> "stream" \in v.sep[e].f,
         "abort_int" \in p.f <=> "abort_int" \in v.sep[e].f
  PROVE  Calm(Put(v, e, p), v) /\ Put(v, e, p) \in Worlds
<1> DEFINE u == Put(v, e, p)
<1>1. u \in Worlds /\ u.s = v.s /\ u.sep[e] = p /\ Beside(u, v, e)
  BY PutIs
<1> HIDE DEF u
<1>2. \A x \in Seps : x = e \/ u.sep[x] = v.sep[x]
  BY <1>1 DEF Beside
<1> QED
  BY <1>1, <1>2 DEF Calm, Prio, Aborts, Streams, Has, u

LEMMA CalmSet ==
  ASSUME NEW v \in Worlds, NEW e \in Seps, NEW x \in StreamFlags \ {"stream", "abort_int"}
  PROVE  Calm(Set(v, e, x), v) /\ Set(v, e, x) \in Worlds
<1>1. PICK p \in StreamsOf : Set(v, e, x) = Put(v, e, p) /\ p.f = v.sep[e].f \cup {x}
  BY SetIs
<1> QED
  BY <1>1, CalmPut

LEMMA CalmClear ==
  ASSUME NEW v \in Worlds, NEW e \in Seps, NEW x, x \notin {"stream", "abort_int"}
  PROVE  Calm(Clear(v, e, x), v) /\ Clear(v, e, x) \in Worlds
<1>1. PICK p \in StreamsOf : Clear(v, e, x) = Put(v, e, p) /\ p.f = v.sep[e].f \ {x}
  BY ClearIs
<1> QED
  BY <1>1, CalmPut

LEMMA CalmTimer ==
  ASSUME NEW v \in Worlds, NEW e \in Seps, NEW t \in Timers
  PROVE  LET u == [v EXCEPT !.sep[e].timer = t] IN Calm(u, v) /\ u \in Worlds
<1>1. PICK p \in StreamsOf : [v EXCEPT !.sep[e].timer = t] = Put(v, e, p) /\ p.f = v.sep[e].f
  BY TimerIs
<1> QED
  BY <1>1, CalmPut

LEMMA CalmSession ==
  ASSUME NEW u, NEW v, u.sep = v.sep, u.s.req = v.s.req, u.s.prio_queue = v.s.prio_queue
  PROVE  Calm(u, v)
  BY DEF Calm, Prio, Aborts, Streams, Has

LEMMA CalmChannel ==
  ASSUME NEW u, NEW v, Channel(u, v) PROVE Calm(u, v)
  BY CalmSession DEF Channel, SameStreams

LEMMA CalmOn ==
  ASSUME NEW v \in Worlds, NEW x \in SessionFlags PROVE Calm(On(v, x), v) /\ On(v, x) \in Worlds
  BY OnIs, CalmChannel DEF Flags, Channel

LEMMA CalmOff ==
  ASSUME NEW v \in Worlds, NEW x PROVE Calm(Off(v, x), v) /\ Off(v, x) \in Worlds
  BY OffIs, CalmChannel DEF Flags, Channel

LEMMA CalmPending ==
  ASSUME NEW v \in Worlds, NEW po \in SepOrNone
  PROVE  LET u == [v EXCEPT !.s.pending_open = po] IN Calm(u, v) /\ u \in Worlds
<1> DEFINE u == [v EXCEPT !.s.pending_open = po]
<1>1. u.sep = v.sep /\ u.s.req = v.s.req /\ u.s.prio_queue = v.s.prio_queue /\ u \in Worlds
  BY PendingIs DEF Worlds, Sessions
<1> HIDE DEF u
<1> QED
  BY <1>1, CalmSession DEF u

-----------------------------------------------------------------------------
(* Requests and the order.                                                 *)

\* u has the streams of v, the request req in flight and Prio queued before others.
Sends(u, v, req, prio) == u.sep = v.sep /\ u.s.req = req /\ Prio(u) = prio

LEMMA SendsStreams ==
  ASSUME NEW u, NEW v, u.sep = v.sep
  PROVE  Aborts(u) = Aborts(v) /\ Streams(u) = Streams(v) /\ Follows(u, v)
  BY DEF Aborts, Streams, Has, Follows

LEMMA QueueShape ==
  ASSUME NEW v \in Worlds, NEW prio \in BOOLEAN, NEW r \in Request
  PROVE  Sends(queue_request(v, prio, r), v, v.s.req, Prio(v) \cup (IF prio THEN {r} ELSE {}))
<1>1. v.s.prio_queue \in Seq(Request) /\ v.s.req_queue \in Seq(Request)
  BY Queues
<1>2. CASE prio
  <2> DEFINE q == Append(v.s.prio_queue, r)
             u == [v EXCEPT !.s.prio_queue = q]
  <2>1. queue_request(v, prio, r) = u
    BY <1>2 DEF queue_request
  <2>2. q \in Seq(Request) /\ Elems(q) = Elems(v.s.prio_queue) \cup {r}
    BY <1>1, ElemsAppend
  <2> HIDE DEF q
  <2>3. Requests(u, v) /\ u.s.req = v.s.req /\ u.s.prio_queue = q
    BY <2>2, PrioIs
  <2> HIDE DEF u
  <2> QED
    BY <1>2, <2>1, <2>2, <2>3 DEF Sends, Prio, Requests, SameStreams
<1>3. CASE ~prio
  <2> DEFINE q == Append(v.s.req_queue, r)
             u == [v EXCEPT !.s.req_queue = q]
  <2>1. queue_request(v, prio, r) = u
    BY <1>3 DEF queue_request
  <2>2. q \in Seq(Request)
    BY <1>1, ElemsAppend
  <2> HIDE DEF q
  <2>3. Requests(u, v) /\ u.s.req = v.s.req /\ u.s.prio_queue = v.s.prio_queue
    BY <2>2, QueueIs
  <2> HIDE DEF u
  <2> QED
    BY <1>3, <2>1, <2>3 DEF Sends, Prio, Requests, SameStreams
<1> QED
  BY <1>2, <1>3

LEMMA SendShape ==
  ASSUME NEW v \in Worlds, Up(v), NEW prio \in BOOLEAN, NEW r \in Request
  PROVE  LET u == send_req(v, prio, r)
         IN IF v.s.req = NoReq THEN Sends(u, v, r, Prio(v))
            ELSE Sends(u, v, v.s.req, Prio(v) \cup (IF prio THEN {r} ELSE {}))
<1>1. /\ ~SendFails(v) /\ v.s.state = "CONNECTED"
  BY DEF Up, SendFails, Is
<1>2. CASE v.s.req # NoReq
  <2>1. send_req(v, prio, r) = queue_request(v, prio, r)
    BY <1>1, <1>2 DEF send_req
  <2> QED
    BY <1>2, <2>1, QueueShape
<1>3. CASE v.s.req = NoReq
  <2> DEFINE u == [v EXCEPT !.s.req = r]
  <2>1. send_req(v, prio, r) = u
    BY <1>1, <1>3 DEF send_req
  <2>2. /\ Requests(u, v) /\ u.s.req = r /\ u.s.prio_queue = v.s.prio_queue
    BY ReqIs
  <2> HIDE DEF u
  <2> QED
    BY <1>3, <2>1, <2>2 DEF Sends, Prio, Requests, SameStreams
<1> QED
  BY <1>2, <1>3

\* A request that does not overtake those about its stream, unless it may, and that is
\* not about a stream that is aborted, unless it aborts it.
LEMMA AskLeads ==
  ASSUME NEW v \in Worlds, Up(v), NEW prio \in BOOLEAN, NEW r \in Request,
         prio /\ r.stream \in Seps => r.sig \in Urgent,
         r.stream \in Aborts(v) => r.sig \in Urgent
  PROVE  Leads(v, send_req(v, prio, r))
<1> DEFINE u == send_req(v, prio, r)
<1>1. IF v.s.req = NoReq THEN Sends(u, v, r, Prio(v))
      ELSE Sends(u, v, v.s.req, Prio(v) \cup (IF prio THEN {r} ELSE {}))
  BY SendShape
<1> HIDE DEF u
<1> SUFFICES ASSUME Order(v) PROVE Order(u) /\ Follows(u, v)
  BY DEF Leads, u
<1>2. Aborts(u) = Aborts(v) /\ Follows(u, v)
  BY <1>1, SendsStreams DEF Sends
<1>3. Overtakes(u)
  <2>1. \A x \in Prio(u) : x \in Prio(v) \/ (prio /\ x = r)
    BY <1>1 DEF Sends
  <2> QED
    BY <2>1 DEF Order, Overtakes
<1>4. ASSUME NEW e \in Aborts(v) PROVE Aborting(u, e)
  <2>1. Aborting(v, e)
    BY <1>4 DEF Order
  <2>2. PICK x \in Prio(v) \cup {v.s.req} : x.stream = e /\ x.sig = "ABORT"
    BY <2>1 DEF Aborting
  <2>3. CASE v.s.req = NoReq
    <3>1. x \in Prio(v)
      BY <2>2, <2>3, Outside
    <3> QED
      BY <1>1, <1>4, <2>2, <2>3, <3>1 DEF Aborting, Sends
  <2>4. CASE v.s.req # NoReq
    <3>1. u.s.req = v.s.req /\ Prio(v) \subseteq Prio(u)
      BY <1>1, <2>4 DEF Sends
    <3> QED
      BY <2>1, <2>2, <3>1 DEF Aborting
  <2> QED
    BY <2>3, <2>4
<1> QED
  BY <1>2, <1>3, <1>4 DEF Order

LEMMA SendLeads ==
  ASSUME NEW v, Good(v), v.s.state = "CONNECTED", NEW prio \in BOOLEAN,
         NEW stream \in SepOrNone, NEW sig \in Signals, NEW seid \in SepOrNone,
         prio /\ stream \in Seps => sig \in Urgent
  PROVE  Leads(v, send_request(v, prio, stream, sig, seid))
<1> DEFINE r == Req(sig, seid, stream)
<1>1. v \in Worlds /\ Up(v)
  BY UpConnected DEF Good
<1>2. CASE Refused(v, stream, sig)
  BY <1>2, LeadsSelf DEF send_request
<1>3. CASE ~Refused(v, stream, sig)
  <2>1. r \in Request /\ r.stream = stream /\ r.sig = sig
    BY DEF Req, Request
  <2>2. send_request(v, prio, stream, sig, seid) = send_req(v, prio, r)
    BY <1>3 DEF send_request
  <2>3. stream \in Aborts(v) => sig = "ABORT"
    BY <1>3, Outside DEF Refused, Aborts, Has
  <2> HIDE DEF r
  <2>4. stream \in Aborts(v) => sig \in Urgent
    BY <2>3 DEF Urgent
  <2> QED
    BY <1>1, <2>1, <2>2, <2>4, AskLeads
<1> QED
  BY <1>2, <1>3

LEMMA ProcessLeads ==
  ASSUME NEW v \in Worlds, Up(v) PROVE Leads(v, process_queue(v))
<1> DEFINE pq == v.s.prio_queue
           rq == v.s.req_queue
           p == [v EXCEPT !.s.prio_queue = Tail(pq)]
           q == [v EXCEPT !.s.req_queue = Tail(rq)]
           u == process_queue(v)
<1>1. CASE v.s.req = NoReq /\ pq # << >>
  <2>1. Tail(pq) \in Seq(Request) /\ Head(pq) \in Request /\ Elems(pq) = Elems(Tail(pq)) \cup {Head(pq)}
    BY <1>1, Queues, ElemsTail
  <2>2. /\ Requests(p, v) /\ p.s.req = v.s.req /\ p.s.prio_queue = Tail(pq)
    BY <2>1, PrioIs
  <2>3. u = send_req(p, FALSE, Head(pq))
    BY <1>1 DEF process_queue
  <2> HIDE DEF p, u
  <2>4. p \in Worlds /\ Up(p) /\ p.sep = v.sep
    BY <2>2 DEF Requests, Up, SameSess, SameStreams
  <2>5. Sends(u, v, Head(pq), Prio(p))
    BY <1>1, <2>1, <2>2, <2>3, <2>4, SendShape DEF Sends
  <2>6. u.s.req = Head(pq) /\ Prio(v) = Prio(u) \cup {Head(pq)}
    BY <2>1, <2>2, <2>5 DEF Sends, Prio
  <2>7. Aborts(u) = Aborts(v) /\ Follows(u, v)
    BY <2>5, SendsStreams DEF Sends
  <2> SUFFICES ASSUME Order(v) PROVE Order(u)
    BY <2>7 DEF Leads, u
  <2>8. Overtakes(u)
    BY <2>6 DEF Order, Overtakes
  <2>9. ASSUME NEW e \in Aborts(v) PROVE Aborting(u, e)
    <3>1. Aborting(v, e) /\ e \in Seps
      BY <2>9 DEF Order, Aborts
    <3>2. PICK x \in Prio(v) \cup {v.s.req} : x.stream = e /\ x.sig = "ABORT"
      BY <3>1 DEF Aborting
    <3>3. x \in Prio(v)
      BY <1>1, <3>2, Outside
    <3>4. Head(pq).stream = e => Head(pq).sig \in Urgent
      BY <2>6, <3>1 DEF Order, Overtakes
    <3> QED
      BY <2>6, <3>2, <3>3, <3>4 DEF Aborting
  <2> QED
    BY <2>7, <2>8, <2>9 DEF Order
<1>2. CASE v.s.req = NoReq /\ pq = << >> /\ rq # << >>
  <2>1. Tail(rq) \in Seq(Request) /\ Head(rq) \in Request
    BY <1>2, Queues, ElemsTail
  <2>2. /\ Requests(q, v) /\ q.s.req = v.s.req /\ q.s.prio_queue = pq
    BY <2>1, QueueIs
  <2>3. u = send_req(q, FALSE, Head(rq))
    BY <1>2 DEF process_queue
  <2> HIDE DEF q, u
  <2>4. q \in Worlds /\ Up(q) /\ q.sep = v.sep
    BY <2>2 DEF Requests, Up, SameSess, SameStreams
  <2>5. Sends(u, v, Head(rq), Prio(q))
    BY <1>2, <2>1, <2>2, <2>3, <2>4, SendShape DEF Sends
  <2>6. Prio(v) = {} /\ Prio(u) = {}
    BY <1>2, <2>2, <2>5, ElemsEmpty DEF Sends, Prio
  <2>7. Aborts(u) = Aborts(v) /\ Follows(u, v)
    BY <2>5, SendsStreams DEF Sends
  <2> SUFFICES ASSUME Order(v) PROVE Order(u)
    BY <2>7 DEF Leads, u
  <2>8. Aborts(v) = {}
    <3> SUFFICES ASSUME NEW e \in Aborts(v) PROVE FALSE
      OBVIOUS
    <3>1. Aborting(v, e)
      BY DEF Order
    <3> QED
      BY <1>2, <2>6, <3>1, Outside DEF Aborting
  <2> QED
    BY <2>6, <2>7, <2>8 DEF Order, Overtakes
<1>3. CASE v.s.req # NoReq \/ (pq = << >> /\ rq = << >>)
  <2>1. u = v
    BY <1>3 DEF process_queue
  <2> QED
    BY <2>1, LeadsSelf
<1> QED
  BY <1>1, <1>2, <1>3

\* The request in flight was answered: it did not abort a stream that is still there.
LEMMA AnsweredLeads ==
  ASSUME NEW v, Good(v), v.s.state = "CONNECTED",
         v.s.req.sig = "ABORT" => v.s.req.stream \notin Seps
  PROVE  Leads(v, Answered(v))
<1> DEFINE u == [v EXCEPT !.s.req = NoReq]
<1>0. Answered(v) = process_queue(u)
  BY DEF Answered
<1>1. v \in Worlds /\ Up(v)
  BY UpConnected DEF Good
<1>2. Requests(u, v) /\ u.s.req = NoReq /\ u.s.prio_queue = v.s.prio_queue
  BY <1>1, ReqIs
<1> HIDE DEF u
<1>3. u \in Worlds /\ Up(u) /\ u.sep = v.sep /\ Prio(u) = Prio(v)
  BY <1>1, <1>2 DEF Requests, Up, SameSess, SameStreams, Prio
<1>4. Leads(v, u)
  <2>1. Aborts(u) = Aborts(v) /\ Follows(u, v)
    BY <1>3, SendsStreams
  <2> SUFFICES ASSUME Order(v) PROVE Order(u)
    BY <2>1 DEF Leads
  <2>2. ASSUME NEW e \in Aborts(v) PROVE Aborting(u, e)
    <3>1. Aborting(v, e) /\ e \in Seps
      BY <2>2 DEF Order, Aborts
    <3>2. PICK x \in Prio(v) \cup {v.s.req} : x.stream = e /\ x.sig = "ABORT"
      BY <3>1 DEF Aborting
    <3>3. x \in Prio(u)
      BY <1>3, <3>1, <3>2
    <3> QED
      BY <1>2, <3>1, <3>2, <3>3, Outside DEF Aborting
  <2> QED
    BY <1>3, <2>1, <2>2 DEF Order, Overtakes
<1> QED
  BY <1>0, <1>3, <1>4, ProcessLeads, LeadsTrans

-----------------------------------------------------------------------------
(* A stream goes, or changes its state.                                    *)

LEMMA CalmTake ==
  ASSUME NEW v \in Worlds, v.s.pending_open \in Seps
  PROVE  Calm(TakePendingOpen(v), v) /\ TakePendingOpen(v) \in Worlds
<1> DEFINE e == v.s.pending_open
           a == [v EXCEPT !.sep[e].timer = "none"]
           u == [a EXCEPT !.s.pending_open = NoSep]
<1>1. TakePendingOpen(v) = u
  BY DEF TakePendingOpen, Worlds
<1>2. Calm(a, v) /\ a \in Worlds
  <2>1. "none" \in Timers
    BY DEF Timers
  <2>2. PICK p \in StreamsOf : a = Put(v, e, p)
    BY <2>1, TimerIs
  <2> QED
    BY <2>1, <2>2, CalmTimer, PutIs
<1> HIDE DEF a
<1>3. Calm(u, a) /\ u \in Worlds
  BY <1>2, CalmPending DEF SepOrNone
<1> QED
  BY <1>1, <1>2, <1>3, CalmTrans

\* What is left of the requests when the stream of e goes.
LEMMA IdleShape ==
  ASSUME NEW v \in Worlds, Named(v), NEW e \in Seps
  PROVE  LET u == Idle(v, e)
         IN /\ Prio(u) = {r \in Prio(v) : r.stream # e}
            /\ IF v.s.req.stream = e THEN u.s.req.stream = NoSep ELSE u.s.req = v.s.req
<1> DEFINE w1 == IF v.s.pending_open = e THEN TakePendingOpen(v) ELSE v
           w2 == IF w1.s.req.stream = e THEN handle_unanswered_req(w1) ELSE w1
           w3 == cleanup_queue(w2, e)
           u == Put(w3, e, NoStream)
<1>0. Idle(v, e) = u
  BY DEF Idle, Put
<1>1. /\ w1 \in Worlds /\ Named(w1) /\ w1.s.req = v.s.req /\ Prio(w1) = Prio(v)
  <2>1. CASE v.s.pending_open = e
    <3> DEFINE a == TakePendingOpen(v)
    <3>1. a \in Worlds /\ Asked(a) = Asked(v) /\ Calm(a, v)
      BY <2>1, TakePendingOpenIs, CalmTake
    <3> HIDE DEF a
    <3>2. w1 = a
      BY <2>1 DEF a
    <3> QED
      BY <3>1, <3>2 DEF Named, Calm
  <2>2. CASE v.s.pending_open # e
    BY <2>2
  <2> QED
    BY <2>1, <2>2
<1> HIDE DEF w1
<1>2. /\ w2 \in Worlds /\ Prio(w2) = Prio(v)
      /\ IF v.s.req.stream = e THEN w2.s.req.stream = NoSep ELSE w2.s.req = v.s.req
  <2>1. CASE w1.s.req.stream = e
    <3> DEFINE a == handle_unanswered_req(w1)
    <3>1. Requests(a, w1) /\ a.s.req.stream = NoSep
      BY <1>1, HandleUnansweredReq
    <3>2. a.s.prio_queue = w1.s.prio_queue
      BY <1>1 DEF handle_unanswered_req, Worlds, Sessions
    <3> HIDE DEF a
    <3>3. w2 = a
      BY <2>1 DEF a
    <3> QED
      BY <1>1, <2>1, <3>1, <3>2, <3>3 DEF Requests, Prio
  <2>2. CASE w1.s.req.stream # e
    BY <1>1, <2>2
  <2> QED
    BY <2>1, <2>2
<1> HIDE DEF w2
<1>3. w3 \in Worlds /\ Prio(w3) = {r \in Prio(w2) : r.stream # e} /\ w3.s.req = w2.s.req
  <2> DEFINE pq == NotOf(w2.s.prio_queue, e)
             rq == NotOf(w2.s.req_queue, e)
             a == [w2 EXCEPT !.s.prio_queue = pq]
             b == [a EXCEPT !.s.req_queue = rq]
  <2>1. w3 = b
    BY <1>2 DEF cleanup_queue, Worlds
  <2>2. pq \in Seq(Request) /\ Elems(pq) = {r \in Elems(w2.s.prio_queue) : r.stream # e}
        /\ rq \in Seq(Request)
    BY <1>2, Queues, NotOfIs
  <2> HIDE DEF pq, rq, w3
  <2>3. a \in Worlds /\ a.s.req = w2.s.req /\ a.s.prio_queue = pq
    BY <1>2, <2>2, PrioIs DEF Requests
  <2> HIDE DEF a
  <2>4. b \in Worlds /\ b.s.req = a.s.req /\ b.s.prio_queue = a.s.prio_queue
    BY <2>2, <2>3, QueueIs DEF Requests
  <2> HIDE DEF b
  <2> QED
    BY <2>1, <2>2, <2>3, <2>4 DEF Prio
<1> HIDE DEF w3
<1>4. u.s = w3.s
  BY <1>3, PutIs, Outside
<1> HIDE DEF u
<1> QED
  BY <1>0, <1>2, <1>3, <1>4 DEF Prio

LEMMA IdleLeads ==
  ASSUME NEW v \in Worlds, Named(v), NEW e \in Seps
  PROVE  Leads(v, Idle(v, e))
<1> DEFINE u == Idle(v, e)
<1>1. /\ Prio(u) = {r \in Prio(v) : r.stream # e}
      /\ IF v.s.req.stream = e THEN u.s.req.stream = NoSep ELSE u.s.req = v.s.req
  BY IdleShape
<1>2. u.sep[e] = NoStream /\ \A x \in Seps : x # e => u.sep[x] = v.sep[x]
  BY IdleIs DEF Beside
<1> HIDE DEF u
<1>3. Streams(u) \subseteq Streams(v) \ {e} /\ Aborts(u) = Aborts(v) \ {e}
  BY <1>2, Outside DEF Streams, Aborts, Has
<1>4. Follows(u, v)
  BY <1>3 DEF Follows
<1> SUFFICES ASSUME Order(v) PROVE Order(u)
  BY <1>4 DEF Leads, u
<1>5. ASSUME NEW x \in Aborts(v), x # e PROVE Aborting(u, x)
  <2>1. Aborting(v, x) /\ x \in Seps
    BY <1>5 DEF Order, Aborts
  <2>2. PICK r \in Prio(v) \cup {v.s.req} : r.stream = x /\ r.sig = "ABORT"
    BY <2>1 DEF Aborting
  <2>3. r \in Prio(u) \cup {u.s.req}
    BY <1>1, <1>5, <2>2
  <2>4. u.s.req.stream = x => u.s.req = v.s.req
    BY <1>1, <2>1, Outside
  <2> QED
    BY <2>1, <2>2, <2>3, <2>4 DEF Aborting
<1> QED
  BY <1>1, <1>3, <1>5 DEF Order, Overtakes

LEMMA SetIdleLeads ==
  ASSUME NEW v \in Worlds, Named(v), NEW e \in Seps
  PROVE  LET u == avdtp_sep_set_state(v, e, "IDLE")
         IN /\ Leads(v, u)
            /\ "stream" \in v.sep[e].f /\ v.s.req.stream = e => u.s.req.stream = NoSep
<1>1. CASE ~Has(v, e, "stream")
  BY <1>1, LeadsSelf, NoStreamNoState DEF Has
<1>2. CASE Has(v, e, "stream")
  <2> DEFINE a == [v EXCEPT !.sep[e].state = "IDLE"]
  <2>1. avdtp_sep_set_state(v, e, "IDLE") = Idle(a, e)
    BY <1>2 DEF avdtp_sep_set_state
  <2>2. PICK p \in StreamsOf : a = Put(v, e, p) /\ p.f = v.sep[e].f
    BY StateIs DEF SepStates
  <2> HIDE DEF a
  <2>3. Calm(a, v) /\ a \in Worlds /\ Asked(a) = Asked(v)
    BY <2>2, CalmPut, PutIs
  <2>4. Named(a)
    BY <2>3 DEF Named
  <2>5. Leads(a, Idle(a, e)) /\ (a.s.req.stream = e => Idle(a, e).s.req.stream = NoSep)
    BY <2>3, <2>4, IdleLeads, IdleShape
  <2>6. a.s.req = v.s.req
    BY <2>3 DEF Calm
  <2> QED
    BY <2>1, <2>3, <2>5, <2>6, CalmLeads, LeadsTrans
<1> QED
  BY <1>1, <1>2

LEMMA SetOpenCalm ==
  ASSUME NEW v \in Worlds, NEW e \in Seps
  PROVE  LET u == avdtp_sep_set_state(v, e, "OPEN") IN Calm(u, v) /\ u \in Worlds
<1>1. CASE "stream" \notin v.sep[e].f
  BY <1>1, LeadsSelf, NoStreamNoState
<1>2. CASE "stream" \in v.sep[e].f
  <2>1. PICK p \in StreamsOf : /\ avdtp_sep_set_state(v, e, "OPEN") = Put(v, e, p)
                               /\ v.sep[e].f \ {"starting"} \subseteq p.f
                               /\ p.f \subseteq v.sep[e].f \cup {"idle_timer"}
    BY <1>2, OpenIs
  <2>2. "stream" \in p.f <=> "stream" \in v.sep[e].f
    BY <2>1
  <2>3. "abort_int" \in p.f <=> "abort_int" \in v.sep[e].f
    BY <2>1
  <2> QED
    BY <2>1, <2>2, <2>3, CalmPut
<1> QED
  BY <1>1, <1>2

LEMMA SetLaterCalm ==
  ASSUME NEW v \in Worlds, NEW e \in Seps, NEW st \in {"STREAMING", "CLOSING", "ABORTING"}
  PROVE  LET u == avdtp_sep_set_state(v, e, st) IN Calm(u, v) /\ u \in Worlds
<1>1. CASE "stream" \notin v.sep[e].f
  BY <1>1, LeadsSelf, NoStreamNoState
<1>2. CASE "stream" \in v.sep[e].f
  <2>1. PICK p \in StreamsOf : /\ avdtp_sep_set_state(v, e, st) = Put(v, e, p)
                               /\ p.f = v.sep[e].f \ {"idle_timer"}
    BY <1>2, LaterIs
  <2> QED
    BY <2>1, CalmPut
<1> QED
  BY <1>1, <1>2

LEMMA DelayReportLeads ==
  ASSUME NEW v, Good(v), NEW e \in Seps
  PROVE  Leads(v, avdtp_delay_report(v, e))
<1> DEFINE a == send_request(v, TRUE, e, "DELAY_REPORT", e)
           asks == /\ Has(v, e, "stream") /\ e \in SinkSeps
                   /\ v.sep[e].state \in {"CONFIGURED", "STREAMING"}
<1>1. avdtp_delay_report(v, e) = IF asks THEN a ELSE v
  BY DEF avdtp_delay_report
<1>2. CASE asks
  <2>1. v.s.state = "CONNECTED"
    BY <1>2, StreamLive DEF Has, Good
  <2>2. e \in SepOrNone /\ "DELAY_REPORT" \in Signals /\ "DELAY_REPORT" \in Urgent
    BY DEF SepOrNone, Signals, StreamCommands, Urgent
  <2>3. Leads(v, a)
    BY <2>1, <2>2, SendLeads
  <2> QED
    BY <1>1, <1>2, <2>3
<1>3. CASE ~asks
  BY <1>1, <1>3, LeadsSelf
<1> QED
  BY <1>2, <1>3

LEMMA SetConfiguredLeads ==
  ASSUME NEW v, Good(v), NEW e \in Seps
  PROVE  Leads(v, avdtp_sep_set_state(v, e, "CONFIGURED"))
<1>1. v \in Worlds /\ Flow(v)
  BY DEF Good
<1>2. CASE ~Has(v, e, "stream")
  BY <1>2, LeadsSelf, NoStreamNoState DEF Has
<1>3. CASE Has(v, e, "stream")
  <2> DEFINE a == [v EXCEPT !.sep[e].state = "CONFIGURED"]
  <2>1. avdtp_sep_set_state(v, e, "CONFIGURED") = avdtp_delay_report(a, e)
    BY <1>3 DEF avdtp_sep_set_state
  <2>2. PICK p \in StreamsOf : a = Put(v, e, p) /\ p.f = v.sep[e].f /\ p.state = "CONFIGURED"
    BY <1>1, StateIs DEF SepStates
  <2> HIDE DEF a
  <2>3. Calm(a, v)
    BY <1>1, <2>2, CalmPut
  <2>4. At(v, e)
    BY <1>1 DEF Flow
  <2>5. Good(a)
    BY <1>3, <2>2, <2>4, GoodPut DEF At, Watched, Starts, Has
  <2>6. Leads(a, avdtp_delay_report(a, e))
    BY <2>5, DelayReportLeads
  <2> QED
    BY <2>1, <2>3, <2>6, CalmLeads, LeadsTrans
<1> QED
  BY <1>2, <1>3

-----------------------------------------------------------------------------
(* A stream is aborted.                                                    *)

\* Once an Abort is on its way the stream may be marked.
LEMMA MarkLeads ==
  ASSUME NEW v \in Worlds, NEW e \in Seps, "stream" \in v.sep[e].f, Aborting(v, e)
  PROVE  Leads(v, Set(v, e, "abort_int"))
<1> DEFINE u == Set(v, e, "abort_int")
<1>1. PICK p \in StreamsOf : u = Put(v, e, p) /\ p.f = v.sep[e].f \cup {"abort_int"}
  BY SetIs DEF StreamFlags
<1> HIDE DEF u
<1>2. u.s = v.s /\ u.sep[e] = p /\ \A x \in Seps : x # e => u.sep[x] = v.sep[x]
  BY <1>1, PutIs DEF Beside
<1>3. Aborts(u) = Aborts(v) \cup {e} /\ Streams(u) = Streams(v)
  BY <1>1, <1>2 DEF Aborts, Streams, Has
<1>4. Follows(u, v)
  BY <1>3 DEF Follows
<1>5. ASSUME NEW x, Aborting(v, x) PROVE Aborting(u, x)
  BY <1>2, <1>5 DEF Aborting, Prio
<1>6. Overtakes(v) => Overtakes(u)
  BY <1>2 DEF Overtakes, Prio
<1> QED
  BY <1>3, <1>4, <1>5, <1>6 DEF Leads, Order, u

LEMMA CancelLeads ==
  ASSUME Authorized, NEW v, Good(v), DropOk(v), v.s.req # NoReq
  PROVE  Leads(v, cancel_request(v))
<1> DEFINE u == cancel_request(v)
<1>1. /\ Good(u)
      /\ \/ u.s.state # "CONNECTED"
         \/ \E w, e : Aborted(w, v, e) /\ u = send_request(w, TRUE, e, "ABORT", e)
  BY CancelRequest
<1> HIDE DEF u
<1>2. CASE u.s.state # "CONNECTED"
  BY <1>1, <1>2, DownLeads DEF u
<1>3. CASE u.s.state = "CONNECTED"
  <2>1. PICK w, e : Aborted(w, v, e) /\ u = send_request(w, TRUE, e, "ABORT", e)
    BY <1>1, <1>3
  <2> DEFINE r == Req("ABORT", e, e)
  <2>2. w \in Worlds /\ Up(w) /\ w.s.req = NoReq /\ Prio(w) = Prio(v) /\ e \in Seps /\ ~SendFails(w)
    BY <2>1, UpConnected, NoSendFails DEF Aborted, Good, Prio
  <2>3. r \in Request /\ r.stream = e /\ r.sig = "ABORT"
    BY <2>2 DEF Req, Request, SepOrNone, Signals, StreamCommands
  <2>4. u = send_req(w, TRUE, r)
    BY <2>1, <2>2 DEF send_request, Refused
  <2> HIDE DEF r
  <2>5. Sends(u, w, r, Prio(v))
    BY <2>2, <2>3, <2>4, SendShape
  <2>6. u.sep = w.sep /\ u.s.req = r /\ Prio(u) = Prio(v)
    BY <2>5 DEF Sends
  <2>7. /\ "abort_int" \in u.sep[e].f /\ "stream" \in v.sep[e].f
        /\ \A x \in Seps : x # e => u.sep[x] = v.sep[x]
    BY <2>1, <2>6 DEF Aborted
  <2>8. Aborts(u) \subseteq Aborts(v) \cup {e} /\ Streams(u) \subseteq Streams(v)
        /\ Aborts(v) \subseteq Aborts(u)
    BY <2>2, <2>7 DEF Aborts, Streams, Has
  <2>9. Follows(u, v)
    BY <2>8 DEF Follows
  <2> SUFFICES ASSUME Order(v) PROVE Order(u)
    BY <2>9 DEF Leads, u
  <2>10. Aborting(u, e)
    BY <2>3, <2>6 DEF Aborting, Urgent
  <2>11. ASSUME NEW x \in Aborts(v), x # e PROVE Aborting(u, x)
    <3>1. Aborting(v, x)
      BY <2>11 DEF Order
    <3>2. PICK y \in Prio(v) \cup {v.s.req} : y.stream = x /\ y.sig = "ABORT"
      BY <3>1 DEF Aborting
    <3>3. y \in Prio(u)
      BY <2>1, <2>6, <3>2 DEF Aborted
    <3> QED
      BY <2>3, <2>6, <2>11, <3>2, <3>3 DEF Aborting
  <2> QED
    BY <2>6, <2>8, <2>10, <2>11 DEF Order, Overtakes
<1> QED
  BY <1>2, <1>3

LEMMA AbortLeads ==
  ASSUME Authorized, NEW v, Good(v), DropOk(v), NEW e \in Seps
  PROVE  Leads(v, avdtp_abort(v, e))
<1>1. v \in Worlds /\ Flow(v) /\ Sess(v)
  BY DEF Good
<1>2. CASE ~Has(v, e, "stream") \/ v.sep[e].state = "ABORTING"
  <2>1. avdtp_abort(v, e) = v
    BY <1>2 DEF avdtp_abort
  <2> QED
    BY <2>1, LeadsSelf
<1>3. CASE ~(~Has(v, e, "stream") \/ v.sep[e].state = "ABORTING") /\ v.s.req.stream = e
  <2>1. avdtp_abort(v, e) = cancel_request(v)
    BY <1>3 DEF avdtp_abort
  <2>2. v.s.req # NoReq
    BY <1>3, Outside
  <2> QED
    BY <2>1, <2>2, CancelLeads
<1>4. CASE ~(~Has(v, e, "stream") \/ v.sep[e].state = "ABORTING") /\ v.s.req.stream # e
  <2> DEFINE r == Req("ABORT", e, e)
             a == send_req(v, TRUE, r)
  <2>1. "stream" \in v.sep[e].f
    BY <1>4 DEF Has
  <2>2. v.s.state = "CONNECTED" /\ Up(v) /\ ~SendFails(v)
    BY <1>1, <2>1, StreamLive, UpConnected, NoSendFails
  <2>3. ~Refused(v, e, "ABORT") /\ send_request(v, TRUE, e, "ABORT", e) = a
    BY <2>2 DEF Refused, send_request
  <2>4. avdtp_abort(v, e) = Set(a, e, "abort_int")
    BY <1>4, <2>3 DEF avdtp_abort
  <2>5. r \in Request /\ r.stream = e /\ r.sig = "ABORT" /\ r.sig \in Urgent
    BY DEF Req, Request, SepOrNone, Signals, StreamCommands, Urgent
  <2> HIDE DEF r
  <2>6. IF v.s.req = NoReq THEN Sends(a, v, r, Prio(v)) ELSE Sends(a, v, v.s.req, Prio(v) \cup {r})
    BY <1>1, <2>2, <2>5, SendShape
  <2>7. Leads(v, a) /\ a \in Worlds
    BY <1>1, <2>2, <2>5, AskLeads, SendReq DEF Requests
  <2> HIDE DEF a
  <2>8. Aborting(a, e)
    BY <1>4, <2>5, <2>6 DEF Aborting, Sends, Urgent
  <2>9. "stream" \in a.sep[e].f
    BY <2>1, <2>6 DEF Sends
  <2> QED
    BY <2>4, <2>7, <2>8, <2>9, MarkLeads, LeadsTrans
<1> QED
  BY <1>2, <1>3, <1>4

LEMMA CloseLeads ==
  ASSUME NEW v, Good(v), NEW e \in Seps
  PROVE  Leads(v, avdtp_close(v, e)) /\ avdtp_close(v, e) \in Worlds
<1> DEFINE keeps == \/ ~Has(v, e, "stream") \/ v.sep[e].state \in {"IDLE", "CONFIGURED"}
                    \/ Has(v, e, "close_int") \/ Refused(v, e, "CLOSE")
           a == send_request(v, FALSE, e, "CLOSE", e)
<1>1. v \in Worlds /\ Flow(v)
  BY DEF Good
<1>2. avdtp_close(v, e) = IF keeps THEN v ELSE Set(a, e, "close_int")
  BY DEF avdtp_close
<1>3. CASE keeps
  BY <1>1, <1>2, <1>3, LeadsSelf
<1>4. CASE ~keeps
  <2>1. "stream" \in v.sep[e].f /\ "CLOSE" \in StreamCommands /\ e \in SepOrNone /\ "CLOSE" \in Signals
        /\ "close_int" \in StreamFlags \ {"stream", "abort_int"}
    BY <1>4 DEF Has, StreamCommands, SepOrNone, Signals, StreamFlags
  <2>2. v.s.state = "CONNECTED"
    BY <1>1, <2>1, StreamLive
  <2>3. Leads(v, a) /\ a \in Worlds
    BY <2>1, <2>2, SendLeads, AskStream DEF Good
  <2> HIDE DEF a, keeps
  <2>4. Calm(Set(a, e, "close_int"), a) /\ Set(a, e, "close_int") \in Worlds
    BY <2>1, <2>3, CalmSet
  <2> QED
    BY <1>2, <1>4, <2>3, <2>4, CalmLeads, LeadsTrans
<1> QED
  BY <1>3, <1>4

-----------------------------------------------------------------------------
(* The session and the order.                                              *)

LEMMA SendSep ==
  ASSUME NEW v \in Worlds, NEW prio \in BOOLEAN, NEW r PROVE send_req(v, prio, r).sep = v.sep
  BY DEF send_req, queue_request, On, Worlds

LEMMA DiscoverLeads ==
  ASSUME NEW v, Good(v), v.s.state # "FREE"
  PROVE  Leads(v, avdtp_discover(v))
<1> DEFINE a == send_request(v, FALSE, NoSep, "DISCOVER", NoSep)
           b == On(v, "discov_cb")
           u == avdtp_discover(v)
<1>1. v \in Worlds /\ {"discov_cb", "idle"} \subseteq SessionFlags
  BY DEF Good, SessionFlags
<1>2. u \in {v, On(b, "idle"), On(a, "discov_cb")}
  BY DEF avdtp_discover
<1>3. Calm(b, v) /\ b \in Worlds /\ Calm(On(b, "idle"), b)
  <2>1. Calm(b, v) /\ b \in Worlds
    BY <1>1, CalmOn
  <2> HIDE DEF b
  <2> QED
    BY <1>1, <2>1, CalmOn
<1>4. CASE v.s.state = "CONNECTED"
  <2>1. NoSep \in SepOrNone /\ "DISCOVER" \in Signals /\ "DISCOVER" \in Streamless
    BY DEF SepOrNone, Signals, Streamless
  <2>2. Leads(v, a)
    BY <1>4, <2>1, SendLeads, Outside
  <2>3. a \in Worlds
    BY <1>4, <2>1, SendRequest, Outside DEF Good
  <2> HIDE DEF a, b, u
  <2>4. Leads(v, On(a, "discov_cb"))
    BY <1>1, <2>2, <2>3, CalmOn, CalmLeads, LeadsTrans
  <2>5. Leads(v, On(b, "idle"))
    BY <1>3, CalmTrans, CalmLeads
  <2> QED
    BY <1>2, <2>4, <2>5, LeadsSelf DEF u
<1>5. CASE v.s.state # "CONNECTED"
  <2>1. Streams(v) = {}
    BY <1>5, AbortsIn
  <2>2. a.sep = v.sep
    BY <1>1, SendSep DEF send_request
  <2>3. On(a, "discov_cb").sep = v.sep
    <3>1. \A w : w \in Worlds => On(w, "discov_cb").sep = w.sep
      BY DEF On, Worlds
    <3>2. a \in Worlds
      <4> DEFINE r == Req("DISCOVER", NoSep, NoSep)
      <4>1. a \in {v, send_req(v, FALSE, r)}
        BY DEF send_request
      <4>2. r \in Request /\ r.stream = NoSep /\ r.sig \in Streamless
        BY DEF Req, Request, SepOrNone, Signals, Streamless
      <4> HIDE DEF r
      <4>3. Good(send_req(v, FALSE, r))
        BY <4>2, SendReqAny
      <4> QED
        BY <1>1, <4>1, <4>3 DEF Good
    <3> HIDE DEF a
    <3> QED
      BY <2>2, <3>1, <3>2
  <2>4. On(b, "idle").sep = v.sep
    BY <1>1 DEF On, Worlds
  <2>5. Good(u)
    BY GoodDiscover
  <2> HIDE DEF u, a, b
  <2>6. u.sep = v.sep
    BY <1>2, <2>3, <2>4
  <2>7. Streams(u) = {}
    BY <2>1, <2>6, SendsStreams
  <2> QED
    BY <2>5, <2>7, StreamlessOrder DEF u
<1> QED
  BY <1>4, <1>5

LEMMA UserRefCalm ==
  ASSUME NEW v \in Worlds PROVE Calm(UserRef(v), v)
<1> DEFINE a == avdtp_ref(v)
           u == [a EXCEPT !.users = @ + 1]
<1>1. UserRef(v) = u
  BY DEF UserRef
<1>2. Channel(a, v)
  BY RefIs
<1> HIDE DEF a
<1>3. a \in Worlds
  BY <1>2 DEF Channel
<1>4. u.sep = a.sep /\ u.s = a.s
  BY <1>3 DEF Worlds
<1> HIDE DEF u
<1>5. Calm(u, a)
  BY <1>4, CalmSession
<1> QED
  BY <1>1, <1>2, <1>5, CalmChannel, CalmTrans

LEMMA UserUnrefLeads ==
  ASSUME NEW v, Good(v), v.s.state # "FREE", v.users > 0
  PROVE  Leads(v, UserUnref(v))
<1> DEFINE n == v.users - 1
           a == [v EXCEPT !.users = n]
           m == a.s.ref - 1
           b == [a EXCEPT !.s.ref = m]
           u == UserUnref(v)
<1>1. v \in Worlds /\ v.users \in Int
  BY DEF Good, Worlds
<1>2. n \in Int
  BY <1>1
<1>3. a \in Worlds /\ a.s = v.s /\ a.sep = v.sep
  <2> HIDE DEF n
  <2> QED
    BY <1>1, <1>2 DEF Worlds
<1>4. u = avdtp_unref(a)
  BY DEF UserUnref
<1> HIDE DEF a, n
<1>5. m \in Int
  BY <1>3 DEF Worlds, Sessions
<1>6. u \in {FreeSession(b), set_disconnect_timer(b), b}
  BY <1>4 DEF avdtp_unref
<1> HIDE DEF m
<1>7. Channel(b, a)
  BY <1>3, <1>5, CountIs
<1> HIDE DEF b
<1>8. b \in Worlds /\ Calm(b, v)
  <2>1. Calm(a, v)
    BY <1>3, CalmSession
  <2> QED
    BY <1>7, <2>1, CalmChannel, CalmTrans DEF Channel
<1>9. Calm(set_disconnect_timer(b), v)
  <2>1. Channel(set_disconnect_timer(b), b)
    BY <1>8, SetTimer DEF Flags
  <2> QED
    BY <1>8, <2>1, CalmChannel, CalmTrans
<1>10. FreeSession(b).s.state # "CONNECTED"
  BY <1>8, FreedIs DEF FreeSession, Worlds
<1>11. Good(u)
  BY GoodUserUnref
<1> HIDE DEF u
<1>12. u.s.state # "CONNECTED" => Leads(v, u)
  BY <1>11, DownLeads
<1> QED
  BY <1>6, <1>8, <1>9, <1>10, <1>12, CalmLeads DEF u

LEMMA TransportConnectCalm ==
  ASSUME NEW v \in Worlds, v.s.pending_open \in Seps
  PROVE  Calm(handle_transport_connect(v), v)
<1> DEFINE e == v.s.pending_open
           a == TakePendingOpen(v)
           w1 == Set(a, e, "io")
           b == avdtp_sep_set_state(w1, e, "OPEN")
           u == Set(b, e, "io_id")
<1>0. handle_transport_connect(v) = u /\ e \in Seps
  BY DEF handle_transport_connect
<1>1. Calm(a, v) /\ a \in Worlds
  BY CalmTake
<1>2. {"io", "io_id"} \subseteq StreamFlags \ {"stream", "abort_int"}
  BY DEF StreamFlags
<1> HIDE DEF e, a
<1>3. Calm(w1, a) /\ w1 \in Worlds
  BY <1>0, <1>1, <1>2, CalmSet
<1> HIDE DEF w1
<1>4. Calm(b, w1) /\ b \in Worlds
  BY <1>0, <1>3, SetOpenCalm
<1> HIDE DEF b
<1>5. Calm(u, b)
  BY <1>0, <1>2, <1>4, CalmSet
<1> HIDE DEF u
<1> QED
  BY <1>0, <1>1, <1>3, <1>4, <1>5, CalmTrans

LEMMA TransportConnectCbLeads ==
  ASSUME Authorized, NEW v, Good(v), DropOk(v), v.s.state # "FREE", NEW ok \in BOOLEAN
  PROVE  Leads(v, TransportConnectCb(v, ok))
<1> DEFINE e == v.s.pending_open
           w1 == TakePendingOpen(v)
           u == TransportConnectCb(v, ok)
<1>0. u = CASE e # NoSep /\ ok -> process_queue(handle_transport_connect(v))
            [] e # NoSep /\ ~ok -> IF w1.sep[e].state = "ABORTING" \/ SendFails(w1)
                                   THEN avdtp_sep_set_state(w1, e, "IDLE")
                                   ELSE avdtp_abort(w1, e)
            [] OTHER -> connection_lost(v)
  BY DEF TransportConnectCb
<1>1. e \in Seps \cup {NoSep} /\ v \in Worlds
  BY DEF Good, Worlds, Sessions, SepOrNone
<1>2. CASE e = NoSep
  <2>1. u = connection_lost(v)
    BY <1>0, <1>2
  <2> QED
    BY <2>1, GoodMayLose, LostLeads
<1>3. CASE e # NoSep /\ ok
  <2> DEFINE h == handle_transport_connect(v)
  <2>1. u = process_queue(h)
    BY <1>0, <1>3
  <2>2. Good(h) /\ h.s.state = "CONNECTED" /\ Calm(h, v)
    BY <1>1, <1>3, GoodTransportConnect, TransportConnectCalm
  <2> HIDE DEF h
  <2>3. h \in Worlds /\ Up(h)
    BY <2>2, UpConnected DEF Good
  <2> QED
    BY <2>1, <2>2, <2>3, ProcessLeads, CalmLeads, LeadsTrans
<1>4. CASE e # NoSep /\ ~ok
  <2>1. u \in {avdtp_sep_set_state(w1, e, "IDLE"), avdtp_abort(w1, e)}
    BY <1>0, <1>4
  <2>2. Good(w1) /\ SameSess(w1, v) /\ e \in Seps /\ Calm(w1, v)
    BY <1>1, <1>4, GoodTake, CalmTake
  <2> HIDE DEF w1, e, u
  <2>3. DropOk(w1)
    BY <2>2 DEF SameSess, DropOk
  <2>4. Leads(w1, avdtp_sep_set_state(w1, e, "IDLE")) /\ Leads(w1, avdtp_abort(w1, e))
    BY <2>2, <2>3, SetIdleLeads, AbortLeads DEF Good, Flow
  <2> QED
    BY <2>1, <2>2, <2>4, CalmLeads, LeadsTrans DEF u
<1> QED
  BY <1>2, <1>3, <1>4

LEMMA CloseStreamCalm ==
  ASSUME NEW v \in Worlds, NEW e \in Seps
  PROVE  Calm(close_stream(v, e), v) /\ close_stream(v, e) \in Worlds
<1> DEFINE a == Clear(v, e, "io")
<1>1. Calm(a, v) /\ a \in Worlds
  BY CalmClear
<1> HIDE DEF a
<1>2. Calm(Clear(a, e, "connecting"), a) /\ Clear(a, e, "connecting") \in Worlds
  BY <1>1, CalmClear
<1> QED
  BY <1>1, <1>2, CalmTrans DEF close_stream, a

\* No command of the peer changes anything of our own requests and Aborts.
LEMMA ParseCmdCalm ==
  ASSUME NEW v \in Worlds, NEW e \in Seps, NEW sig \in PeerSignals
  PROVE  Calm(avdtp_parse_cmd(v, sig, e), v)
<1> DEFINE u == avdtp_parse_cmd(v, sig, e)
<1>1. Calm(v, v) /\ {"open_acp", "starting"} \subseteq StreamFlags \ {"stream", "abort_int"}
      /\ {"open", "close"} \subseteq Timers
  BY LeadsSelf DEF StreamFlags, Timers
<1>2. CASE sig = "SET_CONFIGURATION"
  <2> DEFINE a == avdtp_ref(v)
             b == [a EXCEPT !.cfg = e]
  <2>1. u \in {v, b}
    BY <1>2 DEF avdtp_parse_cmd, avdtp_setconf_cmd
  <2>2. Channel(a, v)
    BY RefIs
  <2> HIDE DEF a
  <2>3. Calm(a, v) /\ a \in Worlds
    BY <2>2, CalmChannel DEF Channel
  <2>4. b.sep = a.sep /\ b.s = a.s
    BY <2>3 DEF Worlds
  <2> HIDE DEF b
  <2>5. Calm(b, a)
    BY <2>4, CalmSession
  <2> HIDE DEF u
  <2> QED
    BY <1>1, <2>1, <2>3, <2>5, CalmTrans DEF u
<1>3. CASE sig = "OPEN"
  <2> DEFINE a == Set(v, e, "open_acp")
             b == [a EXCEPT !.s.pending_open = e]
             c == [b EXCEPT !.sep[e].timer = "open"]
  <2>1. Calm(a, v) /\ a \in Worlds
    BY <1>1, CalmSet
  <2>2. u \in {v, c}
    <3>1. [a EXCEPT !.s.pending_open = e, !.sep[e].timer = "open"] = c
      BY <2>1 DEF Worlds
    <3> QED
      BY <1>3, <3>1 DEF avdtp_parse_cmd, avdtp_open_cmd
  <2> HIDE DEF a
  <2>3. Calm(b, a) /\ b \in Worlds
    BY <2>1, CalmPending DEF SepOrNone
  <2> HIDE DEF b
  <2>4. Calm(c, b)
    BY <1>1, <2>3, CalmTimer
  <2> HIDE DEF c, u
  <2> QED
    BY <1>1, <2>1, <2>2, <2>3, <2>4, CalmTrans DEF u
<1>4. CASE sig = "START"
  <2> DEFINE a == Set(v, e, "starting")
             b == avdtp_sep_set_state(a, e, "STREAMING")
  <2>1. u \in {v, b}
    BY <1>4 DEF avdtp_parse_cmd, avdtp_start_cmd
  <2>2. Calm(a, v) /\ a \in Worlds
    BY <1>1, CalmSet
  <2> HIDE DEF a
  <2>3. Calm(b, a)
    BY <2>2, SetLaterCalm
  <2> HIDE DEF b, u
  <2> QED
    BY <1>1, <2>1, <2>2, <2>3, CalmTrans DEF u
<1>5. CASE sig = "CLOSE"
  <2> DEFINE a == avdtp_sep_set_state(v, e, "CLOSING")
             b == [a EXCEPT !.sep[e].timer = "close"]
  <2>1. u \in {v, b}
    BY <1>5 DEF avdtp_parse_cmd, avdtp_close_cmd
  <2>2. Calm(a, v) /\ a \in Worlds
    BY SetLaterCalm
  <2> HIDE DEF a
  <2>3. Calm(b, a)
    BY <1>1, <2>2, CalmTimer
  <2> HIDE DEF b, u
  <2> QED
    BY <1>1, <2>1, <2>2, <2>3, CalmTrans DEF u
<1>6. CASE sig = "SUSPEND"
  <2>1. u \in {v, avdtp_sep_set_state(v, e, "OPEN")}
    BY <1>6 DEF avdtp_parse_cmd, avdtp_suspend_cmd
  <2>2. Calm(avdtp_sep_set_state(v, e, "OPEN"), v)
    BY SetOpenCalm
  <2> HIDE DEF u
  <2> QED
    BY <1>1, <2>1, <2>2 DEF u
<1>7. CASE sig = "ABORT"
  <2>1. u = avdtp_sep_set_state(v, e, "ABORTING")
    BY <1>7 DEF avdtp_parse_cmd, avdtp_abort_cmd
  <2> QED
    BY <2>1, SetLaterCalm
<1>8. CASE sig = "QUERY"
  <2>1. u = v
    BY <1>8 DEF avdtp_parse_cmd
  <2> QED
    BY <1>1, <2>1
<1> QED
  BY <1>2, <1>3, <1>4, <1>5, <1>6, <1>7, <1>8 DEF PeerSignals

LEMMA AfterCommandCalm ==
  ASSUME NEW v \in Worlds PROVE Calm(AfterCommand(v), v)
<1> DEFINE a == set_disconnect_timer(v)
           w1 == IF v.s.ref = 1 /\ Streams(v) = {} /\ v.s.req = NoReq THEN a ELSE v
           b == remove_disconnect_timer(w1)
<1>0. AfterCommand(v) \in {w1, b}
  BY DEF AfterCommand
<1>1. Channel(a, v)
  BY SetTimer DEF Flags
<1> HIDE DEF a
<1>2. Calm(w1, v) /\ w1 \in Worlds
  BY <1>1, CalmChannel, LeadsSelf DEF Channel
<1> HIDE DEF w1
<1>3. Calm(b, w1)
  BY <1>2, RemoveTimer, CalmChannel DEF Flags
<1> HIDE DEF b
<1> QED
  BY <1>0, <1>2, <1>3, CalmTrans

\* The capabilities of the SEPs that the peer lists are asked for without a stream.
LEMMA DiscoverRespLeads ==
  ASSUME NEW v, Good(v), v.s.state = "CONNECTED", NEW listed \in SUBSET Seps, NEW busy
  PROVE  Leads(v, avdtp_discover_resp(v, listed, busy))
<1> DEFINE u == avdtp_discover_resp(v, listed, busy)
<1>1. /\ u.s.req = v.s.req /\ u.sep = v.sep
      /\ Elems(v.s.prio_queue) \subseteq Elems(u.s.prio_queue)
      /\ \A r \in Elems(u.s.prio_queue) \ Elems(v.s.prio_queue) : r.stream = NoSep
  BY GoodDiscoverResp
<1> HIDE DEF u
<1>2. Aborts(u) = Aborts(v) /\ Follows(u, v)
  BY <1>1, SendsStreams
<1> SUFFICES ASSUME Order(v) PROVE Order(u)
  BY <1>2 DEF Leads, u
<1>3. Overtakes(u)
  BY <1>1, Outside DEF Order, Overtakes, Prio
<1>4. ASSUME NEW e \in Aborts(v) PROVE Aborting(u, e)
  <2>1. Aborting(v, e)
    BY <1>4 DEF Order
  <2> QED
    BY <1>1, <2>1 DEF Aborting, Prio
<1> QED
  BY <1>2, <1>3, <1>4 DEF Order

LEMMA GetCapRespCalm ==
  ASSUME NEW v \in Worlds PROVE Calm(GetCapResp(v), v)
<1>1. GetCapResp(v) \in {v, Off(v, "discov_cb")}
  BY DEF GetCapResp, finalize_discovery
<1> QED
  BY <1>1, CalmOff, LeadsSelf

\* The stream of an accepted Abort goes before the Abort does.
LEMMA ParseRespLeads ==
  ASSUME NEW v, Good(v), v.s.req.stream \in Seps, v.s.req.sig \in StreamCommands
  PROVE  LET u == avdtp_parse_resp(v, v.s.req.sig, v.s.req.stream)
         IN Leads(v, u) /\ (u.s.req.sig = "ABORT" => u.s.req.stream \notin Seps)
<1> DEFINE e == v.s.req.stream
           sig == v.s.req.sig
           u == avdtp_parse_resp(v, sig, e)
<1>1. /\ v.s.req # NoReq /\ e \in Seps /\ v.s.req.stream = e /\ v.s.req.sig = sig
      /\ sig \in StreamCommands /\ v \in Worlds
  BY InFlight DEF Good
<1> HIDE DEF e, sig, u
<1>2. CASE sig = "SET_CONFIGURATION"
  <2> DEFINE a == avdtp_sep_set_state(v, e, "CONFIGURED")
  <2>1. u = a
    BY <1>2 DEF u, avdtp_parse_resp
  <2>2. Leads(v, a) /\ a.s.req = v.s.req
    BY <1>1, SetConfigured, SetConfiguredLeads
  <2> HIDE DEF a
  <2> QED
    BY <1>1, <1>2, <2>1, <2>2 DEF u, sig, e
<1>3. ASSUME Calm(u, v), sig # "ABORT"
      PROVE  Leads(v, u) /\ (u.s.req.sig = "ABORT" => u.s.req.stream \notin Seps)
  BY <1>1, <1>3, CalmLeads DEF Calm
<1>4. CASE sig = "OPEN"
  <2> DEFINE a == Set(v, e, "io")
             b == Set(a, e, "connecting")
             c == [b EXCEPT !.s.pending_open = e]
  <2>1. u = c
    BY <1>4 DEF u, avdtp_parse_resp
  <2>2. {"io", "connecting"} \subseteq StreamFlags \ {"stream", "abort_int"} /\ e \in SepOrNone
    BY <1>1 DEF StreamFlags, SepOrNone
  <2>3. Calm(a, v) /\ a \in Worlds
    BY <1>1, <2>2, CalmSet
  <2> HIDE DEF a
  <2>4. Calm(b, a) /\ b \in Worlds
    BY <1>1, <2>2, <2>3, CalmSet
  <2> HIDE DEF b
  <2>5. Calm(c, b)
    BY <2>2, <2>4, CalmPending
  <2> HIDE DEF c
  <2>6. Calm(u, v)
    BY <2>1, <2>3, <2>4, <2>5, CalmTrans
  <2> QED
    BY <1>3, <1>4, <2>6 DEF u, sig, e
<1>5. CASE sig = "START"
  <2>1. u \in {v, avdtp_sep_set_state(v, e, "STREAMING")}
    BY <1>5 DEF u, avdtp_parse_resp
  <2>2. Calm(u, v)
    BY <1>1, <2>1, SetLaterCalm, LeadsSelf
  <2> QED
    BY <1>3, <1>5, <2>2 DEF u, sig, e
<1>6. CASE sig = "SUSPEND"
  <2>1. u = avdtp_sep_set_state(v, e, "OPEN")
    BY <1>6 DEF u, avdtp_parse_resp
  <2>2. Calm(u, v)
    BY <1>1, <2>1, SetOpenCalm
  <2> QED
    BY <1>3, <1>6, <2>2 DEF u, sig, e
<1>7. CASE sig = "CLOSE"
  <2> DEFINE a == avdtp_sep_set_state(v, e, "CLOSING")
  <2>1. u = close_stream(a, e)
    BY <1>7 DEF u, avdtp_parse_resp
  <2>2. Calm(a, v) /\ a \in Worlds
    BY <1>1, SetLaterCalm
  <2> HIDE DEF a
  <2>3. Calm(u, v)
    BY <1>1, <2>1, <2>2, CloseStreamCalm, CalmTrans
  <2> QED
    BY <1>3, <1>7, <2>3 DEF u, sig, e
<1>8. CASE sig = "ABORT"
  <2> DEFINE a == avdtp_sep_set_state(v, e, "ABORTING")
             b == avdtp_sep_set_state(a, e, "IDLE")
  <2>1. u = b
    BY <1>8 DEF u, avdtp_parse_resp
  <2>2. Good(a) /\ a.s = v.s
    BY <1>1, SetLater
  <2>3. Calm(a, v)
    BY <1>1, SetLaterCalm
  <2> HIDE DEF a
  <2>4. Leads(a, b) /\ b.s.req.stream = NoSep
    BY <1>1, <2>2, InFlight, SetIdleLeads DEF Good, Flow
  <2> HIDE DEF b
  <2> QED
    BY <2>1, <2>3, <2>4, CalmLeads, LeadsTrans, Outside DEF u, sig, e
<1>9. CASE sig = "DELAY_REPORT"
  <2>1. u = v
    BY <1>9 DEF u, avdtp_parse_resp
  <2>2. Calm(u, v)
    BY <2>1, LeadsSelf
  <2> QED
    BY <1>3, <1>9, <2>2 DEF u, sig, e
<1> QED
  BY <1>1, <1>2, <1>4, <1>5, <1>6, <1>7, <1>8, <1>9 DEF StreamCommands

LEMMA ParseRejCalm ==
  ASSUME NEW v \in Worlds, NEW sig, NEW e, sig \in {"START", "CLOSE"} => e \in Seps
  PROVE  Calm(avdtp_parse_rej(v, sig, e), v)
<1>1. CASE sig = "START"
  BY <1>1, CalmClear DEF avdtp_parse_rej
<1>2. CASE sig = "CLOSE"
  BY <1>2, CalmClear DEF avdtp_parse_rej
<1>3. CASE sig \notin {"START", "CLOSE"}
  BY <1>3, LeadsSelf DEF avdtp_parse_rej
<1> QED
  BY <1>1, <1>2, <1>3

-----------------------------------------------------------------------------
(* Steps and the order.                                                    *)

\* A step keeps the order, and the streams that are aborted stay so until they go.
Still ==
  Order(World(0)) =>
    /\ Order(World(0))'
    /\ \A e \in Seps : "abort_int" \in sep[e].f /\ "stream" \in sep'[e].f => "abort_int" \in sep'[e].f

\* u is what the step makes of v, also when a stream comes.
Goes(v, u) == Order(v) => Order(u) /\ Aborts(v) \cap Streams(u) \subseteq Aborts(u)

LEMMA LeadsGoes == ASSUME NEW u, NEW v, Leads(v, u) PROVE Goes(v, u)
  BY DEF Leads, Goes, Follows

LEMMA OrderOf ==
  ASSUME NEW u, NEW v, u.s = v.s, u.sep = v.sep, Order(v) PROVE Order(u)
<1>1. Calm(u, v)
  BY CalmSession
<1> QED
  BY <1>1, CalmLeads DEF Leads

LEMMA GoesStill ==
  ASSUME NEW d, NEW u, Goes(World(d), u), InstallWorld(u) PROVE Still
<1> DEFINE v == World(d)
           y == World(0)
           z == [s |-> u.s, sep |-> u.sep, cfg |-> u.cfg, users |-> u.users, drop |-> 0]
<1>1. v.s = y.s /\ v.sep = y.sep /\ v.sep = sep
  BY DEF World
<1>2. z.s = u.s /\ z.sep = u.sep
  OBVIOUS
<1>3. World(0)' = z
  BY DEF World, InstallWorld
<1>4. sep' = u.sep
  BY DEF InstallWorld
<1> SUFFICES ASSUME Order(y)
             PROVE  /\ Order(World(0))'
                    /\ \A e \in Seps : "abort_int" \in sep[e].f /\ "stream" \in sep'[e].f
                         => "abort_int" \in sep'[e].f
  BY DEF Still
<1>5. Goes(v, u)
  OBVIOUS
<1> HIDE DEF v, y
<1>6. Order(v)
  BY <1>1, OrderOf
<1>7. Order(u) /\ Aborts(v) \cap Streams(u) \subseteq Aborts(u)
  BY <1>5, <1>6 DEF Goes
<1> HIDE DEF z
<1>8. Order(z)
  BY <1>2, <1>7, OrderOf
<1>9. Order(World(0))' <=> Order(z)
  BY <1>3 DEF Order, Overtakes, Aborting, Aborts, Prio, Elems
<1>10. \A e \in Seps : "abort_int" \in sep[e].f /\ "stream" \in sep'[e].f => "abort_int" \in sep'[e].f
  BY <1>1, <1>4, <1>7 DEF Aborts, Streams, Has
<1> QED
  BY <1>8, <1>9, <1>10

LEMMA LeadsStill ==
  ASSUME NEW d, NEW u, Leads(World(d), u), Install(u) PROVE Still
  BY LeadsGoes, GoesStill DEF Install

LEMMA LoseLeads ==
  ASSUME Authorized, NEW v, Good(v), v.s.state # "FREE", DropOk(v)
  PROVE  \A w : Leads(w, connection_lost(v))
  BY GoodMayLose, LostLeads

LEMMA CalmWaits ==
  ASSUME NEW v \in Worlds, NEW x \in Pending
  PROVE  LET u == [v EXCEPT !.s.pending = x] IN Calm(u, v) /\ u \in Worlds
<1> DEFINE u == [v EXCEPT !.s.pending = x]
<1>1. u \in Worlds /\ u.sep = v.sep /\ u.s.req = v.s.req /\ u.s.prio_queue = v.s.prio_queue
  BY DEF Worlds, Sessions
<1> HIDE DEF u
<1> QED
  BY <1>1, CalmSession DEF u

LEMMA SignallingUpLeads ==
  ASSUME NEW v, Good(v), v.s.state = "CONNECTING"
  PROVE  Leads(v, SignallingUp(v))
<1> DEFINE w1 == [v EXCEPT !.s.state = "CONNECTED", !.s.watch = "full", !.s.pending = "none"]
           a == set_disconnect_timer(w1)
           b == Off(a, "auto_dc")
           w2 == IF Is(w1, "stream_setup") THEN b ELSE w1
           u == SignallingUp(v)
<1>0. u = process_queue(w2) /\ Good(u)
  BY GoodSignallingUp DEF SignallingUp
<1>1. v \in Worlds /\ Sess(v) /\ Streams(v) = {}
  BY AbortsIn DEF Good
<1>2. w1 \in Worlds /\ w1.sep = v.sep /\ w1.s.state = "CONNECTED" /\ w1.s.f = v.s.f
  <2>1. "CONNECTED" \in SessionStates /\ "full" \in Watches /\ "none" \in Pending
    BY DEF SessionStates, Watches, Pending
  <2> QED
    BY <1>1, <2>1 DEF Worlds, Sessions
<1> HIDE DEF w1, u
<1>3. Flags(a, w1) /\ a.s.f = NoTimer(w1.s.f) \cup {"dc_timer"}
  BY <1>2, SetTimer
<1> HIDE DEF a
<1>4. Flags(b, a) /\ b.s.f = a.s.f \ {"auto_dc"}
  BY <1>3, OffIs DEF Flags, Channel
<1> HIDE DEF b
<1>5. "io" \in w1.s.f
  BY <1>1, <1>2 DEF Sess
<1>6. w2 \in Worlds /\ Up(w2) /\ w2.sep = v.sep
  <2>1. b \in Worlds /\ b.sep = v.sep /\ b.s.state = "CONNECTED" /\ "io" \in b.s.f
    BY <1>2, <1>3, <1>4, <1>5 DEF Flags, Channel, SameStreams, NoTimer
  <2> QED
    BY <1>2, <1>5, <2>1 DEF Up
<1> HIDE DEF w2
<1>7. u.sep = v.sep
  BY <1>0, <1>6, ProcessQueue DEF Requests, SameStreams
<1>8. Streams(u) = {}
  BY <1>1, <1>7, SendsStreams
<1> QED
  BY <1>0, <1>8, StreamlessOrder DEF u

LEMMA ConnectCbOrder ==
  ASSUME Authorized, IInv, NEW ok \in BOOLEAN, avdtp_connect_cb(ok) PROVE Still
<1>1. PICK d \in DropChoices :
        Install(IF ok THEN SignallingUp(World(d)) ELSE connection_lost(World(d)))
  BY DEF avdtp_connect_cb
<1> DEFINE v == World(d)
<1>2. Good(v) /\ v.s = s /\ DropOk(v)
  BY WorldIs
<1>3. s.pending \in {"out", "accept"}
  BY DEF avdtp_connect_cb
<1> HIDE DEF v
<1>4. v.s.state = "CONNECTING"
  BY <1>2, <1>3 DEF Good, Sess
<1>5. Leads(v, SignallingUp(v)) /\ Leads(v, connection_lost(v))
  BY <1>2, <1>4, SignallingUpLeads, LoseLeads
<1>6. Install(SignallingUp(v)) \/ Install(connection_lost(v))
  BY <1>1 DEF v
<1> QED
  BY <1>5, <1>6, LeadsStill DEF v

LEMMA AuthCbOrder ==
  ASSUME Authorized, IInv, NEW ok \in BOOLEAN, auth_cb(ok) PROVE Still
<1> DEFINE Yes(w) == [On(w, "stream_setup") EXCEPT !.s.pending = "accept"]
           No(w) == connection_lost([w EXCEPT !.s.pending = "none"])
<1>1. PICK d \in DropChoices : Install(Yes(World(d))) \/ Install(No(World(d)))
  BY DEF auth_cb
<1> DEFINE v == World(d)
<1>2. Good(v) /\ v.s = s /\ DropOk(v)
  BY WorldIs
<1>3. s.pending = "auth"
  BY DEF auth_cb
<1> HIDE DEF v
<1>4. v \in Worlds /\ v.s.state = "CONNECTING"
  BY <1>2, <1>3 DEF Good, Sess
<1>5. Leads(v, Yes(v))
  <2> DEFINE a == On(v, "stream_setup")
  <2>1. Calm(a, v) /\ a \in Worlds
    BY <1>4, CalmOn DEF SessionFlags
  <2> HIDE DEF a
  <2>2. Calm([a EXCEPT !.s.pending = "accept"], a)
    BY <2>1, CalmWaits DEF Pending
  <2>3. Leads(v, [a EXCEPT !.s.pending = "accept"])
    BY <2>1, <2>2, CalmTrans, CalmLeads
  <2> QED
    BY <2>3 DEF a
<1>6. Leads(v, No(v))
  <2> DEFINE b == [v EXCEPT !.s.pending = "none"]
  <2>1. MayLose(v)
    BY <1>2, <1>4, GoodMayLose
  <2>2. "none" \in Pending
    BY DEF Pending
  <2>3. /\ b \in Worlds /\ Asked(b) = Asked(v) /\ b.s.pending = "none"
        /\ b.s.state = v.s.state /\ b.s.ref = v.s.ref
        /\ b.cfg = v.cfg /\ b.users = v.users /\ b.drop = v.drop
    BY <1>4, <2>2, WaitsIs
  <2> HIDE DEF b
  <2>4. MayLose(b)
    BY <2>1, <2>3 DEF MayLose, Held, DropOk, Named
  <2>5. Leads(v, connection_lost(b))
    BY <2>4, LostLeads
  <2> QED
    BY <2>5 DEF b
<1>7. Install(Yes(v)) \/ Install(No(v))
  BY <1>1 DEF v
<1> HIDE DEF Yes, No
<1> QED
  BY <1>5, <1>6, <1>7, LeadsStill DEF v

LEMMA TransportAcceptedOrder ==
  ASSUME Authorized, IInv, NEW ok \in BOOLEAN, TransportAccepted(ok) PROVE Still
<1>1. PICK d \in DropChoices : Install(TransportConnectCb(Off(World(d), "accepting"), ok))
  BY DEF TransportAccepted
<1> DEFINE v == World(d)
           a == Off(v, "accepting")
<1>2. Good(v) /\ v.s = s /\ DropOk(v)
  BY WorldIs
<1>3. "accepting" \in s.f /\ s.state # "FREE"
  BY DEF TransportAccepted
<1>4. Install(TransportConnectCb(a, ok))
  BY <1>1
<1> HIDE DEF v
<1>5. v.s.state # "FREE" /\ v \in Worlds
  BY <1>2, <1>3, FreedIs DEF Good, Sess
<1>6. Good(a) /\ Flags(a, v) /\ Calm(a, v)
  BY <1>2, <1>5, GoodOff, CalmOff
<1> HIDE DEF a
<1>7. DropOk(a) /\ a.s.state # "FREE"
  BY <1>2, <1>5, <1>6 DEF Flags, Channel, DropOk
<1>8. Leads(v, TransportConnectCb(a, ok))
  BY <1>6, <1>7, TransportConnectCbLeads, CalmLeads, LeadsTrans
<1> QED
  BY <1>4, <1>8, LeadsStill DEF v

LEMMA AuthorizeCalm ==
  ASSUME Authorized, NEW v \in Worlds, NEW result \in AuthResults
  PROVE  Calm(Authorize(v, result), v)
<1>1. result \in {"ok", "busy"}
  BY ConstantsAssumption DEF Authorized
<1>2. Authorize(v, result) \in {[v EXCEPT !.s.pending = "auth"], [v EXCEPT !.s.pending = "retry"]}
  BY <1>1 DEF Authorize
<1>3. {"auth", "retry"} \subseteq Pending
  BY DEF Pending
<1> QED
  BY <1>2, <1>3, CalmWaits

LEMMA AuthorizationHandlerOrder ==
  ASSUME Authorized, IInv, NEW result \in AuthResults, avdtp_authorization_handler(result)
  PROVE  Still
<1> DEFINE v == World(0)
<1>1. Good(v) /\ v.s = s
  BY WorldIs
<1>2. s.pending = "retry"
  BY DEF avdtp_authorization_handler
<1>3. s.state = "CONNECTING" /\ "io" \in s.f /\ v \in Worlds
  BY <1>1, <1>2 DEF Good, Sess
<1>4. Install(Authorize(v, result))
  BY <1>3 DEF avdtp_authorization_handler
<1> HIDE DEF v
<1>5. Leads(v, Authorize(v, result))
  BY <1>3, AuthorizeCalm, CalmLeads
<1> QED
  BY <1>4, <1>5, LeadsStill DEF v

LEMMA ConfirmTransportOrder ==
  ASSUME IInv, ConfirmTransport PROVE Still
<1> DEFINE v == World(0)
<1>1. v \in Worlds
  BY WorldIs DEF Good
<1>2. Install(On(v, "accepting"))
  BY DEF ConfirmTransport
<1> HIDE DEF v
<1>3. Leads(v, On(v, "accepting"))
  BY <1>1, CalmOn, CalmLeads DEF SessionFlags
<1> QED
  BY <1>2, <1>3, LeadsStill DEF v

LEMMA GetInternalCalm ==
  ASSUME NEW v, Good(v) PROVE Calm(avdtp_get_internal(v), v) /\ avdtp_get_internal(v) \in Worlds
<1> DEFINE u == avdtp_get_internal(v)
<1>1. v \in Worlds /\ Sess(v) /\ Good(u) /\ (v.s.state # "FREE" => u = v)
  BY GoodGetInternal DEF Good
<1>2. CASE v.s.state = "FREE"
  <2>1. v.s.req = NoReq /\ v.s.prio_queue = << >>
    BY <1>1, <1>2, FreedIs DEF Sess
  <2>2. u.s = NewSession /\ u.sep = v.sep
    BY <1>1, <1>2 DEF avdtp_get_internal, Worlds
  <2>3. u.s.req = v.s.req /\ u.s.prio_queue = v.s.prio_queue
    BY <2>1, <2>2 DEF NewSession, NoSession
  <2> HIDE DEF u
  <2> QED
    BY <1>1, <2>2, <2>3, CalmSession DEF u, Good
<1>3. CASE v.s.state # "FREE"
  BY <1>1, <1>3, LeadsSelf
<1> QED
  BY <1>2, <1>3

LEMMA ConfirmSignallingOrder ==
  ASSUME Authorized, IInv, NEW result \in AuthResults \cup {"nodev"}, ConfirmSignalling(result)
  PROVE  Still
<1> DEFINE v == World(0)
           w == avdtp_get_internal(v)
           a == On(w, "io")
           w1 == [a EXCEPT !.s.state = "CONNECTING", !.s.watch = "hup"]
<1>1. Good(v)
  BY WorldIs
<1>2. Install(IF result = "nodev" THEN w ELSE Authorize(w1, result))
  BY DEF ConfirmSignalling
<1> HIDE DEF v
<1>3. Calm(w, v) /\ w \in Worlds
  BY <1>1, GetInternalCalm
<1> HIDE DEF w
<1>4. Calm(a, w) /\ a \in Worlds
  BY <1>3, CalmOn DEF SessionFlags
<1> HIDE DEF a
<1>5. w1 \in Worlds /\ w1.sep = a.sep /\ w1.s.req = a.s.req /\ w1.s.prio_queue = a.s.prio_queue
  <2>1. "CONNECTING" \in SessionStates /\ "hup" \in Watches
    BY DEF SessionStates, Watches
  <2> QED
    BY <1>4, <2>1 DEF Worlds, Sessions
<1> HIDE DEF w1
<1>6. Calm(w1, v)
  BY <1>3, <1>4, <1>5, CalmSession, CalmTrans
<1>7. CASE result = "nodev"
  BY <1>2, <1>3, <1>7, CalmLeads, LeadsStill DEF v
<1>8. CASE result # "nodev"
  <2>1. result \in AuthResults /\ Install(Authorize(w1, result))
    BY <1>2, <1>8
  <2>2. Leads(v, Authorize(w1, result))
    BY <1>5, <1>6, <2>1, AuthorizeCalm, CalmTrans, CalmLeads
  <2> QED
    BY <2>1, <2>2, LeadsStill DEF v
<1> QED
  BY <1>7, <1>8

LEMMA HangupOrder ==
  ASSUME Authorized, IInv, Hangup PROVE Still
<1>1. PICK d \in DropChoices : Install(connection_lost(World(d)))
  BY DEF Hangup
<1> DEFINE v == World(d)
<1>2. Good(v) /\ v.s = s /\ DropOk(v)
  BY WorldIs
<1>3. s.watch # "none"
  BY DEF Hangup, Readable
<1>4. Install(connection_lost(v))
  BY <1>1
<1> HIDE DEF v
<1>5. v.s.state # "FREE"
  BY <1>2, <1>3, FreedIs DEF Good, Sess
<1>6. Leads(v, connection_lost(v))
  BY <1>2, <1>5, LoseLeads
<1> QED
  BY <1>4, <1>6, LeadsStill DEF v

LEMMA DisconnectTimeoutOrder ==
  ASSUME Authorized, IInv, NEW what \in {"takes", "discovers", "busy", "lost"},
         disconnect_timeout(what)
  PROVE  Still
<1> DEFINE W(d) == Off(Off(World(d), "dc_timer"), "stream_setup")
<1>1. PICK d \in DropChoices :
        \/ Install(avdtp_discover(Off(UserRef(W(d)), "auto_dc")))
        \/ Install(avdtp_discover(Off(W(d), "auto_dc")))
        \/ Install(W(d)) \/ Install(connection_lost(W(d)))
  BY DEF disconnect_timeout
<1> DEFINE v == World(d)
           a == Off(v, "dc_timer")
           w == Off(a, "stream_setup")
<1>2. Good(v) /\ v.s = s /\ DropOk(v) /\ v \in Worlds
  BY WorldIs DEF Good
<1>3. "dc_timer" \in s.f
  BY DEF disconnect_timeout
<1>4. \/ Install(avdtp_discover(Off(UserRef(w), "auto_dc")))
      \/ Install(avdtp_discover(Off(w, "auto_dc")))
      \/ Install(w) \/ Install(connection_lost(w))
  BY <1>1
<1> HIDE DEF v, W
<1>5. v.s.state = "CONNECTED"
  BY <1>2, <1>3 DEF Good, Sess
<1>6. Good(a) /\ Flags(a, v) /\ a.s.f = v.s.f \ {"dc_timer"} /\ Calm(a, v)
  BY <1>2, <1>5, GoodOff, CalmOff
<1> HIDE DEF a
<1>7. Flags(w, a) /\ w.s.f = a.s.f \ {"stream_setup"} /\ Calm(w, a) /\ w \in Worlds
  BY <1>6, OffIs, CalmOff DEF Good
<1> HIDE DEF w
<1>8. /\ a.s.state # "FREE" /\ ("io" \in w.s.f <=> "io" \in a.s.f) /\ "dc_timer" \notin w.s.f
      /\ w.s.state # "FREE"
  BY <1>5, <1>6, <1>7 DEF Flags, Channel
<1>9. Good(w) /\ Leads(v, w)
  BY <1>6, <1>7, <1>8, GoodFlags, CalmTrans, CalmLeads
<1>10. DropOk(w)
  BY <1>2, <1>6, <1>7 DEF DropOk, Flags, Channel
<1>11. Leads(v, connection_lost(w))
  BY <1>8, <1>9, <1>10, LoseLeads
<1>12. ASSUME NEW x, Good(x), x.s.state # "FREE" PROVE Leads(x, avdtp_discover(Off(x, "auto_dc")))
  <2> DEFINE y == Off(x, "auto_dc")
  <2>1. Good(y) /\ Flags(y, x) /\ Calm(y, x)
    BY <1>12, GoodOff, CalmOff DEF Good
  <2> HIDE DEF y
  <2>2. y.s.state # "FREE"
    BY <1>12, <2>1 DEF Flags, Channel
  <2>3. Leads(x, avdtp_discover(y))
    BY <2>1, <2>2, DiscoverLeads, CalmLeads, LeadsTrans
  <2> QED
    BY <2>3 DEF y
<1>13. Good(UserRef(w)) /\ UserRef(w).s.state # "FREE" /\ Leads(w, UserRef(w))
  BY <1>7, <1>8, <1>9, GoodUserRef, UserRefCalm, CalmLeads
<1>14. Leads(v, avdtp_discover(Off(w, "auto_dc")))
  BY <1>8, <1>9, <1>12, LeadsTrans
<1>15. Leads(v, avdtp_discover(Off(UserRef(w), "auto_dc")))
  BY <1>9, <1>12, <1>13, LeadsTrans
<1> QED
  BY <1>4, <1>9, <1>11, <1>14, <1>15, LeadsStill DEF v

LEMMA CommandOrder ==
  ASSUME IInv, NEW sig \in PeerSignals, NEW e \in Seps, Command(sig, e) PROVE Still
<1> DEFINE v == World(0)
           a == avdtp_parse_cmd(v, sig, e)
<1>1. Good(v) /\ v.s = s /\ v.cfg = cfg
  BY WorldIs
<1>2. Readable /\ cfg = NoSep /\ InstallWorld(AfterCommand(a))
  BY DEF Command
<1> HIDE DEF v
<1>3. v.s.state = "CONNECTED" /\ v \in Worlds
  BY <1>1, <1>2, ReadableIs DEF Good
<1>4. a \in Worlds /\ Calm(a, v)
  BY <1>1, <1>2, <1>3, GoodParseCmd, ParseCmdCalm DEF Good
<1> HIDE DEF a
<1>5. Leads(v, AfterCommand(a))
  BY <1>4, AfterCommandCalm, CalmTrans, CalmLeads
<1> QED
  BY <1>2, <1>5, LeadsGoes, GoesStill DEF v

LEMMA AcceptDiscoverOrder ==
  ASSUME IInv, NEW listed \in SUBSET Seps, NEW busy, AcceptDiscover(listed, busy) PROVE Still
<1> DEFINE v == World(0)
           a == avdtp_discover_resp(v, listed, busy)
<1>1. Good(v) /\ v.s = s
  BY WorldIs
<1>2. Readable /\ s.req.sig = "DISCOVER" /\ Install(Answered(a))
  BY DEF AcceptDiscover
<1> HIDE DEF v
<1>3. v.s.state = "CONNECTED"
  BY <1>1, <1>2, ReadableIs
<1>4. Good(a) /\ a.s.state = "CONNECTED" /\ a.s.req = v.s.req /\ Leads(v, a)
  BY <1>1, <1>3, GoodDiscoverResp, DiscoverRespLeads
<1> HIDE DEF a
<1>5. Leads(a, Answered(a))
  BY <1>1, <1>2, <1>4, AnsweredLeads
<1> QED
  BY <1>2, <1>4, <1>5, LeadsTrans, LeadsStill DEF v

LEMMA AcceptGetCapOrder ==
  ASSUME IInv, AcceptGetCap PROVE Still
<1> DEFINE v == World(0)
           a == GetCapResp(v)
<1>1. Good(v) /\ v.s = s /\ v \in Worlds
  BY WorldIs DEF Good
<1>2. Readable /\ s.req.sig = GetCap /\ Install(Answered(a))
  BY DEF AcceptGetCap, IsGetCap
<1> HIDE DEF v
<1>3. v.s.state = "CONNECTED"
  BY <1>1, <1>2, ReadableIs
<1>4. Good(a) /\ a.s.state = "CONNECTED" /\ a.s.req = v.s.req /\ Leads(v, a)
  BY <1>1, <1>3, GoodGetCapResp, GetCapRespCalm, CalmLeads
<1> HIDE DEF a
<1>5. a.s.req.sig # "ABORT"
  BY <1>1, <1>2, <1>4, ConstantsAssumption
<1>6. Leads(a, Answered(a))
  BY <1>4, <1>5, AnsweredLeads
<1> QED
  BY <1>2, <1>4, <1>6, LeadsTrans, LeadsStill DEF v

LEMMA AcceptStreamOrder ==
  ASSUME IInv, AcceptStream PROVE Still
<1> DEFINE v == World(0)
           a == avdtp_parse_resp(v, v.s.req.sig, v.s.req.stream)
<1>1. Good(v) /\ v.s = s
  BY WorldIs
<1>2. /\ Readable /\ s.req.sig \in StreamCommands
      /\ Install(Answered(IF s.req.stream = NoSep THEN v
                          ELSE avdtp_parse_resp(v, s.req.sig, s.req.stream)))
  BY DEF AcceptStream
<1>3. Install(Answered(IF v.s.req.stream = NoSep THEN v ELSE a))
  BY <1>1, <1>2
<1> HIDE DEF v
<1>4. v.s.state = "CONNECTED"
  BY <1>1, <1>2, ReadableIs
<1>5. CASE v.s.req.stream = NoSep
  <2>1. Leads(v, Answered(v))
    BY <1>1, <1>4, <1>5, AnsweredLeads, Outside
  <2> QED
    BY <1>3, <1>5, <2>1, LeadsStill DEF v
<1>6. CASE v.s.req.stream # NoSep
  <2>1. v.s.req.stream \in Seps
    BY <1>1, <1>6, Queues, Outside DEF Good, Request, SepOrNone
  <2>2. /\ Good(a) /\ a.s.state = "CONNECTED" /\ Leads(v, a)
        /\ a.s.req.sig = "ABORT" => a.s.req.stream \notin Seps
    BY <1>1, <1>2, <2>1, GoodParseResp, ParseRespLeads
  <2>3. Install(Answered(a))
    BY <1>3, <1>6
  <2> HIDE DEF a
  <2>4. Leads(v, Answered(a))
    BY <2>2, AnsweredLeads, LeadsTrans
  <2> QED
    BY <2>3, <2>4, LeadsStill DEF v
<1> QED
  BY <1>5, <1>6

LEMMA AcceptOpenFailsOrder ==
  ASSUME Authorized, IInv, AcceptOpenFails PROVE Still
<1>1. PICK d \in DropChoices :
        Install(connection_lost(avdtp_sep_set_state(World(d), s.req.stream, "IDLE")))
  BY DEF AcceptOpenFails
<1> DEFINE v == World(d)
           e == s.req.stream
           a == avdtp_sep_set_state(v, e, "IDLE")
<1>2. Good(v) /\ v.s = s /\ DropOk(v)
  BY WorldIs
<1>3. Readable /\ s.req.sig = "OPEN"
  BY DEF AcceptOpenFails
<1>4. Install(connection_lost(a))
  BY <1>1
<1> HIDE DEF v
<1>5. v.s.state = "CONNECTED"
  BY <1>2, <1>3, ReadableIs
<1>6. e \in Seps
  <2>1. v \in Worlds /\ Named(v) /\ v.s.req # NoReq
    BY <1>2, <1>3, Outside DEF Good, Flow
  <2>2. v.s.req \in Asked(v) /\ v.s.req \in Request
    BY <2>1, Queues DEF Asked
  <2>3. v.s.req.sig \notin Streamless
    BY <1>2, <1>3, ConstantsAssumption DEF Streamless
  <2>4. v.s.req.stream # NoSep
    BY <2>1, <2>2, <2>3 DEF Named
  <2> QED
    BY <1>2, <2>2, <2>4 DEF Request, SepOrNone
<1> HIDE DEF e
<1>7. Good(a) /\ SameSess(a, v)
  BY <1>2, <1>6, SetIdle
<1> HIDE DEF a
<1>8. a.s.state # "FREE" /\ DropOk(a)
  BY <1>2, <1>5, <1>7 DEF SameSess, DropOk
<1>9. Leads(v, connection_lost(a))
  BY <1>7, <1>8, LoseLeads
<1> QED
  BY <1>4, <1>9, LeadsStill DEF v

LEMMA RejectOrder ==
  ASSUME Authorized, IInv, Reject PROVE Still
<1>1. PICK d \in DropChoices :
        Install(IF s.req.sig = "ABORT" THEN connection_lost(World(d))
                ELSE Answered(avdtp_parse_rej(World(d), s.req.sig, s.req.stream)))
  BY DEF Reject
<1> DEFINE v == World(d)
           a == avdtp_parse_rej(v, v.s.req.sig, v.s.req.stream)
<1>2. Good(v) /\ v.s = s /\ DropOk(v) /\ v \in Worlds
  BY WorldIs DEF Good
<1>3. Readable /\ s.req # NoReq
  BY DEF Reject
<1>4. Install(IF v.s.req.sig = "ABORT" THEN connection_lost(v) ELSE Answered(a))
  BY <1>1, <1>2
<1> HIDE DEF v
<1>5. v.s.state = "CONNECTED" /\ v.s.req # NoReq
  BY <1>2, <1>3, ReadableIs
<1>6. CASE v.s.req.sig = "ABORT"
  <2>1. Leads(v, connection_lost(v))
    BY <1>2, <1>5, LoseLeads
  <2> QED
    BY <1>4, <1>6, <2>1, LeadsStill DEF v
<1>7. CASE v.s.req.sig # "ABORT"
  <2>1. Good(a) /\ a.s.state = "CONNECTED"
    BY <1>2, <1>5, <1>7, GoodParseRej
  <2>2. Install(Answered(a))
    BY <1>4, <1>7
  <2>3. v.s.req.sig \in {"START", "CLOSE"} => v.s.req.stream \in Seps
    <3>1. Named(v) /\ v.s.req \in Asked(v) /\ v.s.req \in Request
      BY <1>2, <1>5, Queues DEF Good, Flow, Asked
    <3>2. {"START", "CLOSE"} \cap Streamless = {}
      BY ConstantsAssumption DEF Streamless
    <3> QED
      BY <3>1, <3>2 DEF Named, Request, SepOrNone
  <2>4. Calm(a, v)
    BY <1>2, <2>3, ParseRejCalm
  <2> HIDE DEF a
  <2>5. a.s.req.sig # "ABORT"
    BY <1>7, <2>4 DEF Calm
  <2>6. Leads(v, Answered(a))
    BY <2>1, <2>4, <2>5, AnsweredLeads, CalmLeads, LeadsTrans
  <2> QED
    BY <2>2, <2>6, LeadsStill DEF v
<1> QED
  BY <1>6, <1>7

LEMMA GeneralRejectOrder ==
  ASSUME IInv, GeneralReject PROVE Still
<1> DEFINE v == World(0)
<1>1. Good(v) /\ v.s = s
  BY WorldIs
<1>2. Readable /\ s.req.sig # "ABORT" /\ Install(Answered(v))
  BY DEF GeneralReject
<1> HIDE DEF v
<1>3. v.s.state = "CONNECTED"
  BY <1>1, <1>2, ReadableIs
<1>4. Leads(v, Answered(v))
  BY <1>1, <1>2, <1>3, AnsweredLeads
<1> QED
  BY <1>2, <1>4, LeadsStill DEF v

LEMMA TransportConnectedOrder ==
  ASSUME Authorized, IInv, NEW e \in Seps, NEW ok \in BOOLEAN, TransportConnected(e, ok)
  PROVE  Still
<1>1. PICK d \in DropChoices : Install(TransportConnectCb(Clear(World(d), e, "connecting"), ok))
  BY DEF TransportConnected
<1> DEFINE v == World(d)
           a == Clear(v, e, "connecting")
<1>2. Good(v) /\ v.sep = sep /\ DropOk(v)
  BY WorldIs
<1>3. "connecting" \in sep[e].f
  BY DEF TransportConnected
<1>4. Install(TransportConnectCb(a, ok))
  BY <1>1
<1> HIDE DEF v
<1>5. "stream" \in v.sep[e].f /\ v.s.state = "CONNECTED" /\ v \in Worlds
  <2>1. v \in Worlds /\ Flow(v) /\ v.sep[e].f # {}
    BY <1>2, <1>3 DEF Good
  <2> QED
    BY <2>1, StreamLive
<1>6. Good(a) /\ SameSess(a, v) /\ Calm(a, v)
  BY <1>2, <1>5, GoodClear, CalmClear
<1> HIDE DEF a
<1>7. DropOk(a) /\ a.s.state # "FREE"
  BY <1>2, <1>5, <1>6 DEF SameSess, DropOk
<1>8. Leads(v, TransportConnectCb(a, ok))
  BY <1>6, <1>7, TransportConnectCbLeads, CalmLeads, LeadsTrans
<1> QED
  BY <1>4, <1>8, LeadsStill DEF v

LEMMA TransportCbOrder ==
  ASSUME IInv, NEW e \in Seps, NEW last \in BOOLEAN, transport_cb(e, last) PROVE Still
<1> DEFINE v == World(0)
           a == close_stream(v, e)
           w == Clear(a, e, "io_id")
           u == avdtp_sep_set_state(w, e, "IDLE")
           w1 == IF "abort_int" \in sep[e].f THEN w ELSE u
<1>1. Good(v) /\ v.s = s /\ v.sep = sep /\ v.cfg = cfg /\ v.users = users /\ v \in Worlds
  BY WorldIs DEF Good
<1>2. /\ "io_id" \in sep[e].f
      /\ last => /\ users = 1 /\ cfg = NoSep /\ Streams(v) = {e} /\ "abort_int" \notin sep[e].f
      /\ Install(IF last THEN avdtp_disconnect_session(w1) ELSE w1)
  BY DEF transport_cb
<1> HIDE DEF v
<1>3. /\ Good(u) /\ SameSess(u, v) /\ "stream" \notin u.sep[e].f
      /\ \A x \in Seps : x # e => u.sep[x] = v.sep[x]
  BY <1>1, <1>2, TransportGone
<1>4. Calm(a, v) /\ a \in Worlds
  BY <1>1, CloseStreamCalm
<1>5. Asked(a) = Asked(v)
  <2>1. a.s = v.s
    BY <1>1 DEF close_stream, Clear, Worlds
  <2> HIDE DEF a
  <2> QED
    BY <2>1 DEF Asked
<1> HIDE DEF a
<1>6. Calm(w, a) /\ w \in Worlds /\ Asked(w) = Asked(a)
  <2>1. PICK p \in StreamsOf : w = Put(a, e, p)
    BY <1>4, ClearIs
  <2> QED
    BY <1>4, <2>1, CalmClear, PutIs
<1> HIDE DEF w
<1>7. Named(w)
  BY <1>1, <1>5, <1>6 DEF Good, Flow, Named
<1>8. Leads(v, w) /\ Leads(v, u)
  <2>1. Leads(w, u)
    BY <1>6, <1>7, SetIdleLeads
  <2> HIDE DEF u
  <2> QED
    BY <1>4, <1>6, <2>1, CalmTrans, CalmLeads, LeadsTrans
<1> HIDE DEF u
<1>9. CASE ~last
  <2>1. Install(w1) /\ Leads(v, w1)
    BY <1>2, <1>8, <1>9
  <2> HIDE DEF w1
  <2> QED
    BY <2>1, LeadsStill DEF v
<1>10. CASE last
  <2>1. Install(avdtp_disconnect_session(u))
    BY <1>2, <1>10
  <2>2. v.s.state = "CONNECTED"
    <3>1. v \in Worlds /\ Flow(v) /\ v.sep[e].f # {}
      BY <1>1, <1>2 DEF Good
    <3> QED
      BY <3>1, StreamLive
  <2>3. u.s.state = "CONNECTED" /\ u.users = 1 /\ u.cfg = NoSep
    BY <1>1, <1>2, <1>3, <1>10, <2>2 DEF SameSess
  <2>4. \A x \in Seps : "stream" \notin u.sep[x].f
    BY <1>2, <1>3, <1>10 DEF Streams, Has
  <2>5. Leads(v, avdtp_disconnect_session(u))
    BY <1>3, <2>3, <2>4, GoodDisconnectSession, DownLeads
  <2> QED
    BY <2>1, <2>5, LeadsStill DEF v
<1> QED
  BY <1>9, <1>10

LEMMA RequestTimeoutOrder ==
  ASSUME Authorized, IInv, request_timeout PROVE Still
<1>1. PICK d \in DropChoices : Install(cancel_request(World(d)))
  BY DEF request_timeout
<1> DEFINE v == World(d)
<1>2. Good(v) /\ v.s = s /\ DropOk(v)
  BY WorldIs
<1>3. s.req # NoReq /\ Install(cancel_request(v))
  BY <1>1 DEF request_timeout
<1> HIDE DEF v
<1>4. Leads(v, cancel_request(v))
  BY <1>2, <1>3, CancelLeads
<1> QED
  BY <1>3, <1>4, LeadsStill DEF v

LEMMA OpenTimesOutLeads ==
  ASSUME Authorized, NEW v, Good(v), DropOk(v), NEW e \in Seps, "stream" \in v.sep[e].f
  PROVE  Leads(v, OpenTimesOut(v, e))
<1> DEFINE b == [v EXCEPT !.sep[e].timer = "none"]
           c == [b EXCEPT !.s.pending_open = NoSep]
<1>1. v \in Worlds /\ v.s.state = "CONNECTED"
  BY DEF Good, Flow, At, Live
<1>2. OpenTimesOut(v, e) = avdtp_abort(c, e)
  BY <1>1 DEF OpenTimesOut, Worlds
<1>3. "none" \in Timers /\ NoSep \in SepOrNone
  BY DEF Timers, SepOrNone
<1>4. Good(b) /\ SameSess(b, v) /\ Calm(b, v)
  BY <1>1, <1>3, GoodTimer, CalmTimer
<1> HIDE DEF b
<1>5. b.s.state # "FREE"
  BY <1>1, <1>4 DEF SameSess
<1>6. Good(c) /\ SameSess(c, b) /\ Calm(c, b)
  BY <1>3, <1>4, <1>5, GoodPendingOpen, CalmPending DEF Good
<1> HIDE DEF c
<1>7. DropOk(c)
  BY <1>4, <1>6 DEF SameSess, DropOk
<1>8. Leads(v, avdtp_abort(c, e))
  BY <1>4, <1>6, <1>7, AbortLeads, CalmTrans, CalmLeads, LeadsTrans
<1> QED
  BY <1>2, <1>8

LEMMA CloseTimesOutLeads ==
  ASSUME NEW v \in Worlds, NEW e \in Seps PROVE Leads(v, CloseTimesOut(v, e))
<1> DEFINE b == [v EXCEPT !.sep[e].timer = "none"]
<1>1. Calm(b, v) /\ b \in Worlds
  BY CalmTimer DEF Timers
<1> HIDE DEF b
<1>2. Leads(v, close_stream(b, e))
  BY <1>1, CloseStreamCalm, CalmTrans, CalmLeads
<1> QED
  BY <1>2 DEF CloseTimesOut, b

LEMMA OpenTimeoutOrder ==
  ASSUME Authorized, IInv, NEW e \in Seps, stream_open_timeout(e) PROVE Still
<1>1. PICK d \in DropChoices : Install(OpenTimesOut(World(d), e))
  BY DEF stream_open_timeout
<1> DEFINE v == World(d)
<1>2. Good(v) /\ v.sep = sep /\ DropOk(v)
  BY WorldIs
<1>3. sep[e].timer = "open" /\ Install(OpenTimesOut(v, e))
  BY <1>1 DEF stream_open_timeout
<1> HIDE DEF v
<1>4. Leads(v, OpenTimesOut(v, e))
  BY <1>2, <1>3, TimerLive, OpenTimesOutLeads
<1> QED
  BY <1>3, <1>4, LeadsStill DEF v

LEMMA CloseTimeoutOrder ==
  ASSUME IInv, NEW e \in Seps, stream_close_timeout(e) PROVE Still
<1> DEFINE v == World(0)
<1>1. v \in Worlds
  BY WorldIs DEF Good
<1>2. Install(CloseTimesOut(v, e))
  BY DEF stream_close_timeout
<1> HIDE DEF v
<1>3. Leads(v, CloseTimesOut(v, e))
  BY <1>1, CloseTimesOutLeads
<1> QED
  BY <1>2, <1>3, LeadsStill DEF v

LEMMA OldTimeoutOrder ==
  ASSUME Authorized, IInv, NEW e \in Seps, NEW timer, OldTimeout(e, timer) PROVE Still
<1>1. PICK d \in DropChoices :
        InstallWorld(IF timer = "open" THEN OpenTimesOut(World(d), e)
                                       ELSE CloseTimesOut(World(d), e))
  BY DEF OldTimeout
<1> DEFINE v == World(d)
           u == IF timer = "open" THEN OpenTimesOut(v, e) ELSE CloseTimesOut(v, e)
<1>2. Good(v) /\ v.sep = sep /\ DropOk(v) /\ v \in Worlds
  BY WorldIs DEF Good
<1>3. "stream" \in sep[e].f /\ InstallWorld(u)
  BY <1>1 DEF OldTimeout
<1> HIDE DEF v
<1>4. Leads(v, u)
  BY <1>2, <1>3, OpenTimesOutLeads, CloseTimesOutLeads
<1> HIDE DEF u
<1> QED
  BY <1>3, <1>4, LeadsGoes, GoesStill DEF v

LEMMA StreamTimeoutOrder ==
  ASSUME IInv, NEW e \in Seps, stream_timeout(e) PROVE Still
<1> DEFINE v == World(0)
           a == avdtp_close(v, e)
<1>1. Good(v)
  BY WorldIs
<1>2. Install(Clear(a, e, "idle_timer"))
  BY DEF stream_timeout
<1> HIDE DEF v
<1>3. Leads(v, a) /\ a \in Worlds
  BY <1>1, CloseLeads
<1> HIDE DEF a
<1>4. Leads(v, Clear(a, e, "idle_timer"))
  BY <1>3, CalmClear, CalmLeads, LeadsTrans
<1> QED
  BY <1>2, <1>4, LeadsStill DEF v

LEMMA ProcessDiscoverOrder ==
  ASSUME IInv, process_discover PROVE Still
<1> DEFINE v == World(0)
           a == Off(v, "idle")
<1>1. v \in Worlds
  BY WorldIs DEF Good
<1>2. Install(Off(a, "discov_cb"))
  BY DEF process_discover, finalize_discovery
<1> HIDE DEF v
<1>3. Calm(a, v) /\ a \in Worlds
  BY <1>1, CalmOff
<1> HIDE DEF a
<1>4. Leads(v, Off(a, "discov_cb"))
  BY <1>3, CalmOff, CalmTrans, CalmLeads
<1> QED
  BY <1>2, <1>4, LeadsStill DEF v

-----------------------------------------------------------------------------
(* A stream comes: no Abort is outstanding about it.                       *)

LEMMA AttachGoes ==
  ASSUME NEW v \in Worlds, NEW e \in Seps, "abort_int" \notin v.sep[e].f
  PROVE  Goes(v, Attach(v, e))
<1> DEFINE p == [NoStream EXCEPT !.f = {"stream"}]
           u == Attach(v, e)
<1>1. p \in StreamsOf /\ p.f = {"stream"}
  BY DEF NoStream, StreamsOf, SepStates, Timers, StreamFlags
<1>2. u = Put(v, e, p)
  BY DEF Attach, Put
<1> HIDE DEF p, u
<1>3. u.s = v.s /\ u.sep[e] = p /\ Beside(u, v, e)
  BY <1>1, <1>2, PutIs
<1>4. \A x \in Seps : x = e \/ u.sep[x] = v.sep[x]
  BY <1>3 DEF Beside
<1>5. Aborts(u) = Aborts(v)
  BY <1>1, <1>3, <1>4 DEF Aborts
<1>6. Order(v) => Order(u)
  BY <1>3, <1>5 DEF Order, Overtakes, Aborting, Prio
<1> QED
  BY <1>5, <1>6 DEF Goes, u

\* The streams that are aborted before the new one comes are those it finds.
LEMMA GoesFrom ==
  ASSUME NEW v, NEW w, NEW u, Leads(v, w), Aborts(w) = Aborts(v), Goes(w, u)
  PROVE  Goes(v, u)
  BY DEF Leads, Goes

LEMMA GoesOn ==
  ASSUME NEW v, NEW w, NEW u, Goes(v, w), Leads(w, u) PROVE Goes(v, u)
  BY DEF Leads, Goes, Follows

LEMMA AutoConfigOrder ==
  ASSUME IInv, NEW ok \in BOOLEAN, NEW takes \in BOOLEAN, auto_config(ok, takes) PROVE Still
<1> DEFINE v == World(0)
           n == v.users + 1
           w == [v EXCEPT !.cfg = NoSep, !.users = n]
           r == UserRef(w)
           w1 == IF takes THEN r ELSE w
           a == Attach(w1, cfg)
           c == avdtp_sep_set_state(a, cfg, "CONFIGURED")
           w2 == IF ok /\ w.s.state = "CONNECTED" /\ Is(w, "io") THEN c ELSE w1
<1>1. Good(v) /\ v.s = s /\ v.cfg = cfg
  BY WorldIs
<1>2. cfg # NoSep /\ Install(UserUnref(w2))
  BY DEF auto_config
<1> HIDE DEF v
<1>3. v \in Worlds /\ Sess(v) /\ Flow(v) /\ cfg \in Seps
  BY <1>1, <1>2 DEF Good, Worlds, SepOrNone
<1>4. v.s.state # "FREE" /\ v.users \in Nat /\ n \in Nat /\ v.users \in Int
  BY <1>1, <1>2, <1>3 DEF Sess
<1>5. n = v.users + 1
  OBVIOUS
<1> HIDE DEF n
<1>6. w \in Worlds /\ w.s = v.s /\ w.sep = v.sep /\ w.cfg = NoSep /\ w.users = n
  <2>1. NoSep \in SepOrNone /\ n \in Int
    BY <1>4 DEF SepOrNone
  <2> QED
    BY <1>3, <2>1 DEF Worlds
<1> HIDE DEF w
<1>7. Good(w) /\ w.s.state # "FREE" /\ Calm(w, v)
  <2>1. Asked(w) = Asked(v)
    BY <1>6 DEF Asked
  <2>2. ASSUME NEW x \in Seps PROVE At(w, x)
    <3>1. At(v, x) /\ About(w, x) = About(v, x)
      BY <1>3, <2>1 DEF Flow, About
    <3> QED
      BY <1>6, <3>1, Outside DEF At, NoneLeft, Live, Watched, Starts, Asks
  <2>3. Named(w)
    BY <1>3, <2>1 DEF Flow, Named
  <2>4. Held(w) = Held(v)
    BY <1>1, <1>2, <1>4, <1>5, <1>6 DEF Held
  <2>5. Sess(w)
    BY <1>3, <1>4, <1>6, <2>4 DEF Sess
  <2> QED
    BY <1>4, <1>6, <2>2, <2>3, <2>5, CalmSession DEF Good, Flow
<1>8. /\ Good(w1) /\ w1.s.state = w.s.state /\ w1.users \in Nat \ {0} /\ w1.cfg = NoSep
      /\ w1.sep = v.sep /\ Calm(w1, v)
  <2>1. /\ Good(r) /\ r.users = w.users + 1 /\ r.s.state = w.s.state /\ SameStreams(r, w)
        /\ r.cfg = w.cfg /\ Calm(r, w)
    BY <1>6, <1>7, GoodUserRef, UserRefCalm
  <2> HIDE DEF r
  <2>2. CASE takes
    BY <1>4, <1>6, <1>7, <2>1, <2>2, CalmTrans DEF SameStreams
  <2>3. CASE ~takes
    BY <1>4, <1>5, <1>6, <1>7, <2>3
  <2> QED
    BY <2>2, <2>3
<1> HIDE DEF w1
<1>9. Good(w2) /\ w2.s.state # "FREE" /\ w2.users > 0 /\ Goes(v, w2)
  <2>1. CASE ok /\ w.s.state = "CONNECTED" /\ Is(w, "io")
    <3>1. w1 \in Worlds /\ Sess(w1) /\ Flow(w1) /\ w1.s.state = "CONNECTED"
      BY <1>8, <2>1 DEF Good
    <3>2. "stream" \notin w1.sep[cfg].f
      BY <1>1, <1>3, <1>8 DEF Flow, At, Live
    <3>3. Named(w1) /\ \A x \in Seps : At(w1, x)
      BY <3>1 DEF Flow
    <3>4. About(w1, cfg) = {} /\ w1.sep[cfg].f = {}
      BY <1>3, <3>2, <3>3 DEF At, NoneLeft, NoStream
    <3>5. ~Asks(w1, cfg, "START") /\ ~Asks(w1, cfg, "SUSPEND") /\ w1.cfg # cfg
      BY <1>2, <1>8, <3>4 DEF Asks
    <3>6. Good(a) /\ SameSess(a, w1)
      BY <1>3, <3>1, <3>3, <3>5, GoodAttach
    <3>7. Goes(v, a)
      <4>1. Goes(w1, a)
        BY <1>3, <3>1, <3>4, AttachGoes
      <4> HIDE DEF a
      <4> QED
        BY <1>8, <4>1, CalmLeads, GoesFrom DEF Calm
    <3> HIDE DEF a
    <3>8. Good(c) /\ SameSess(c, a) /\ Leads(a, c)
      BY <1>3, <3>6, SetConfigured, SetConfiguredLeads
    <3> HIDE DEF c
    <3>9. w2 = c /\ Goes(v, c)
      BY <2>1, <3>7, <3>8, GoesOn
    <3> QED
      BY <1>8, <3>1, <3>6, <3>8, <3>9 DEF SameSess
  <2>2. CASE ~(ok /\ w.s.state = "CONNECTED" /\ Is(w, "io"))
    BY <1>7, <1>8, <2>2, CalmLeads, LeadsGoes
  <2> QED
    BY <2>1, <2>2
<1> HIDE DEF w2
<1>10. Goes(v, UserUnref(w2))
  BY <1>9, UserUnrefLeads, GoesOn
<1> QED
  BY <1>2, <1>10, GoesStill DEF v, Install

LEMMA GetOrder ==
  ASSUME IInv, avdtp_get PROVE Still
<1> DEFINE v == World(0)
           a == avdtp_get_internal(v)
           b == UserRef(a)
<1>1. Good(v)
  BY WorldIs
<1>2. Install(avdtp_discover(b))
  BY DEF avdtp_get
<1> HIDE DEF v
<1>3. Good(a) /\ a.s.state # "FREE" /\ Calm(a, v) /\ a \in Worlds
  BY <1>1, GoodGetInternal, GetInternalCalm
<1> HIDE DEF a
<1>4. Good(b) /\ b.s.state # "FREE" /\ Calm(b, a)
  BY <1>3, GoodUserRef, UserRefCalm
<1> HIDE DEF b
<1>5. Leads(v, b) /\ Leads(b, avdtp_discover(b))
  BY <1>3, <1>4, CalmTrans, CalmLeads, DiscoverLeads
<1> QED
  BY <1>2, <1>5, LeadsTrans, LeadsStill DEF v

LEMMA DiscoverOrder ==
  ASSUME IInv, Discover PROVE Still
<1> DEFINE v == World(0)
<1>1. Good(v) /\ v.s = s
  BY WorldIs
<1>2. s.state # "FREE" /\ Install(avdtp_discover(v))
  BY DEF Discover, MayAsk
<1> HIDE DEF v
<1>3. Leads(v, avdtp_discover(v))
  BY <1>1, <1>2, DiscoverLeads
<1> QED
  BY <1>2, <1>3, LeadsStill DEF v

LEMMA UnrefOrder ==
  ASSUME IInv, Unref PROVE Still
<1> DEFINE v == World(0)
<1>1. Good(v) /\ v.s = s /\ v.users = users
  BY WorldIs
<1>2. s.state # "FREE" /\ users > 0 /\ Install(UserUnref(v))
  BY DEF Unref
<1> HIDE DEF v
<1>3. Leads(v, UserUnref(v))
  BY <1>1, <1>2, UserUnrefLeads
<1> QED
  BY <1>2, <1>3, LeadsStill DEF v

LEMMA SetConfigurationOrder ==
  ASSUME IInv, NEW e \in Seps, avdtp_set_configuration(e) PROVE Still
<1> DEFINE v == World(0)
           r == Req("SET_CONFIGURATION", e, e)
           q == send_req(v, FALSE, r)
<1>1. Good(v) /\ v.s = s /\ v.sep = sep /\ v.cfg = cfg
  BY WorldIs
<1>2. /\ s.state = "CONNECTED" /\ SameType(e) \cap Streams(v) = {}
      /\ Install(Attach(send_request(v, FALSE, e, "SET_CONFIGURATION", e), e))
  BY DEF avdtp_set_configuration
<1> HIDE DEF v
<1>3. v \in Worlds /\ Sess(v) /\ Flow(v) /\ Up(v)
  BY <1>1, <1>2, UpConnected DEF Good
<1>4. "stream" \notin v.sep[e].f
  BY <1>2 DEF SameType, Streams, Has
<1>5. v.sep[e].f = {}
  BY <1>3, <1>4 DEF Flow, At, NoneLeft, NoStream
<1>6. ~Refused(v, e, "SET_CONFIGURATION")
  BY <1>3, <1>5, NoSendFails, Outside DEF Refused, Has
<1>7. send_request(v, FALSE, e, "SET_CONFIGURATION", e) = q
  BY <1>6 DEF send_request
<1>8. r \in Request /\ r.stream = e
  BY DEF Req, Request, Signals, StreamCommands, SepOrNone
<1> HIDE DEF r
<1>9. q \in Worlds /\ q.sep = v.sep
  BY <1>3, <1>8, SendReq, SendSep DEF Requests
<1>10. Leads(v, q)
  BY <1>3, <1>5, <1>8, AskLeads DEF Aborts
<1> HIDE DEF q
<1>11. Goes(q, Attach(q, e)) /\ Aborts(q) = Aborts(v)
  BY <1>5, <1>9, AttachGoes DEF Aborts
<1>12. Goes(v, Attach(q, e)) /\ Install(Attach(q, e))
  BY <1>2, <1>7, <1>10, <1>11, GoesFrom
<1> QED
  BY <1>12, GoesStill DEF v, Install

\* A user asks the peer something about a stream.
LEMMA AskOrder ==
  ASSUME IInv, NEW e \in Seps, NEW sig \in StreamCommands,
         sep[e].state # "IDLE" \/ sep[e].f # {},
         Install(send_request(World(0), FALSE, e, sig, e))
  PROVE  Still
<1> DEFINE v == World(0)
<1>1. Good(v) /\ v.sep = sep
  BY WorldIs
<1>2. Install(send_request(v, FALSE, e, sig, e))
  OBVIOUS
<1> HIDE DEF v
<1>3. v.s.state = "CONNECTED" /\ e \in SepOrNone /\ sig \in Signals
  <2>1. v \in Worlds /\ Flow(v)
    BY <1>1 DEF Good
  <2> QED
    BY <1>1, <2>1, StreamLive DEF SepOrNone, Signals
<1>4. Leads(v, send_request(v, FALSE, e, sig, e))
  BY <1>1, <1>3, SendLeads
<1> QED
  BY <1>2, <1>4, LeadsStill DEF v

LEMMA OpenOrder ==
  ASSUME IInv, NEW e \in Seps, avdtp_open(e) PROVE Still
<1>1. "OPEN" \in StreamCommands
  BY DEF StreamCommands
<1> QED
  BY <1>1, AskOrder DEF avdtp_open

LEMMA SuspendOrder ==
  ASSUME IInv, NEW e \in Seps, avdtp_suspend(e) PROVE Still
<1>1. "SUSPEND" \in StreamCommands
  BY DEF StreamCommands
<1> QED
  BY <1>1, AskOrder DEF avdtp_suspend

LEMMA StartOrder ==
  ASSUME IInv, NEW e \in Seps, avdtp_start(e) PROVE Still
<1> DEFINE v == World(0)
           a == send_request(v, FALSE, e, "START", e)
           u == Set(a, e, "starting")
<1>1. Good(v) /\ v.sep = sep
  BY WorldIs
<1>2. sep[e].state = "OPEN" /\ ~Refused(v, e, "START") /\ Install(u)
  BY DEF avdtp_start
<1> HIDE DEF v
<1>3. /\ "stream" \in v.sep[e].f /\ ("io_id" \in v.sep[e].f \/ "abort_int" \in v.sep[e].f)
      /\ "START" \in StreamCommands /\ "starting" \in StreamFlags
  BY <1>1, <1>2, WatchedAt DEF StreamCommands, StreamFlags
<1>4. v.s.state = "CONNECTED" /\ e \in SepOrNone /\ "START" \in Signals
  <2>1. v \in Worlds /\ Flow(v)
    BY <1>1 DEF Good
  <2> QED
    BY <1>3, <2>1, StreamLive DEF SepOrNone, Signals
<1>5. a \in Worlds /\ Leads(v, a)
  BY <1>1, <1>2, <1>3, <1>4, AskStream, SendLeads DEF Good
<1> HIDE DEF a
<1>6. Leads(v, u)
  BY <1>3, <1>5, CalmSet, CalmLeads, LeadsTrans
<1> HIDE DEF u
<1> QED
  BY <1>2, <1>6, LeadsStill DEF v

LEMMA CloseOrder ==
  ASSUME IInv, NEW e \in Seps, Close(e) PROVE Still
<1> DEFINE v == World(0)
<1>1. Good(v) /\ Install(avdtp_close(v, e))
  BY WorldIs DEF Close
<1> HIDE DEF v
<1>2. Leads(v, avdtp_close(v, e))
  BY <1>1, CloseLeads
<1> QED
  BY <1>1, <1>2, LeadsStill DEF v

LEMMA AbortOrder ==
  ASSUME Authorized, IInv, NEW e \in Seps, Abort(e) PROVE Still
<1>1. PICK d \in DropChoices : Install(avdtp_abort(World(d), e))
  BY DEF Abort
<1> DEFINE v == World(d)
<1>2. Good(v) /\ DropOk(v) /\ Install(avdtp_abort(v, e))
  BY <1>1, WorldIs
<1> HIDE DEF v
<1>3. Leads(v, avdtp_abort(v, e))
  BY <1>2, AbortLeads
<1> QED
  BY <1>2, <1>3, LeadsStill DEF v

LEMMA DelayReportOrder ==
  ASSUME IInv, NEW e \in Seps, DelayReport(e) PROVE Still
<1> DEFINE v == World(0)
<1>1. Good(v) /\ Install(avdtp_delay_report(v, e))
  BY WorldIs DEF DelayReport
<1> HIDE DEF v
<1>2. Leads(v, avdtp_delay_report(v, e))
  BY <1>1, DelayReportLeads
<1> QED
  BY <1>1, <1>2, LeadsStill DEF v

LEMMA UnregisterOrder ==
  ASSUME IInv, NEW e \in Seps, avdtp_unregister_sep(e) PROVE Still
<1> DEFINE v == World(0)
<1>1. Good(v) /\ Install(avdtp_sep_set_state(v, e, "IDLE"))
  BY WorldIs DEF avdtp_unregister_sep, release_stream
<1> HIDE DEF v
<1>2. Leads(v, avdtp_sep_set_state(v, e, "IDLE"))
  BY <1>1, SetIdleLeads DEF Good, Flow
<1> QED
  BY <1>1, <1>2, LeadsStill DEF v

-----------------------------------------------------------------------------
(* The theorem.                                                            *)

Ordered == Order(World(0))

\* What is in flight about a stream is about one that exists.
FlightHeld == s.req.stream \in Seps => "stream" \in sep[s.req.stream].f

LEMMA FlightIs == IInv => FlightHeld
<1> SUFFICES ASSUME IInv PROVE FlightHeld
  OBVIOUS
<1> DEFINE v == World(0)
<1>1. Good(v) /\ v.s = s /\ v.sep = sep
  BY WorldIs
<1> HIDE DEF v
<1> QED
  BY <1>1, InFlight DEF FlightHeld

LEMMA InitOrdered == Init => Ordered
<1> SUFFICES ASSUME Init PROVE Order(World(0))
  BY DEF Ordered
<1> DEFINE v == World(0)
<1>1. Good(v) /\ v.sep = [e \in Seps |-> NoStream]
  BY InitGood DEF IInv, Init, World
<1> HIDE DEF v
<1>2. Streams(v) = {}
  BY <1>1 DEF Streams, Has, NoStream
<1>3. Order(v)
  BY <1>1, <1>2, StreamlessOrder
<1> QED
  BY <1>3 DEF v

LEMMA NextStill ==
  ASSUME Authorized, IInv, Next PROVE Still
<1>1. CASE SignallingNext
  BY <1>1, ConnectCbOrder, AuthCbOrder, TransportAcceptedOrder, AuthorizationHandlerOrder,
     ConfirmSignallingOrder, ConfirmTransportOrder, HangupOrder, DisconnectTimeoutOrder
     DEF SignallingNext
<1>2. CASE PeerNext
  BY <1>2, CommandOrder, AcceptDiscoverOrder, AcceptGetCapOrder, AcceptStreamOrder,
     AcceptOpenFailsOrder, RejectOrder, GeneralRejectOrder, TransportCbOrder,
     TransportConnectedOrder DEF PeerNext
<1>3. CASE TimerNext
  BY <1>3, RequestTimeoutOrder, OpenTimeoutOrder, CloseTimeoutOrder, OldTimeoutOrder,
     StreamTimeoutOrder,
     ProcessDiscoverOrder, AutoConfigOrder DEF TimerNext
<1>4. CASE UserNext
  BY <1>4, GetOrder, DiscoverOrder, UnrefOrder, SetConfigurationOrder, OpenOrder, StartOrder,
     SuspendOrder, CloseOrder, AbortOrder, DelayReportOrder, UnregisterOrder DEF UserNext
<1> QED
  BY <1>1, <1>2, <1>3, <1>4 DEF Next

LEMMA NextOrdered ==
  ASSUME Authorized, IInv, Ordered, [Next]_vars PROVE Ordered'
<1>1. CASE Next
  BY <1>1, NextStill DEF Still, Ordered
<1>2. CASE UNCHANGED vars
  <2>1. World(0)' = World(0)
    BY <1>2 DEF World, vars
  <2> QED
    BY <2>1 DEF Ordered, Order, Overtakes, Aborting, Aborts, Prio, Elems
<1> QED
  BY <1>1, <1>2

\* What AbortFirst says of a step.
First ==
  \A e \in Seps :
    "abort_int" \in sep[e].f /\ s.req.stream # e /\ s'.req.stream = e =>
      s'.req.sig \in {"ABORT", "DELAY_REPORT"}

LEMMA NextFirst ==
  ASSUME Authorized, IInv, Ordered, Next, FlightHeld' PROVE First
<1> SUFFICES ASSUME NEW e \in Seps, "abort_int" \in sep[e].f, s'.req.stream = e
             PROVE  s'.req.sig \in {"ABORT", "DELAY_REPORT"}
  BY DEF First
<1>1. Still
  BY NextStill
<1>2. "abort_int" \in sep'[e].f
  BY <1>1 DEF Still, Ordered, FlightHeld
<1> DEFINE z == [s |-> s', sep |-> sep', cfg |-> cfg', users |-> users', drop |-> 0]
<1>3. World(0)' = z /\ z.s = s' /\ z.sep = sep'
  BY DEF World
<1>4. Order(z)
  <2>1. Order(World(0))'
    BY <1>1 DEF Still, Ordered
  <2> HIDE DEF z
  <2> QED
    BY <1>3, <2>1 DEF Order, Overtakes, Aborting, Aborts, Prio, Elems
<1> HIDE DEF z
<1>5. Aborting(z, e)
  BY <1>2, <1>3, <1>4 DEF Order, Aborts
<1> QED
  BY <1>3, <1>5 DEF Aborting, Urgent

\* Once we abort a stream (avdtp_abort, cancel_request of audio/avdtp.c), whatever was
\* queued about it before, the next request about it that is sent is the Abort, or a
\* delay report: the priority queue of send_req and process_queue lets both overtake.
\* This holds of every step, however users, peer, timers and channels are interleaved.
THEOREM AbortTheorem ==
  ASSUME Authorized PROVE Spec => AbortFirst
<1>1. Init => IInv /\ Ordered
  BY InitGood, InitOrdered
<1>2. IInv /\ Ordered /\ [Next]_vars => IInv' /\ Ordered'
  BY NextGood, NextOrdered
<1>3. IInv => FlightHeld
  BY FlightIs
<1>4. IInv /\ Ordered /\ FlightHeld' /\ [Next]_vars => [First]_vars
  BY NextFirst
<1>5. AbortFirst <=> [][First]_vars
  BY DEF AbortFirst, First
<1> QED
  BY <1>1, <1>2, <1>3, <1>4, <1>5, PTL DEF Spec
=============================================================================
