------------------------------- MODULE GAttrib -------------------------------
(***************************************************************************)
(* attrib/gattrib.c: the queue of ATT packets of one bearer, here at both   *)
(* ends of a link.  Requests of the client (attrib/gatt.c) and responses of *)
(* the server (src/attrib-server.c) share one queue; a request stays at its *)
(* head until the response arrives, and nothing is written in between.      *)
(* Every packet in the queue that was not written yet holds a reference.    *)
(***************************************************************************)
EXTENDS Naturals, Sequences, FiniteSets

CONSTANTS Ends,       \* the two ends of the link
          MaxSent,    \* requests that each end sends
          MaxHolders, \* users of a GAttrib: device, server channel, profiles
          MaxLevel    \* how often the security level can be raised

VARIABLE t

\* A link has two ends.
ASSUME EndsAssumption == \E a, b \in Ends : a # b /\ Ends = {a, b}

Other(e) == CHOOSE f \in Ends : f # e

\* A packet in the queue: a request with its identifier, or the response to the
\* request of that identifier; func is whether somebody waits for the result.
Packet(kind, id) == [kind |-> kind, id |-> id, sent |-> FALSE, func |-> kind = "request"]

New == [alive |-> TRUE, link |-> TRUE, refs |-> 1, holders |-> 1, queue |-> << >>,
        write_watch |-> FALSE, timeout_watch |-> FALSE, next_cmd_id |-> 0,
        wire |-> << >>,       \* packets on their way to this end
        results |-> << >>,    \* identifiers whose callback was called, and with what
        level |-> 0,          \* the security level of the socket
        rewritten |-> FALSE]  \* a packet was written twice, or could not be written

AttInit == t = [e \in Ends |-> New]

-----------------------------------------------------------------------------

wake_up_sender(x) == [x EXCEPT !.write_watch = TRUE]

attrib_destroy(x) ==
  [x EXCEPT !.alive = FALSE, !.queue = << >>, !.write_watch = FALSE, !.timeout_watch = FALSE]

g_attrib_unref(x) ==
  LET u == [x EXCEPT !.refs = @ - 1]
  IN IF u.refs = 0 THEN attrib_destroy(u) ELSE u

\* Mutant: the queue holds no reference.
g_attrib_send_unreferenced(x, p, first) ==
  LET u == [x EXCEPT !.queue = IF first THEN <<p>> \o @ ELSE Append(@, p)]
  IN IF Len(u.queue) = 1 THEN wake_up_sender(u) ELSE u

\* first: the rest of a long read goes before what waits.
g_attrib_send(x, p, first) ==
  LET u == [x EXCEPT !.queue = IF first THEN <<p>> \o @ ELSE Append(@, p), !.refs = @ + 1]
  IN IF Len(u.queue) = 1 THEN wake_up_sender(u) ELSE u

\* A request of a user of the GAttrib.
Request(e) ==
  /\ t[e].alive /\ t[e].link /\ t[e].holders > 0 /\ t[e].next_cmd_id < MaxSent
  /\ LET u == [t[e] EXCEPT !.next_cmd_id = @ + 1]
     IN t' = [t EXCEPT ![e] = g_attrib_send(u, Packet("request", u.next_cmd_id), FALSE)]

\* What is written goes to the other end.  A command or a response leaves the
\* queue and the watch stays; a request stays and the watch goes.
can_write_data(e) ==
  /\ t[e].alive /\ t[e].link /\ t[e].write_watch
  /\ LET x == t[e]
         head == Head(x.queue)
         u == IF head.kind = "response" THEN [x EXCEPT !.queue = Tail(@)]
              ELSE [x EXCEPT !.queue[1].sent = TRUE, !.write_watch = FALSE, !.timeout_watch = TRUE]
     IN t' = IF x.queue = << >> THEN [t EXCEPT ![e].write_watch = FALSE]
             ELSE [t EXCEPT ![e] = g_attrib_unref(u),
                            ![Other(e)].wire = Append(@, [kind |-> head.kind, id |-> head.id])]

\* The reference goes and the packet stays, without a watch.
WriteFails(e) ==
  /\ t[e].alive /\ t[e].link /\ t[e].write_watch /\ t[e].queue # << >>
  /\ t' = [t EXCEPT ![e] = g_attrib_unref([t[e] EXCEPT !.write_watch = FALSE, !.rewritten = TRUE])]

-----------------------------------------------------------------------------
(* received_data.                                                          *)

\* The other end's request: the attribute server answers.
ReceiveRequest(e) ==
  /\ t[e].alive /\ t[e].link /\ t[e].wire # << >> /\ Head(t[e].wire).kind = "request"
  /\ LET u == [t[e] EXCEPT !.wire = Tail(@)]
     IN t' = [t EXCEPT ![e] = g_attrib_send(u, Packet("response", Head(t[e].wire).id), FALSE)]

\* A response ends the command at the head, whatever it is; its callback may send
\* the next request of a long read.
ReceiveResponse(e, more) ==
  /\ t[e].alive /\ t[e].link /\ t[e].wire # << >> /\ Head(t[e].wire).kind = "response"
  /\ more => t[e].next_cmd_id < MaxSent /\ t[e].queue # << >> /\ Head(t[e].queue).func
  /\ LET u == [t[e] EXCEPT !.wire = Tail(@), !.timeout_watch = FALSE]
         cmd == Head(u.queue)
         popped == [u EXCEPT !.queue = Tail(@),
                             !.results = IF cmd.func THEN Append(@, <<cmd.id, Head(t[e].wire).id>>)
                                         ELSE @]
         called == IF more THEN g_attrib_send([popped EXCEPT !.next_cmd_id = @ + 1],
                                              Packet("request", u.next_cmd_id + 1), TRUE)
                   ELSE popped
     IN t' = [t EXCEPT ![e] = IF u.queue = << >> THEN u
                              ELSE IF popped.queue # << >> THEN wake_up_sender(called)
                              ELSE called]

\* The server at the other end complains: the security level is raised and the
\* command at the head written once more, and the queue gives up a reference for
\* it that it does not have.
Elevate(e) ==
  /\ t[e].alive /\ t[e].link /\ t[e].wire # << >> /\ Head(t[e].wire).kind = "response"
  /\ t[e].level < MaxLevel /\ t[e].queue # << >>
  /\ LET u == [t[e] EXCEPT !.wire = Tail(@), !.timeout_watch = FALSE, !.level = @ + 1,
                            !.rewritten = TRUE]
     IN t' = [t EXCEPT ![e] = wake_up_sender(u)]

-----------------------------------------------------------------------------

\* g_attrib_cancel, of the packet at place k: what is written already is answered
\* to nobody.
g_attrib_cancel(e, k) ==
  /\ t[e].alive /\ k \in DOMAIN t[e].queue /\ t[e].queue[k].func
  /\ LET q == t[e].queue
     IN t' = [t EXCEPT ![e].queue =
                IF k = 1 /\ q[1].sent THEN [q EXCEPT ![1].func = FALSE]
                ELSE SubSeq(q, 1, k - 1) \o SubSeq(q, k + 1, Len(q))]

\* g_attrib_cancel_all, of responses too.
g_attrib_cancel_all(e) ==
  /\ t[e].alive /\ t[e].queue # << >>
  /\ LET q == t[e].queue
     IN t' = [t EXCEPT ![e].queue = IF q[1].sent THEN <<[q[1] EXCEPT !.func = FALSE]>> ELSE << >>]

g_attrib_ref(e) ==
  /\ t[e].alive /\ t[e].link /\ t[e].holders \in 1..MaxHolders - 1
  /\ t' = [t EXCEPT ![e].refs = @ + 1, ![e].holders = @ + 1]

\* A user is done, or hears of the disconnection.
Release(e) ==
  /\ t[e].alive /\ t[e].holders > 0
  /\ LET u == [t[e] EXCEPT !.holders = @ - 1] IN t' = [t EXCEPT ![e] = g_attrib_unref(u)]

\* No response for GATT_TIMEOUT: the GAttrib goes, whoever holds it, and the link.
disconnect_timeout(e) ==
  /\ t[e].alive /\ t[e].timeout_watch
  /\ t' = [t EXCEPT ![e] = [attrib_destroy(t[e]) EXCEPT !.link = FALSE],
                    ![Other(e)].link = FALSE]

LinkLost ==
  /\ \E e \in Ends : t[e].link
  /\ t' = [e \in Ends |-> [t[e] EXCEPT !.link = FALSE]]

\* A new link, when the users have heard of the end of the last one.
g_attrib_new ==
  /\ \A e \in Ends : ~t[e].link /\ (t[e].alive => t[e].holders = 0)
  /\ t' = [e \in Ends |-> New]

-----------------------------------------------------------------------------

AttNext ==
  \/ \E e \in Ends : \/ Request(e) \/ can_write_data(e) \/ ReceiveRequest(e)
                     \/ \E more \in BOOLEAN : ReceiveResponse(e, more)
                     \/ Elevate(e) \/ WriteFails(e) \/ g_attrib_cancel_all(e) \/ g_attrib_ref(e)
                     \/ Release(e) \/ disconnect_timeout(e)
                     \/ \E k \in 1..Len(t[e].queue) : g_attrib_cancel(e, k)
  \/ LinkLost \/ g_attrib_new

AttSpec == AttInit /\ [][AttNext]_t

-----------------------------------------------------------------------------
(* Properties.                                                             *)

Unsent(x) == {k \in DOMAIN x.queue : ~x.queue[k].sent}

\* A GAttrib lives as long as somebody holds it or something is to be written,
\* but for the timeout: no user and no packet is left with freed memory.  A
\* cancelled packet keeps its reference, so there may be more.  Nothing is claimed of an
\* end that has written a packet twice, or failed to: there is indeed one too few then.
Referenced ==
  \A e \in Ends : t[e].alive /\ ~t[e].rewritten =>
                    t[e].refs >= t[e].holders + Cardinality(Unsent(t[e]))

\* Nothing is stuck in the queue: the head is watched for writing, or it was
\* written and the timer runs, unless a write has failed (can_write_data then leaves
\* the head without a watch) or was repeated; only the head can have been written.
Progress ==
  \A e \in Ends :
    LET x == t[e]
        written == x.queue # << >> /\ x.queue[1].sent
    IN x.alive => /\ x.timeout_watch => written
                  /\ ~x.rewritten /\ x.queue # << >> => x.write_watch \/ x.timeout_watch
                  /\ \A k \in DOMAIN x.queue : x.queue[k].sent => k = 1

\* Every callback gets the response to its own request, and no request is
\* answered twice.
Matched ==
  \A e \in Ends :
    /\ \A k \in DOMAIN t[e].results : t[e].results[k][1] = t[e].results[k][2]
    /\ \A j, k \in DOMAIN t[e].results : j # k => t[e].results[j] # t[e].results[k]

\* On both ends of an ATT bearer (gattrib.c), whatever is cancelled, timed out or
\* written twice: every callback gets the response to its own request, once, and only
\* the head of the queue has been written.  As long as this end has neither failed to
\* write a packet nor written one again at a higher security level: nothing in its queue
\* is stuck, and its GAttrib lives as long as it is used.  After either of the two a
\* reference is missing, and after the first the head may have no watch.
AttSafe == Referenced /\ Progress /\ Matched
=============================================================================
