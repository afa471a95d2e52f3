--------------------------- MODULE MediaTransport ---------------------------
(***************************************************************************)
(* audio/media.c and audio/transport.c: an endpoint that an application has *)
(* registered, and the transport that exists while a stream is configured   *)
(* for it.  Clients acquire the transport for reading, writing or both; it  *)
(* is one stream all the same, locked as long as the transport is in use.   *)
(***************************************************************************)
EXTENDS FiniteSets

CONSTANTS Clients,    \* applications that use the transport
          Environment \* which of these happen as well: another user has the stream and
                      \* resume is "refused", a client gives all "back" in parts, the
                      \* transport is acquired in the "overlap" with a release, the
                      \* endpoint is "silent" when asked for a configuration

VARIABLE t

Access == {{"r"}, {"w"}, {"r", "w"}}

\* An owner; whole: its accesstype is as it was acquired.  pending: the request, with
\* an operation of the stream if id.
NoOwner == [is |-> FALSE, access |-> {}, whole |-> TRUE, pending |-> "none", id |-> FALSE]

\* request: what the application was asked, call: the reply is still to come; asks:
\* who waits for it (history).  locked: who has the stream.  answers: what each
\* client waits for (history).  stale: clients watched for an owner that is freed.
Init == t = [endpoint |-> FALSE, request |-> "none", call |-> FALSE, asks |-> FALSE,
             transport |-> FALSE, in_use |-> FALSE, locked |-> "none", playing |-> FALSE,
             locks |-> {}, owners |-> [c \in Clients |-> NoOwner],
             answers |-> [c \in Clients |-> {}], stale |-> {}]

Owners(x) == {c \in Clients : x.owners[c].is}

-----------------------------------------------------------------------------
(* Owners.                                                                 *)

\* suspend_a2dp and suspend_headset without an owner: the stream is unlocked, and
\* suspended by that.
Unlock(x) == [x EXCEPT !.locked = "none", !.in_use = FALSE, !.playing = FALSE]

\* The operation is cancelled; nobody is told.
media_owner_remove(x, c) ==
  [x EXCEPT !.owners[c].pending = "none", !.owners[c].id = FALSE]

\* Mutant: the locks stay.
media_transport_remove_locked(x, c) ==
  LET y == [x EXCEPT !.answers[c] = @ \ {x.owners[c].pending}, !.owners[c] = NoOwner]
  IN IF Owners(y) = {} /\ y.in_use THEN Unlock(y) ELSE y

media_transport_remove(x, c) ==
  LET y == [x EXCEPT !.locks = @ \ x.owners[c].access,
                     !.answers[c] = @ \ {x.owners[c].pending}, !.owners[c] = NoOwner]
  IN IF Owners(y) = {} /\ y.in_use THEN Unlock(y) ELSE y

\* The stream is locked for the first owner; the locks stay if it cannot be, and a
\* watch for the owner that is freed.
acquire(c, access, resumes) ==
  /\ t.transport /\ t.answers[c] = {} /\ ~t.owners[c].is /\ access \cap t.locks = {}
  /\ resumes \/ "refused" \in Environment
  /\ resumes => t.in_use \/ t.locked = "none"
  /\ "overlap" \in Environment \/ \A d \in Owners(t) : t.owners[d].pending # "release"
  /\ LET x == [t EXCEPT !.locks = @ \cup access]
     IN t' = IF resumes
             THEN [x EXCEPT !.in_use = TRUE, !.locked = "us", !.answers[c] = {"acquire"},
                            !.owners[c] = [NoOwner EXCEPT !.is = TRUE, !.access = access,
                                                          !.pending = "acquire", !.id = TRUE]]
             ELSE [x EXCEPT !.stale = @ \cup {c}]

\* The whole accesstype, or a part of what is left of it.
release(c, access, suspends) ==
  /\ t.transport /\ t.owners[c].is
  /\ LET o == t.owners[c]
         cancelled == [media_owner_remove(t, c) EXCEPT !.answers[c] = {}]
     IN \/ /\ o.whole /\ o.access = access
           /\ \/ /\ Owners(t) # {c}
                 /\ t' = media_transport_remove(t, c)
              \/ /\ Owners(t) = {c} /\ o.pending # "release" /\ ~suspends
                 /\ t' = media_transport_remove(cancelled, c)
              \/ /\ Owners(t) = {c} /\ o.pending # "release" /\ suspends
                 /\ t' = [cancelled EXCEPT !.owners[c].pending = "release",
                                           !.owners[c].id = TRUE, !.answers[c] = {"release"}]
        \/ /\ access \subseteq o.access /\ (o.whole => access # o.access)
           /\ access = o.access => "back" \in Environment
           /\ t' = [t EXCEPT !.locks = @ \ access, !.owners[c].access = @ \ access,
                             !.owners[c].whole = FALSE]

\* a2dp_resume_complete, headset_resume_complete: the client has the descriptor,
\* or is no owner.
resume_complete(c, ok) ==
  /\ t.owners[c].id /\ t.owners[c].pending = "acquire"
  /\ t' = IF ok THEN [media_owner_remove(t, c) EXCEPT !.answers[c] = @ \ {"acquire"},
                                                      !.playing = TRUE]
          ELSE media_transport_remove(t, c)

\* a2dp_suspend_complete, headset_suspend_complete: always a success.
suspend_complete(c) ==
  /\ t.owners[c].id /\ t.owners[c].pending = "release"
  /\ t' = media_transport_remove(
            Unlock([media_owner_remove(t, c) EXCEPT !.answers[c] = @ \ {"release"}]), c)

\* The client leaves the bus.
media_owner_exit(c) ==
  /\ t.owners[c].is
  /\ t' = media_transport_remove([media_owner_remove(t, c) EXCEPT !.answers[c] = {}], c)

\* Another user of the stream, as audio/unix.c.
OtherLocks == t.locked = "none" /\ t' = [t EXCEPT !.locked = "other"]
OtherUnlocks == t.locked = "other" /\ t' = [t EXCEPT !.locked = "none"]

-----------------------------------------------------------------------------
(* The endpoint.                                                           *)

register_endpoint == ~t.endpoint /\ t' = [t EXCEPT !.endpoint = TRUE]

\* All owners are told that it is over.
media_transport_free(x) ==
  LET y == IF x.in_use THEN Unlock(x) ELSE x
  IN [y EXCEPT !.transport = FALSE, !.locks = {}, !.playing = FALSE,
               !.owners = [c \in Clients |-> NoOwner],
               !.answers = [c \in Clients |-> @[c] \ {x.owners[c].pending}]]

media_endpoint_cancel(x) == [x EXCEPT !.request = "none", !.call = FALSE]

\* The stream it was asked for is gone as well.
media_endpoint_remove ==
  /\ t.endpoint
  /\ t' = [media_transport_free(media_endpoint_cancel(t)) EXCEPT !.endpoint = FALSE,
                                                                 !.asks = FALSE]

media_endpoint_select_configuration ==
  /\ t.endpoint /\ t.request = "none" /\ ~t.asks
  /\ t' = [t EXCEPT !.request = "select", !.call = TRUE, !.asks = TRUE]

media_endpoint_set_configuration ==
  /\ t.endpoint /\ t.request = "none" /\ ~t.transport /\ ~t.asks
  /\ t' = [t EXCEPT !.request = "set", !.call = TRUE, !.asks = TRUE, !.transport = TRUE]

ClearConfiguration(x) ==
  IF x.transport THEN media_transport_free(media_endpoint_cancel(x)) ELSE x

\* With an error, or no reply in time, who asked is told; the request goes with
\* the transport then, and stays if there is none.
endpoint_reply(reply) ==
  /\ t.call
  /\ reply = "none" /\ t.request = "select" => "silent" \in Environment
  /\ LET x == [t EXCEPT !.call = FALSE, !.asks = FALSE]
     IN t' = IF reply = "none" THEN ClearConfiguration(x) ELSE media_endpoint_cancel(x)

\* a2dp.c, stream_state_changed, and headset_state_changed: the stream is gone, and
\* whoever waits for the endpoint with it.
media_endpoint_clear_configuration ==
  /\ t.transport
  /\ t' = [ClearConfiguration(t) EXCEPT !.asks = FALSE]

-----------------------------------------------------------------------------

Next == \/ \E c \in Clients, a \in Access, ok \in BOOLEAN : acquire(c, a, ok) \/ release(c, a, ok)
        \/ \E c \in Clients, ok \in BOOLEAN : resume_complete(c, ok)
        \/ \E c \in Clients : suspend_complete(c) \/ media_owner_exit(c)
        \/ OtherLocks \/ OtherUnlocks \/ register_endpoint \/ media_endpoint_remove
        \/ media_endpoint_select_configuration \/ media_endpoint_set_configuration
        \/ \E reply \in {"ok", "error", "none"} : endpoint_reply(reply)
        \/ media_endpoint_clear_configuration

Spec == Init /\ [][Next]_t

-----------------------------------------------------------------------------

\* Nothing is locked but for an owner, no direction has two, and the stream is
\* locked for the transport exactly while it has owners (media_transport_acquire,
\* media_transport_remove).
LocksOwned ==
  /\ t.locks = UNION {t.owners[c].access : c \in Owners(t)}
  /\ \A c, d \in Owners(t) : c # d => t.owners[c].access \cap t.owners[d].access = {}
  /\ \A c \in Owners(t) : t.owners[c].access # {}
  /\ t.in_use <=> t.locked = "us"
  /\ t.in_use <=> Owners(t) # {}
  /\ t.stale = {}

\* Every call waits for an operation of the stream that is under way, and the
\* endpoint is busy only while its application is asked.
Answered ==
  /\ \A c \in Clients : \A call \in t.answers[c] :
       t.owners[c].is /\ t.owners[c].pending = call /\ t.owners[c].id
  /\ t.request # "none" <=> t.call
  /\ t.asks <=> t.call

\* "Suspend if there is no longer any owner" (transport.c:207): the stream of a
\* transport without owners is not playing.
Suspended == Owners(t) = {} => ~t.playing
=============================================================================
