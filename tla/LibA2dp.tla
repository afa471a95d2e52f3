------------------------------ MODULE LibA2dp ------------------------------
(***************************************************************************)
(* audio/liba2dp.c: the library through which Android's audio HAL plays to *)
(* an A2DP sink.  Three threads share one struct bluetooth_data:           *)
(*                                                                         *)
(*   T  a2dp_thread, which executes commands by exchanging messages with   *)
(*      bluetoothd over a socket, holding the mutex all the while;         *)
(*   W  the HAL's write thread in a2dp_write, which drives T to STARTED    *)
(*      and waits for it on a condition variable with a timeout;           *)
(*   C  the HAL's control calls a2dp_init, a2dp_stop, a2dp_set_sink and    *)
(*      a2dp_cleanup.                                                      *)
(*                                                                         *)
(* W and C read data->state without the mutex, as the code does.  A step   *)
(* is what a thread does between two points where others can interfere:    *)
(* taking or giving up the mutex, and each message to or from the daemon.  *)
(* The audio data is left out; writing is a phase of W.                    *)
(***************************************************************************)
EXTENDS Integers, Sequences

CONSTANT Controls  \* what C asks for, a subset of STOP, INIT (set_sink), QUIT

ASSUME ControlsAssumption == Controls \subseteq {"STOP", "INIT", "QUIT"}

VARIABLES
  state, command,       \* fields of struct bluetooth_data
  stream,               \* is data->stream.fd open?
  server,               \* data->server.fd: closed, up, or down at the other end
  mutex,                \* the thread that holds it, or none
  tpc, last, err,       \* T: where it is, its local command and err
  op, step,             \* T: the command it is executing, the message it is at
  wpc, wstate,          \* W: where it is and its local copy of the state
  cpc,                  \* C: idle, or the command it wants the mutex for
  asked, inbox,         \* requests bluetoothd has not answered, its answers
  streaming             \* has bluetoothd started the stream of this client?

data == <<state, command, stream, server>>
thread == <<tpc, last, err, op, step>>
writer == <<wpc, wstate>>
daemon == <<asked, inbox, streaming>>
vars == <<data, mutex, thread, writer, cpc, daemon>>

States == {"NONE", "INITIALIZED", "CONFIGURING", "CONFIGURED", "STARTING",
           "STARTED", "STOPPING"}
Commands == {"NONE", "INIT", "CONFIGURE", "START", "STOP", "QUIT"}

\* The messages each command expects; all but NEW_STREAM answer a request.
Messages(o) == CASE o = "CONFIGURE" -> <<"GET_CAPABILITIES", "OPEN",
                                         "SET_CONFIGURATION">>
                 [] o = "START" -> <<"START_STREAM", "NEW_STREAM">>
                 [] o = "STOP" -> <<"STOP_STREAM">>
                 [] o = "CLOSE" -> <<"CLOSE">>
                 [] o = "NONE" -> << >>
Ops == {"NONE", "CONFIGURE", "START", "STOP", "CLOSE"}
Replies == {"GET_CAPABILITIES", "OPEN", "SET_CONFIGURATION", "START_STREAM",
            "NEW_STREAM", "STOP_STREAM", "CLOSE", "ERROR"}

Init == /\ state = "NONE" /\ command = "NONE"
        /\ stream = FALSE /\ server = "closed"
        /\ mutex = "none"
        /\ tpc = "none" /\ last = "NONE" /\ err = FALSE
        /\ op = "NONE" /\ step = 0
        /\ wpc = "idle" /\ wstate = "NONE"
        /\ cpc = "idle"
        /\ asked = << >> /\ inbox = << >> /\ streaming = FALSE

\* A signal on thread_wait or client_wait is lost if nobody waits.
SignalThread == tpc' = IF tpc = "wait" THEN "woken" ELSE tpc
SignalClient == wpc' = IF wpc = "wait" THEN "woken" ELSE wpc

\* __set_command, called with the mutex held.
set_command(c) == command' = c /\ SignalThread

-----------------------------------------------------------------------------
(* T: a2dp_thread.                                                         *)

\* The command is done: a failed one may be executed again.
EndCommand(failed) ==
  /\ err' = failed
  /\ last' = IF failed THEN "NONE" ELSE last
  /\ op' = "NONE" /\ step' = 0
  /\ tpc' = "wait"
  /\ mutex' = "none"

\* Both descriptors are closed; bluetoothd drops the client.
Disconnect == /\ server' = "closed" /\ stream' = FALSE
              /\ asked' = << >> /\ inbox' = << >> /\ streaming' = FALSE

\* T wakes up, takes the mutex and first of all connects to bluetoothd if
\* there is no connection (ok: that succeeds).  bluetooth_init sets the state
\* without telling the client.
ThreadWakes(ok) ==
  /\ tpc = "woken" /\ mutex = "none"
  /\ LET init == state = "NONE" /\ command # "QUIT"
     IN /\ init \/ ok
        /\ err' = IF init THEN ~ok ELSE err
        /\ IF init /\ ok THEN state' = "INITIALIZED" /\ server' = "up"
                         ELSE UNCHANGED <<state, server>>
  /\ last' = command
  /\ IF last # command THEN tpc' = "dispatch" /\ mutex' = "T"
                       ELSE tpc' = "wait" /\ mutex' = "none"
  /\ UNCHANGED <<command, stream, op, step, writer, cpc, daemon>>

\* The command that fits a state, and the state while it is executed.
Needs(c) == CASE c = "CONFIGURE" -> "INITIALIZED" [] c = "START" -> "CONFIGURED"
              [] c = "STOP" -> "STARTED"
During(c) == CASE c = "CONFIGURE" -> "CONFIGURING" [] c = "START" -> "STARTING"
               [] c = "STOP" -> "STOPPING"

Begin(o) == op' = o /\ step' = 1 /\ tpc' = "send"

\* bluetooth_configure, bluetooth_start or bluetooth_stop begins.
Execute ==
  /\ tpc = "dispatch"
  /\ last \in {"CONFIGURE", "START", "STOP"} /\ state = Needs(last)
  /\ state' = During(last)
  /\ stream' = IF last = "STOP" THEN FALSE ELSE stream
  /\ Begin(last)
  /\ UNCHANGED <<command, server, mutex, last, err, writer, cpc, daemon>>

\* INIT has been done already, or the command does not fit the state.  err
\* keeps the result of whatever was done last.
Ignore ==
  /\ tpc = "dispatch"
  /\ \/ last \in {"NONE", "INIT"}
     \/ last \in {"CONFIGURE", "START", "STOP"} /\ state # Needs(last)
  /\ EndCommand(err)
  /\ UNCHANGED <<data, writer, cpc, daemon>>

\* bluetooth_close has closed both descriptors.  After QUIT the data is freed
\* and the thread ends; otherwise a client that waits is told.
Closed ==
  /\ state' = "NONE"
  /\ Disconnect
  /\ IF last = "QUIT"
     THEN /\ tpc' = "none" /\ mutex' = "none" /\ op' = "NONE" /\ step' = 0
          /\ UNCHANGED <<last, err, wpc>>
     ELSE EndCommand(TRUE) /\ SignalClient

Quit ==
  /\ tpc = "dispatch" /\ last = "QUIT"
  /\ IF server = "closed"
     THEN Closed /\ UNCHANGED <<command, wstate, cpc>>
     ELSE /\ Begin("CLOSE")
          /\ UNCHANGED <<data, mutex, last, err, writer, cpc, daemon>>

\* The error labels.  Configure and Start close the connection, which is one
\* more exchange; Stop goes on as if it had succeeded.
Fails ==
  CASE op \in {"CONFIGURE", "START"} ->
         /\ Begin("CLOSE")
         /\ UNCHANGED <<state, stream, server, mutex, last, err, wpc, streaming>>
    [] op = "STOP" -> /\ state' = "CONFIGURED" /\ SignalClient
                      /\ EndCommand(TRUE)
                      /\ UNCHANGED <<stream, server, streaming>>
    [] op = "CLOSE" -> FALSE

\* audioservice_send.
Send ==
  /\ tpc = "send" /\ server = "up"
  /\ asked' = Append(asked, Messages(op)[step])
  /\ tpc' = "recv"
  /\ UNCHANGED <<data, mutex, last, err, op, step, writer, cpc, inbox, streaming>>

\* bluetoothd has gone: audioservice_send (EPIPE) or audioservice_recv
\* (ECONNRESET) closes everything itself, so the error labels find the state
\* NONE and tell no client.
Reset ==
  /\ tpc \in {"send", "recv"} /\ server = "down"
  /\ IF op = "CLOSE" THEN Closed
     ELSE /\ state' = "NONE" /\ Disconnect
          /\ EndCommand(TRUE) /\ UNCHANGED wpc
  /\ UNCHANGED <<command, wstate, cpc>>

\* Mutant: any answer but an error will do.
Expected_any == inbox # << >> /\ Head(inbox) # "ERROR"

Expected == inbox # << >> /\ Head(inbox) = Messages(op)[step]

\* The exchange goes on; START_STREAM is answered by two messages.
NextMessage ==
  /\ op # "CLOSE" /\ step < Len(Messages(op))
  /\ step' = step + 1
  /\ tpc' = IF op = "START" THEN "recv" ELSE "send"
  /\ inbox' = Tail(inbox)
  /\ UNCHANGED <<state, stream, server, mutex, last, err, op, wpc, asked, streaming>>

\* The command has succeeded.
LastMessage ==
  /\ op # "CLOSE" /\ step = Len(Messages(op))
  /\ state' = IF op = "START" THEN "STARTED" ELSE "CONFIGURED"
  /\ stream' = (op = "START")
  /\ inbox' = Tail(inbox)
  /\ SignalClient
  /\ EndCommand(FALSE)
  /\ UNCHANGED <<server, asked, streaming>>

\* audioservice_expect got what it waited for.
Receive ==
  /\ tpc = "recv" /\ Expected
  /\ NextMessage \/ LastMessage \/ (op = "CLOSE" /\ Closed)
  /\ UNCHANGED <<command, wstate, cpc>>

\* Another message than the one expected (an error, or the late answer to a
\* request that timed out), an answer that cannot be used, or no descriptor
\* in NEW_STREAM.
ReceiveBad ==
  /\ tpc = "recv" /\ inbox # << >>
  /\ op \in {"STOP", "CLOSE"} => ~Expected
  /\ IF op = "CLOSE" THEN Closed
                     ELSE Fails /\ inbox' = Tail(inbox) /\ UNCHANGED asked
  /\ UNCHANGED <<command, wstate, cpc>>

\* Mutant: recv has no timeout.
ReceiveTimeout_never ==
  /\ tpc = "recv" /\ inbox = << >> /\ server = "down"
  /\ IF op = "CLOSE" THEN Closed ELSE Fails /\ UNCHANGED <<asked, inbox>>
  /\ UNCHANGED <<command, wstate, cpc>>

\* RECV_TIMEOUT seconds without an answer, or the end of the connection.
ReceiveTimeout ==
  /\ tpc = "recv" /\ inbox = << >>
  /\ IF op = "CLOSE" THEN Closed ELSE Fails /\ UNCHANGED <<asked, inbox>>
  /\ UNCHANGED <<command, wstate, cpc>>

ThreadNext ==
  \/ \E ok \in BOOLEAN : ThreadWakes(ok)
  \/ Execute \/ Ignore \/ Quit
  \/ Send \/ Reset \/ Receive \/ ReceiveBad \/ ReceiveTimeout

-----------------------------------------------------------------------------
(* W: a2dp_write, with wait_for_start.                                     *)

\* The library is in use between a2dp_init and a2dp_cleanup.
InUse == tpc # "none" /\ cpc # "QUIT" /\ command # "QUIT"

\* The HAL starts no a2dp_write during a control call.  The state is read
\* before the mutex is taken.
WriteBegins ==
  /\ wpc = "idle" /\ cpc = "idle" /\ InUse
  /\ wpc' = "lock" /\ wstate' = state
  /\ UNCHANGED <<data, mutex, thread, cpc, daemon>>

\* One turn of the loop in wait_for_start with the state seen.
Turn(seen) ==
  /\ wstate' = seen
  /\ IF seen = "STARTED"
     THEN wpc' = "write" /\ UNCHANGED <<command, tpc>>
     ELSE /\ wpc' = "wait"
          /\ CASE seen = "NONE" -> set_command("INIT")
               [] seen = "INITIALIZED" -> set_command("CONFIGURE")
               [] seen = "CONFIGURED" -> set_command("START")
               [] OTHER -> UNCHANGED <<command, tpc>>

WriteLocks ==
  /\ wpc = "lock" /\ mutex = "none"
  /\ Turn(wstate)
  /\ UNCHANGED <<state, stream, server, mutex, last, err, op, step, cpc, daemon>>

\* A signal, or a wakeup for no reason.
WriteWakes ==
  /\ wpc = "woken" /\ mutex = "none"
  /\ CASE state = wstate -> wpc' = "wait" /\ UNCHANGED <<wstate, command, tpc>>
       [] state # wstate /\ state = "NONE" ->
            /\ wpc' = "idle" /\ wstate' = "NONE"
            /\ UNCHANGED <<command, tpc>>
       [] OTHER -> Turn(state)
  /\ UNCHANGED <<state, stream, server, mutex, last, err, op, step, cpc, daemon>>

WriteTimesOut ==
  /\ wpc \in {"wait", "woken"} /\ mutex = "none"
  /\ wpc' = IF state = "STARTED" THEN "write" ELSE "idle"
  /\ UNCHANGED <<data, mutex, thread, wstate, cpc, daemon>>

WriteEnds ==
  /\ wpc = "write" /\ wpc' = "idle"
  /\ UNCHANGED <<data, mutex, thread, wstate, cpc, daemon>>

\* POSIX lets a condition variable wake its waiters for no reason.
SpuriousWakeup ==
  /\ \/ tpc = "wait" /\ tpc' = "woken" /\ UNCHANGED wpc
     \/ wpc = "wait" /\ wpc' = "woken" /\ UNCHANGED tpc
  /\ UNCHANGED <<data, mutex, last, err, op, step, wstate, cpc, daemon>>

WriterNext == WriteBegins \/ WriteLocks \/ WriteWakes \/ WriteTimesOut \/ WriteEnds

-----------------------------------------------------------------------------
(* C: the control calls.  The HAL makes them one at a time, and a2dp_stop  *)
(* and a2dp_cleanup only while no a2dp_write is going on (write_busy).     *)

\* a2dp_init returns once T waits, and pokes it.
a2dp_init ==
  /\ tpc = "none" /\ wpc = "idle" /\ cpc = "idle"
  /\ command' = "NONE" /\ tpc' = "woken"
  /\ last' = "NONE" /\ err' = FALSE
  /\ UNCHANGED <<state, stream, server, mutex, op, step, writer, cpc, daemon>>

\* a2dp_stop looks at the state without the mutex.
Control(c) ==
  /\ cpc = "idle" /\ InUse
  /\ c \in {"STOP", "QUIT"} => wpc = "idle"
  /\ c = "STOP" => state = "STARTED"
  /\ cpc' = c
  /\ UNCHANGED <<data, mutex, thread, writer, daemon>>

SetCommand ==
  /\ cpc # "idle" /\ mutex = "none"
  /\ set_command(cpc)
  /\ cpc' = "idle"
  /\ UNCHANGED <<state, stream, server, mutex, last, err, op, step, writer, daemon>>

-----------------------------------------------------------------------------
(* bluetoothd (audio/unix.c): answers requests in the order they were      *)
(* made, or goes away.                                                     *)

DaemonAnswers(ok) ==
  /\ asked # << >> /\ server = "up"
  /\ asked' = Tail(asked)
  /\ inbox' = inbox \o (CASE ~ok -> <<"ERROR">>
                          [] ok /\ Head(asked) = "START_STREAM" -> Messages("START")
                          [] OTHER -> <<Head(asked)>>)
  /\ streaming' = CASE ok /\ Head(asked) = "START_STREAM" -> TRUE
                    [] ok /\ Head(asked) = "STOP_STREAM" -> FALSE
                    [] OTHER -> streaming
  /\ UNCHANGED <<data, mutex, thread, writer, cpc>>

DaemonGone ==
  /\ server = "up" /\ server' = "down"
  /\ asked' = << >> /\ streaming' = FALSE
  /\ UNCHANGED <<state, command, stream, mutex, thread, writer, cpc, inbox>>

Next == \/ ThreadNext \/ WriterNext \/ SpuriousWakeup
        \/ a2dp_init \/ SetCommand
        \/ \E c \in Controls : Control(c)
        \/ \E ok \in BOOLEAN : DaemonAnswers(ok)
        \/ DaemonGone

\* The threads run, a thread that keeps asking for the mutex gets it, and
\* both timeouts expire.
Fairness == /\ WF_vars(Execute \/ Ignore \/ Quit \/ Send \/ Reset \/ Receive
                       \/ ReceiveBad \/ ReceiveTimeout)
            /\ SF_vars(\E ok \in BOOLEAN : ThreadWakes(ok))
            /\ SF_vars(WriteLocks) /\ SF_vars(WriteTimesOut) /\ WF_vars(WriteEnds)
            /\ SF_vars(SetCommand)

Spec == Init /\ [][Next]_vars
FairSpec == Spec /\ Fairness

-----------------------------------------------------------------------------
(* Properties.                                                             *)

TypeOK ==
  /\ state \in States /\ command \in Commands
  /\ stream \in BOOLEAN /\ server \in {"closed", "up", "down"}
  /\ mutex \in {"none", "T"}
  /\ tpc \in {"none", "wait", "woken", "dispatch", "send", "recv"}
  /\ last \in Commands /\ err \in BOOLEAN
  /\ op \in Ops /\ step \in 0..3
  /\ wpc \in {"idle", "lock", "wait", "woken", "write"} /\ wstate \in States
  /\ cpc \in Commands \cup {"idle"}
  /\ asked \in Seq(Replies) /\ inbox \in Seq(Replies) /\ streaming \in BOOLEAN

\* Whichever exchange failed and however, once T waits again the state tells
\* which descriptors are open, and no state of transition is left behind.
FdsMatchState ==
  tpc \in {"none", "wait", "woken"} =>
    /\ state \in {"NONE", "INITIALIZED", "CONFIGURED", "STARTED"}
    /\ (state = "STARTED") <=> stream
    /\ (state = "NONE") <=> (server = "closed")

\* No late answer to a request that timed out is taken for the answer to
\* another: in STARTED, unless bluetoothd is gone or T is closing the connection,
\* the stream has been started there and no request or answer is left over.
DaemonAgrees ==
  state = "STARTED" /\ server = "up" /\ op = "NONE" =>
    streaming /\ asked = << >> /\ inbox = << >>

\* The comment in a2dp_thread says that the last command is reset "to allow
\* re-execution of the same command": a writer whose view of the state is
\* current never waits for a command that T has decided not to execute, unless
\* a2dp_set_sink has overwritten it.
Served ==
  tpc = "wait" /\ wpc = "wait" /\ wstate = state /\ command # "INIT" =>
    state \notin {"INITIALIZED", "CONFIGURED"}

\* a2dp_write always returns, whatever bluetoothd and T are doing.
WriterReturns == wpc # "idle" ~> wpc = "idle"

\* A Stop that is set as the command is executed, unless a2dp_set_sink
\* overwrites the one command slot first.
StopHonoured == command = "STOP" ~> (state # "STARTED" \/ command = "INIT")

\* a2dp_cleanup ends the thread and frees the data.
QuitEnds == cpc = "QUIT" ~> tpc = "none"

\* State, descriptors and bluetoothd agree whenever T has finished a command,
\* whichever of its exchanges failed or timed out; and no writer waits for a
\* command that T has decided not to execute.
Consistent == TypeOK /\ FdsMatchState /\ DaemonAgrees /\ Served

\* Every call of the library ends: a write, a stop, a cleanup.
CallsEnd == WriterReturns /\ StopHonoured /\ QuitEnds

=============================================================================
