--------------------------- MODULE AndroidProofs ---------------------------
(***************************************************************************)
(* Proofs about Android's two halves of A2DP playback.                     *)
(*                                                                         *)
(* LibA2dp: Consistent is an invariant, whatever control calls the HAL     *)
(* makes.  Three facts that the threads rely on make it inductive: the     *)
(* mutex freezes the command while T executes it (Holding); what may lie   *)
(* in the socket is known for every step of an exchange, a late answer to  *)
(* Stop being the only one that T may meet in another (Pipe); and T waits  *)
(* only with a last command that no longer fits the state (LastDone).      *)
(*                                                                         *)
(* A2dpHw, for a ring of any size, writes of any length and any number of  *)
(* retries: the ring stays consistent in every behaviour without           *)
(* "suspend", during which out_write resets a ring that the buffer thread  *)
(* is reading.  The library is not cleaned up under a2dp_write if          *)
(* "disable" does not meet another call that sets or ends standby          *)
(* (A2dpHwCleanup shows one that does).  The argument: a write that is     *)
(* under way in standby belongs to a caller who waits for it (Standing),   *)
(* and what B is writing is the contiguous beginning of what is ready      *)
(* (Contiguous).                                                           *)
(***************************************************************************)
EXTENDS LibA2dp, A2dpHw, SequenceTheorems, TLAPS

(* The library.                                                            *)

Stable == {"NONE", "INITIALIZED", "CONFIGURED", "STARTED"}
Late == {"STOP_STREAM", "ERROR"}
Clean == asked = << >> /\ inbox = << >>

\* T holds the mutex from dispatch on, and the command it has taken stays.
Holding ==
  /\ mutex = "T" <=> tpc \in {"dispatch", "send", "recv"}
  /\ tpc \in {"dispatch", "send", "recv"} => command = last
  /\ op # "NONE" <=> tpc \in {"send", "recv"}
  /\ op = "CONFIGURE" => step \in 1..3
  /\ op = "START" => step \in 1..2 /\ (tpc = "send" => step = 1)
  /\ op \in {"STOP", "CLOSE"} => step = 1

\* State and descriptors, between commands and during one.
Descriptors ==
  /\ op = "NONE" => /\ state \in Stable
                    /\ (state = "STARTED") <=> stream
                    /\ (state = "NONE") <=> (server = "closed")
  /\ op # "NONE" => server # "closed"
  /\ op \in {"CONFIGURE", "START", "STOP"} =>
       last = op /\ state = During(op) /\ ~stream
  /\ server = "closed" => Clean
  /\ server = "down" => asked = << >>

\* What is in the socket to and from bluetoothd.
Pipe ==
  server = "up" =>
    /\ op = "NONE" /\ state \in {"INITIALIZED", "STARTED"} => Clean
    /\ op = "NONE" /\ state = "STARTED" => streaming
    /\ (op = "NONE" /\ state = "CONFIGURED") \/ (op = "START" /\ tpc = "send") =>
         \/ Clean
         \/ asked = <<"STOP_STREAM">> /\ inbox = << >>
         \/ asked = << >> /\ \E x \in Late : inbox = <<x>>
    /\ op \in {"CONFIGURE", "STOP"} /\ tpc = "send" => Clean
    /\ op \in {"CONFIGURE", "STOP"} /\ tpc = "recv" =>
         \/ asked = <<Messages(op)[step]>> /\ inbox = << >>
         \/ asked = << >> /\ \E x \in {Messages(op)[step], "ERROR"} : inbox = <<x>>
    /\ op = "START" /\ tpc = "recv" /\ step = 1 =>
         \/ asked = <<"START_STREAM">> /\ inbox = << >>
         \/ asked = << >> /\ inbox = <<"START_STREAM", "NEW_STREAM">> /\ streaming
         \/ inbox # << >> /\ Head(inbox) \in Late
         \/ inbox = << >> /\ asked # << >> /\ Head(asked) = "STOP_STREAM"
    /\ op = "START" /\ tpc = "recv" /\ step = 2 =>
         asked = << >> /\ inbox = <<"NEW_STREAM">> /\ streaming

\* T has executed its last command, or may execute it again.
LastDone ==
  /\ tpc \in {"wait", "woken"} /\ state = "NONE" => last = "NONE"
  /\ tpc = "dispatch" /\ state = "NONE" /\ last # "QUIT" => err
  /\ tpc \in {"wait", "woken"} /\ last \in {"CONFIGURE", "START"} => state # Needs(last)
  /\ tpc = "wait" /\ command \in {"CONFIGURE", "START"} => state # Needs(command)

\* While W is in a2dp_write, only a2dp_set_sink can change its command.
Waiting ==
  /\ wpc # "idle" => cpc \in {"idle", "INIT"}
  /\ wpc \in {"wait", "woken"} /\ wstate = "INITIALIZED" => command \in {"CONFIGURE", "INIT"}
  /\ wpc \in {"wait", "woken"} /\ wstate = "CONFIGURED" => command \in {"START", "INIT"}

IInv == TypeOK /\ Holding /\ Descriptors /\ Pipe /\ LastDone /\ Waiting

LEMMA Exchanges ==
  /\ Messages("CONFIGURE") = <<"GET_CAPABILITIES", "OPEN", "SET_CONFIGURATION">>
  /\ Messages("START") = <<"START_STREAM", "NEW_STREAM">>
  /\ Messages("STOP") = <<"STOP_STREAM">>
  /\ Messages("CLOSE") = <<"CLOSE">>
  BY DEF Messages

LEMMA Steps ==
  /\ Len(Messages("CONFIGURE")) = 3 /\ Len(Messages("START")) = 2
  /\ Len(Messages("STOP")) = 1 /\ Len(Messages("CLOSE")) = 1
  /\ Messages("CONFIGURE")[1] = "GET_CAPABILITIES"
  /\ Messages("CONFIGURE")[2] = "OPEN"
  /\ Messages("CONFIGURE")[3] = "SET_CONFIGURATION"
  /\ Messages("START")[1] = "START_STREAM" /\ Messages("START")[2] = "NEW_STREAM"
  /\ Messages("STOP")[1] = "STOP_STREAM" /\ Messages("CLOSE")[1] = "CLOSE"
  BY Exchanges

\* A message of any exchange.
LEMMA MessageType ==
  ASSUME Holding, TypeOK, op # "NONE"
  PROVE  Messages(op)[step] \in Replies \ {"ERROR"}
  <1>1. op \in {"CONFIGURE", "START", "STOP", "CLOSE"}
    BY DEF TypeOK, Ops
  <1>2. CASE op = "CONFIGURE"
    <2>1. step \in {1, 2, 3}
      BY <1>2 DEF Holding
    <2> QED
      BY <1>2, <2>1, Steps DEF Replies
  <1>3. CASE op = "START"
    <2>1. step \in {1, 2}
      BY <1>3 DEF Holding
    <2> QED
      BY <1>3, <2>1, Steps DEF Replies
  <1>4. CASE op \in {"STOP", "CLOSE"}
    BY <1>4, Steps DEF Replies, Holding
  <1> QED
    BY <1>1, <1>2, <1>3, <1>4

\* Short sequences.
LEMMA Singles ==
  ASSUME NEW x \in Replies, NEW y \in Replies
  PROVE  /\ Append(<< >>, x) = <<x>> /\ Head(<<x>>) = x /\ Tail(<<x>>) = << >>
         /\ Head(<<x, y>>) = x /\ Tail(<<x, y>>) = <<y>>
         /\ Append(<<x>>, y) # << >> /\ Head(Append(<<x>>, y)) = x
         /\ <<x>> # << >> /\ <<x, y>> # << >>
<1>1. Append(<< >>, x) = <<x>>
  BY Z3
<1>2. Head(<<x>>) = x /\ Head(<<x, y>>) = x
  BY Z3
<1>3. Tail(<<x>>) = << >>
  BY Z3
<1>4. Tail(<<x, y>>) = <<y>>
  BY Z3
<1>5. Append(<<x>>, y) # << >> /\ Head(Append(<<x>>, y)) = x
  BY Z3
<1>6. <<x>> # << >> /\ <<x, y>> # << >>
  BY Z3
<1> QED
  BY <1>1, <1>2, <1>3, <1>4, <1>5, <1>6

LEMMA Joined ==
  ASSUME NEW s \in Seq(Replies)
  PROVE  << >> \o s = s
  OBVIOUS

-----------------------------------------------------------------------------
(* The steps of W and C.                                                   *)

LEMMA InitGood == Init => IInv
<1> SUFFICES ASSUME Init PROVE IInv
  OBVIOUS
<1>1. TypeOK
  <2>1. stream \in BOOLEAN /\ err \in BOOLEAN /\ streaming \in BOOLEAN
    BY Zenon DEF Init
  <2>2. asked \in Seq(Replies) /\ inbox \in Seq(Replies) /\ step \in 0..3
    BY DEF Init
  <2> QED
    BY <2>1, <2>2 DEF Init, TypeOK, States, Commands, Ops
<1>2. Holding /\ Descriptors
  BY DEF Init, Holding, Descriptors, Stable, Clean
<1>3. Pipe /\ LastDone /\ Waiting
  BY DEF Init, Pipe, LastDone, Waiting
<1> QED
  BY <1>1, <1>2, <1>3 DEF IInv

\* What T and bluetoothd keep does not change.
LEMMA SameThread ==
  ASSUME IInv, UNCHANGED <<data, mutex, thread, daemon>>
  PROVE  Holding' /\ Descriptors' /\ Pipe' /\ LastDone'
<1>1. Holding'
  BY DEF IInv, Holding, data, thread
<1>2. Descriptors'
  BY DEF IInv, Descriptors, Clean, data, thread, daemon
<1>3. Pipe'
  BY DEF IInv, Pipe, Clean, data, thread, daemon
<1>4. LastDone'
  BY DEF IInv, LastDone, data, thread
<1> QED
  BY <1>1, <1>2, <1>3, <1>4

\* A new command with the mutex free: T, which does not execute one, wakes up.
LEMMA CommandSet ==
  ASSUME IInv, mutex = "none", NEW c \in Commands, set_command(c),
         UNCHANGED <<state, stream, server, mutex, last, err, op, step, daemon>>
  PROVE  Holding' /\ Descriptors' /\ Pipe' /\ LastDone'
<1>1. op = "NONE" /\ tpc \in {"none", "wait", "woken"} /\ tpc' \in {"none", "woken"}
      /\ (tpc' = "woken" => tpc \in {"wait", "woken"})
  BY DEF IInv, Holding, TypeOK, set_command, SignalThread
<1>2. Holding'
  BY <1>1 DEF IInv, Holding
<1>3. Descriptors'
  BY <1>1 DEF IInv, Descriptors, Clean, daemon
<1>4. Pipe'
  BY <1>1 DEF IInv, Pipe, Clean, daemon
<1>5. LastDone'
  BY <1>1 DEF IInv, LastDone
<1> QED
  BY <1>2, <1>3, <1>4, <1>5

LEMMA CommandTypes ==
  ASSUME TypeOK, NEW c \in Commands, set_command(c)
  PROVE  command' \in Commands /\ tpc' \in {"none", "wait", "woken", "dispatch", "send", "recv"}
  BY DEF TypeOK, set_command, SignalThread

LEMMA WriteBeginsGood == IInv /\ WriteBegins => IInv'
<1> SUFFICES ASSUME IInv, WriteBegins PROVE IInv'
  OBVIOUS
<1>1. Holding' /\ Descriptors' /\ Pipe' /\ LastDone'
  BY SameThread DEF WriteBegins
<1>2. TypeOK'
  BY DEF IInv, TypeOK, WriteBegins, data, thread, daemon
<1>3. Waiting'
  BY DEF IInv, Waiting, WriteBegins
<1> QED
  BY <1>1, <1>2, <1>3 DEF IInv

LEMMA WriteEndsGood == IInv /\ (WriteEnds \/ WriteTimesOut) => IInv'
<1> SUFFICES ASSUME IInv, WriteEnds \/ WriteTimesOut PROVE IInv'
  OBVIOUS
<1>1. UNCHANGED <<data, mutex, thread, wstate, cpc, daemon>> /\ wpc' \in {"idle", "write"}
      /\ wpc # "idle"
  BY DEF WriteEnds, WriteTimesOut
<1>2. Holding' /\ Descriptors' /\ Pipe' /\ LastDone'
  BY <1>1, SameThread
<1>3. TypeOK'
  BY <1>1 DEF IInv, TypeOK, data, thread, daemon
<1>4. Waiting'
  BY <1>1 DEF IInv, Waiting
<1> QED
  BY <1>2, <1>3, <1>4 DEF IInv

\* One turn of the loop in wait_for_start.
LEMMA TurnGood ==
  ASSUME IInv, wpc # "idle", mutex = "none", NEW seen \in States, Turn(seen),
         UNCHANGED <<state, stream, server, mutex, last, err, op, step, cpc, daemon>>
  PROVE  IInv'
<1>1. CASE seen \in {"NONE", "INITIALIZED", "CONFIGURED"}
  <2> DEFINE c == CASE seen = "NONE" -> "INIT" [] seen = "INITIALIZED" -> "CONFIGURE"
                    [] seen = "CONFIGURED" -> "START"
  <2>1. set_command(c) /\ wpc' = "wait" /\ wstate' = seen
    BY <1>1 DEF Turn
  <2>2. c \in Commands /\ (seen = "INITIALIZED" => c = "CONFIGURE")
        /\ (seen = "CONFIGURED" => c = "START")
    BY <1>1 DEF Commands
  <2> HIDE DEF c
  <2>3. Holding' /\ Descriptors' /\ Pipe' /\ LastDone'
    BY <2>1, <2>2, CommandSet
  <2>4. TypeOK'
    <3>1. command' \in Commands
          /\ tpc' \in {"none", "wait", "woken", "dispatch", "send", "recv"}
      BY <2>1, <2>2, CommandTypes DEF IInv
    <3> QED
      BY <2>1, <3>1 DEF IInv, TypeOK, daemon
  <2>5. Waiting'
    BY <2>1, <2>2 DEF IInv, Waiting, set_command
  <2> QED
    BY <2>3, <2>4, <2>5 DEF IInv
<1>2. CASE seen \notin {"NONE", "INITIALIZED", "CONFIGURED"}
  <2>1. UNCHANGED <<data, mutex, thread, daemon>> /\ wstate' = seen /\ wpc' \in {"write", "wait"}
    BY <1>2 DEF Turn, data, thread
  <2>2. Holding' /\ Descriptors' /\ Pipe' /\ LastDone'
    BY <2>1, SameThread
  <2>3. TypeOK'
    BY <2>1 DEF IInv, TypeOK, data, thread, daemon
  <2>4. Waiting'
    BY <1>2, <2>1 DEF IInv, Waiting
  <2> QED
    BY <2>2, <2>3, <2>4 DEF IInv
<1> QED
  BY <1>1, <1>2

LEMMA WriteLocksGood == IInv /\ WriteLocks => IInv'
<1> SUFFICES ASSUME IInv, WriteLocks PROVE IInv'
  OBVIOUS
<1>1. wstate \in States
  BY DEF IInv, TypeOK
<1> QED
  BY <1>1, TurnGood DEF WriteLocks

LEMMA WriteWakesGood == IInv /\ WriteWakes => IInv'
<1> SUFFICES ASSUME IInv, WriteWakes PROVE IInv'
  OBVIOUS
<1>1. state \in States
  BY DEF IInv, TypeOK
<1>2. CASE state = wstate \/ state = "NONE"
  <2>1. UNCHANGED <<data, mutex, thread, daemon, cpc>> /\ wpc = "woken"
        /\ \/ wpc' = "wait" /\ wstate' = wstate
           \/ wpc' = "idle" /\ wstate' = "NONE"
    BY <1>2 DEF WriteWakes, data, thread
  <2>2. Holding' /\ Descriptors' /\ Pipe' /\ LastDone'
    BY <2>1, SameThread
  <2>3. TypeOK'
    BY <2>1 DEF IInv, TypeOK, data, thread, daemon, States
  <2>4. Waiting'
    BY <2>1 DEF IInv, Waiting, data
  <2> QED
    BY <2>2, <2>3, <2>4 DEF IInv
<1>3. CASE state # wstate /\ state # "NONE"
  <2>1. Turn(state) /\ wpc # "idle" /\ mutex = "none"
        /\ UNCHANGED <<state, stream, server, mutex, last, err, op, step, cpc, daemon>>
    BY <1>3 DEF WriteWakes
  <2> QED
    BY <1>1, <2>1, TurnGood
<1> QED
  BY <1>2, <1>3

LEMMA SpuriousGood == IInv /\ SpuriousWakeup => IInv'
<1> SUFFICES ASSUME IInv, SpuriousWakeup PROVE IInv'
  OBVIOUS
<1> USE DEF SpuriousWakeup, data, daemon
<1>1. TypeOK'
  BY DEF IInv, TypeOK
<1>2. Holding' /\ Waiting'
  BY DEF IInv, TypeOK, Holding, Waiting
<1>3. Descriptors'
  BY DEF IInv, Descriptors, Clean
<1>4. Pipe'
  BY DEF IInv, Pipe, Clean
<1>5. LastDone'
  BY DEF IInv, LastDone
<1> QED
  BY <1>1, <1>2, <1>3, <1>4, <1>5 DEF IInv

LEMMA ControlGood ==
  ASSUME IInv, NEW c \in Controls, Control(c)
  PROVE  IInv'
<1>1. c \in {"STOP", "INIT", "QUIT"}
  BY ControlsAssumption
<1>2. Holding' /\ Descriptors' /\ Pipe' /\ LastDone'
  BY SameThread DEF Control
<1>3. TypeOK'
  BY <1>1 DEF IInv, TypeOK, Control, data, thread, writer, daemon, Commands
<1>4. Waiting'
  BY <1>1 DEF IInv, Waiting, Control, data, writer
<1> QED
  BY <1>2, <1>3, <1>4 DEF IInv

LEMMA SetCommandGood == IInv /\ SetCommand => IInv'
<1> SUFFICES ASSUME IInv, SetCommand PROVE IInv'
  OBVIOUS
<1>1. cpc \in Commands
  BY DEF IInv, TypeOK, SetCommand
<1>2. Holding' /\ Descriptors' /\ Pipe' /\ LastDone'
  BY <1>1, CommandSet DEF SetCommand
<1>3. TypeOK'
  <2>1. command' \in Commands
        /\ tpc' \in {"none", "wait", "woken", "dispatch", "send", "recv"}
    BY <1>1, CommandTypes DEF IInv, SetCommand
  <2> QED
    BY <2>1 DEF IInv, TypeOK, SetCommand, writer, daemon
<1>4. Waiting'
  BY DEF IInv, Waiting, SetCommand, set_command, writer
<1> QED
  BY <1>2, <1>3, <1>4 DEF IInv

LEMMA InitLibGood == IInv /\ a2dp_init => IInv'
<1> SUFFICES ASSUME IInv, a2dp_init PROVE IInv'
  OBVIOUS
<1> USE DEF a2dp_init, writer, daemon
<1>1. TypeOK'
  BY DEF IInv, TypeOK, Commands
<1>2. Holding' /\ Waiting'
  BY DEF IInv, TypeOK, Holding, Waiting
<1>3. op = "NONE" /\ Descriptors'
  BY DEF IInv, Descriptors, Clean, Holding
<1>4. Pipe'
  BY <1>3 DEF IInv, Pipe, Clean
<1>5. LastDone'
  BY DEF IInv, LastDone
<1> QED
  BY <1>1, <1>2, <1>3, <1>4, <1>5 DEF IInv

-----------------------------------------------------------------------------
(* bluetoothd.                                                             *)

LEMMA DaemonGoneGood == IInv /\ DaemonGone => IInv'
<1> SUFFICES ASSUME IInv, DaemonGone PROVE IInv'
  OBVIOUS
<1> USE DEF DaemonGone, thread, writer
<1>1. TypeOK'
  <2>1. streaming' \in BOOLEAN
    BY Zenon
  <2>2. asked' \in Seq(Replies)
    OBVIOUS
  <2> QED
    BY <2>1, <2>2 DEF IInv, TypeOK
<1>2. Holding' /\ Waiting'
  BY DEF IInv, Holding, Waiting
<1>3. Descriptors'
  BY DEF IInv, Descriptors, Clean
<1>4. Pipe'
  BY DEF Pipe
<1>5. LastDone'
  BY DEF IInv, LastDone
<1> QED
  BY <1>1, <1>2, <1>3, <1>4, <1>5 DEF IInv

\* One request is taken and answered, START_STREAM by two messages.
LEMMA Answered ==
  ASSUME TypeOK, NEW ok \in BOOLEAN, DaemonAnswers(ok)
  PROVE  /\ asked' \in Seq(Replies) /\ inbox' \in Seq(Replies) /\ streaming' \in BOOLEAN
         /\ \A x \in Replies : asked = <<x>> /\ inbox = << >> =>
              /\ asked' = << >>
              /\ \/ inbox' = <<"ERROR">>
                 \/ x # "START_STREAM" /\ inbox' = <<x>>
                 \/ x = "START_STREAM" /\ inbox' = <<"START_STREAM", "NEW_STREAM">> /\ streaming'
         /\ inbox # << >> => inbox' # << >> /\ Head(inbox') = Head(inbox)
         /\ inbox = << >> /\ Head(asked) = "STOP_STREAM" =>
              inbox' # << >> /\ Head(inbox') \in Late
<1> DEFINE new == CASE ~ok -> <<"ERROR">>
                    [] ok /\ Head(asked) = "START_STREAM" -> Messages("START")
                    [] OTHER -> <<Head(asked)>>
<1>1. asked # << >> /\ asked' = Tail(asked) /\ inbox' = inbox \o new
      /\ asked \in Seq(Replies) /\ inbox \in Seq(Replies)
  BY DEF DaemonAnswers, TypeOK
<1>2. Head(asked) \in Replies /\ Tail(asked) \in Seq(Replies)
  BY <1>1
<1>3. \/ new = <<"ERROR">>
      \/ Head(asked) # "START_STREAM" /\ new = <<Head(asked)>>
      \/ Head(asked) = "START_STREAM" /\ ok /\ new = <<"START_STREAM", "NEW_STREAM">>
  BY Exchanges
<1> HIDE DEF new
<1>4. new \in Seq(Replies) /\ new # << >>
  <2>1. <<"ERROR">> \in Seq(Replies) /\ <<Head(asked)>> \in Seq(Replies)
        /\ <<"START_STREAM", "NEW_STREAM">> \in Seq(Replies)
    BY <1>2 DEF Replies
  <2>2. "ERROR" \in Replies /\ "START_STREAM" \in Replies /\ "NEW_STREAM" \in Replies
    BY DEF Replies
  <2>3. <<"ERROR">> # << >> /\ <<Head(asked)>> # << >>
        /\ <<"START_STREAM", "NEW_STREAM">> # << >>
    BY <1>2, <2>2, Singles
  <2> QED
    BY <1>3, <2>1, <2>3
<1>5. inbox' \in Seq(Replies)
  BY <1>1, <1>4
<1>6. streaming' \in BOOLEAN
  <2>1. CASE ok /\ Head(asked) = "START_STREAM"
    BY <2>1, Zenon DEF DaemonAnswers
  <2>2. CASE ok /\ Head(asked) = "STOP_STREAM"
    BY <2>2, Zenon DEF DaemonAnswers
  <2>3. CASE ~(ok /\ Head(asked) = "START_STREAM") /\ ~(ok /\ Head(asked) = "STOP_STREAM")
    BY <2>3 DEF DaemonAnswers, TypeOK
  <2> QED
    BY <2>1, <2>2, <2>3
<1>7. ASSUME NEW x \in Replies, asked = <<x>>, inbox = << >>
      PROVE  /\ asked' = << >>
             /\ \/ inbox' = <<"ERROR">>
                \/ x # "START_STREAM" /\ inbox' = <<x>>
                \/ x = "START_STREAM" /\ inbox' = <<"START_STREAM", "NEW_STREAM">> /\ streaming'
  <2>1. Head(asked) = x /\ Tail(asked) = << >>
    BY <1>7, Singles
  <2>2. inbox' = new
    BY <1>1, <1>4, <1>7, Joined
  <2>3. ok /\ x = "START_STREAM" => streaming'
    BY <2>1 DEF DaemonAnswers
  <2> QED
    BY <1>1, <1>3, <2>1, <2>2, <2>3
<1>8. inbox # << >> => inbox' # << >> /\ Head(inbox') = Head(inbox)
  <2> SUFFICES ASSUME inbox # << >> PROVE inbox' # << >> /\ Head(inbox') = Head(inbox)
    OBVIOUS
  <2>1. Len(inbox) > 0 /\ Len(inbox') = Len(inbox) + Len(new) /\ inbox'[1] = inbox[1]
    BY <1>1, <1>4
  <2> QED
    BY <1>1, <1>4, <1>5, <2>1
<1>9. inbox = << >> /\ Head(asked) = "STOP_STREAM" => inbox' # << >> /\ Head(inbox') \in Late
  <2> SUFFICES ASSUME inbox = << >>, Head(asked) = "STOP_STREAM"
               PROVE  inbox' # << >> /\ Head(inbox') \in Late
    OBVIOUS
  <2>1. inbox' = new
    BY <1>1, <1>4, Joined
  <2>2. new = <<"ERROR">> \/ new = <<"STOP_STREAM">>
    BY <1>3
  <2>3. "ERROR" \in Replies /\ "STOP_STREAM" \in Replies
    BY DEF Replies
  <2> QED
    BY <1>4, <2>1, <2>2, <2>3, Singles DEF Late
<1> QED
  BY <1>1, <1>2, <1>5, <1>6, <1>7, <1>8, <1>9

LEMMA DaemonAnswersGood ==
  ASSUME IInv, NEW ok \in BOOLEAN, DaemonAnswers(ok)
  PROVE  IInv'
<1>1. TypeOK
  BY DEF IInv
<1>2. asked # << >> /\ server = "up" /\ UNCHANGED <<data, mutex, thread, writer, cpc>>
  BY DEF DaemonAnswers
<1>3. TypeOK'
  BY <1>1, <1>2, Answered DEF TypeOK, data, thread, writer
<1>4. Holding' /\ Waiting'
  BY <1>2 DEF IInv, Holding, Waiting, data, thread, writer
<1>5. Descriptors'
  BY <1>2 DEF IInv, Descriptors, data, thread
<1>6. LastDone'
  BY <1>2 DEF IInv, LastDone, data, thread
<1>7. Pipe'
  <2> USE <1>2 DEF data, thread
  <2>1. op = "NONE" => state = "CONFIGURED"
    BY DEF IInv, Pipe, Clean, Descriptors, Stable
  <2>2. ~(op \in {"CONFIGURE", "STOP"} /\ tpc = "send")
    BY DEF IInv, Pipe, Clean
  <2>3. "STOP_STREAM" \in Replies /\ "START_STREAM" \in Replies
    BY DEF Replies
  <2>4. ASSUME (op = "NONE" /\ state = "CONFIGURED") \/ (op = "START" /\ tpc = "send")
        PROVE  asked' = << >> /\ \E x \in Late : inbox' = <<x>>
    <3>1. asked = <<"STOP_STREAM">> /\ inbox = << >>
      BY <2>4 DEF IInv, Pipe, Clean
    <3> QED
      BY <1>1, <2>3, <3>1, Answered DEF Late
  <2>5. ASSUME op \in {"CONFIGURE", "STOP"}, tpc = "recv"
        PROVE  asked' = << >> /\ \E x \in {Messages(op)[step], "ERROR"} : inbox' = <<x>>
    <3>1. asked = <<Messages(op)[step]>> /\ inbox = << >>
      BY <2>5 DEF IInv, Pipe
    <3>2. Messages(op)[step] \in Replies /\ Messages(op)[step] # "START_STREAM"
      <4>1. step \in {1, 2, 3} /\ (op = "STOP" => step = 1)
        BY <2>5 DEF IInv, Holding
      <4> QED
        BY <2>5, <4>1, Steps DEF Replies
    <3> QED
      BY <1>1, <3>1, <3>2, Answered
  <2>6. ASSUME op = "START", tpc = "recv", step = 1
        PROVE  \/ asked' = << >> /\ inbox' = <<"START_STREAM", "NEW_STREAM">> /\ streaming'
               \/ inbox' # << >> /\ Head(inbox') \in Late
    <3>1. CASE asked = <<"START_STREAM">> /\ inbox = << >>
      <4>1. "ERROR" \in Replies
        BY DEF Replies
      <4> QED
        BY <1>1, <2>3, <3>1, <4>1, Answered, Singles DEF Late
    <3>2. CASE inbox # << >> /\ Head(inbox) \in Late
      BY <1>1, <3>2, Answered
    <3>3. CASE inbox = << >> /\ Head(asked) = "STOP_STREAM"
      BY <1>1, <3>3, Answered
    <3> QED
      BY <2>6, <3>1, <3>2, <3>3 DEF IInv, Pipe
  <2>7. ~(op = "START" /\ tpc = "recv" /\ step = 2)
    BY DEF IInv, Pipe
  <2> QED
    BY <2>1, <2>2, <2>4, <2>5, <2>6, <2>7 DEF Pipe
<1> QED
  BY <1>3, <1>4, <1>5, <1>6, <1>7 DEF IInv

-----------------------------------------------------------------------------
(* The steps of T.                                                         *)

\* What holds while T executes a command and messages are exchanged.
LEMMA Exchanging ==
  ASSUME IInv, op # "NONE"
  PROVE  /\ op \in {"CONFIGURE", "START", "STOP", "CLOSE"} /\ tpc \in {"send", "recv"}
         /\ mutex = "T" /\ command = last /\ server \in {"up", "down"}
         /\ step \in 1..3
  BY DEF IInv, TypeOK, Ops, Holding, Descriptors

\* Whether or not W is told, it waits for the same thing.
LEMMA ClientTold ==
  ASSUME IInv, UNCHANGED <<command, wstate, cpc>>, SignalClient \/ UNCHANGED wpc
  PROVE  Waiting' /\ wpc' \in {"idle", "lock", "wait", "woken", "write"}
  BY DEF IInv, TypeOK, Waiting, SignalClient

\* Types of what EndCommand leaves.
LEMMA EndTypes ==
  ASSUME IInv, NEW failed \in BOOLEAN, EndCommand(failed)
  PROVE  /\ err' \in BOOLEAN /\ last' \in Commands /\ op' \in Ops /\ step' \in 0..3
         /\ tpc' = "wait" /\ mutex' = "none" /\ op' = "NONE"
         /\ last' \in {last, "NONE"} /\ (failed => last' = "NONE")
         /\ Holding'
<1>1. err' \in BOOLEAN
  BY DEF EndCommand
<1>2. op' = "NONE" /\ step' = 0 /\ tpc' = "wait" /\ mutex' = "none"
      /\ last' = (IF failed THEN "NONE" ELSE last)
  BY DEF EndCommand
<1> QED
  BY <1>1, <1>2 DEF IInv, TypeOK, Commands, Ops, Holding

\* The connection is closed, for good or with an error.
LEMMA DroppedGood ==
  ASSUME IInv, tpc \in {"dispatch", "send", "recv"}, state' = "NONE", Disconnect,
         UNCHANGED <<command, wstate, cpc>>, SignalClient \/ UNCHANGED wpc,
         \/ EndCommand(TRUE)
         \/ /\ tpc' = "none" /\ mutex' = "none" /\ op' = "NONE" /\ step' = 0
            /\ UNCHANGED <<last, err>>
  PROVE  IInv'
<1>1. Waiting' /\ wpc' \in {"idle", "lock", "wait", "woken", "write"}
  BY ClientTold
<1>2. /\ err' \in BOOLEAN /\ last' \in Commands /\ op' = "NONE" /\ step' \in 0..3
      /\ tpc' \in {"none", "wait"} /\ mutex' = "none"
      /\ (tpc' = "wait" => last' = "NONE")
      /\ Holding'
  <2>1. CASE EndCommand(TRUE)
    BY <2>1, EndTypes
  <2>2. CASE /\ tpc' = "none" /\ mutex' = "none" /\ op' = "NONE" /\ step' = 0
             /\ UNCHANGED <<last, err>>
    BY <2>2 DEF IInv, TypeOK, Holding
  <2> QED
    BY <2>1, <2>2
<1>3. /\ stream' \in BOOLEAN /\ ~stream' /\ server' = "closed"
      /\ asked' = << >> /\ inbox' = << >> /\ streaming' \in BOOLEAN
  BY Zenon DEF Disconnect
<1>4. TypeOK'
  <2>1. asked' \in Seq(Replies) /\ inbox' \in Seq(Replies)
    BY <1>3
  <2> QED
    BY <1>1, <1>2, <1>3, <2>1 DEF IInv, TypeOK, States, Ops
<1>5. Descriptors'
  BY <1>2, <1>3 DEF Descriptors, Stable, Clean
<1>6. Pipe'
  BY <1>3 DEF Pipe
<1>7. LastDone'
  BY <1>2 DEF LastDone, Needs
<1> QED
  BY <1>1, <1>2, <1>4, <1>5, <1>6, <1>7 DEF IInv

LEMMA ClosedGood ==
  ASSUME IInv, tpc \in {"dispatch", "send", "recv"}, Closed,
         UNCHANGED <<command, wstate, cpc>>
  PROVE  IInv'
<1>1. state' = "NONE" /\ Disconnect
  BY DEF Closed
<1>2. CASE last = "QUIT"
  BY <1>1, <1>2, DroppedGood DEF Closed
<1>3. CASE last # "QUIT"
  BY <1>1, <1>3, DroppedGood DEF Closed
<1> QED
  BY <1>2, <1>3

LEMMA ResetGood == IInv /\ Reset => IInv'
<1> SUFFICES ASSUME IInv, Reset PROVE IInv'
  OBVIOUS
<1>1. CASE op = "CLOSE"
  BY <1>1, ClosedGood DEF Reset
<1>2. CASE op # "CLOSE"
  BY <1>2, DroppedGood DEF Reset
<1> QED
  BY <1>1, <1>2

\* T begins to close the connection.
LEMMA CloseBegins ==
  ASSUME IInv, tpc \in {"dispatch", "send", "recv"}, server # "closed", Begin("CLOSE"),
         UNCHANGED <<data, mutex, last, err, writer, cpc, streaming>>,
         asked' = asked, inbox' \in Seq(Replies)
  PROVE  IInv'
<1> USE DEF Begin, data, writer
<1>1. TypeOK'
  BY DEF IInv, TypeOK, Ops
<1>2. Holding' /\ Waiting'
  BY DEF IInv, Holding, Waiting
<1>3. Descriptors'
  BY DEF IInv, Descriptors
<1>4. Pipe'
  BY DEF Pipe
<1>5. LastDone'
  BY DEF LastDone
<1> QED
  BY <1>1, <1>2, <1>3, <1>4, <1>5 DEF IInv

LEMMA QuitGood == IInv /\ Quit => IInv'
<1> SUFFICES ASSUME IInv, Quit PROVE IInv'
  OBVIOUS
<1>1. CASE server = "closed"
  BY <1>1, ClosedGood DEF Quit
<1>2. CASE server # "closed"
  BY <1>2, CloseBegins DEF Quit, daemon, IInv, TypeOK
<1> QED
  BY <1>1, <1>2

\* An exchange fails: n is what is left in the inbox.
LEMMA FailsGood ==
  ASSUME IInv, tpc = "recv", op # "CLOSE", Fails, UNCHANGED <<command, wstate, cpc, asked>>,
         \/ inbox = << >> /\ inbox' = << >>
         \/ inbox # << >> /\ inbox' = Tail(inbox)
  PROVE  IInv'
<1>1. op \in {"CONFIGURE", "START", "STOP"} /\ server \in {"up", "down"} /\ command = last
  BY Exchanging DEF IInv, Holding
<1>2. inbox' \in Seq(Replies)
  BY DEF IInv, TypeOK
<1>3. CASE op \in {"CONFIGURE", "START"}
  <2>1. Begin("CLOSE") /\ UNCHANGED <<state, stream, server, mutex, last, err, wpc, streaming>>
    BY <1>3 DEF Fails
  <2> QED
    BY <1>1, <1>2, <2>1, CloseBegins DEF data, writer
<1>4. CASE op = "STOP"
  <2>1. state' = "CONFIGURED" /\ SignalClient /\ EndCommand(TRUE)
        /\ UNCHANGED <<stream, server, streaming>>
    BY <1>4 DEF Fails
  <2>2. Waiting' /\ wpc' \in {"idle", "lock", "wait", "woken", "write"}
    BY <2>1, ClientTold
  <2>3. TypeOK' /\ Holding' /\ op' = "NONE" /\ last' = "NONE"
    BY <1>2, <2>1, <2>2, EndTypes DEF IInv, TypeOK, States
  <2>4. Descriptors'
    BY <1>1, <1>4, <2>1, <2>3 DEF IInv, Descriptors, Stable
  <2>5. Pipe'
    <3> SUFFICES ASSUME server' = "up" PROVE Pipe'
      BY DEF Pipe
    <3>1. \/ asked = <<"STOP_STREAM">> /\ inbox = << >>
          \/ asked = << >> /\ \E x \in Late : inbox = <<x>>
      <4>1. step = 1 /\ server = "up"
        BY <1>4, <2>1 DEF IInv, Holding
      <4>2. Messages(op)[step] = "STOP_STREAM"
        BY <1>4, <4>1, Steps
      <4> QED
        BY <1>4, <4>1, <4>2 DEF IInv, Pipe, Late
    <3>2. \/ asked' = <<"STOP_STREAM">> /\ inbox' = << >>
          \/ asked' = << >> /\ inbox' = << >>
      BY <3>1, Singles DEF Late, Replies
    <3> QED
      BY <2>1, <2>3, <3>2 DEF Pipe, Clean
  <2>6. LastDone'
    BY <1>1, <1>4, <2>1, <2>3, EndTypes DEF LastDone, IInv, Descriptors
  <2> QED
    BY <2>2, <2>3, <2>4, <2>5, <2>6 DEF IInv
<1> QED
  BY <1>1, <1>3, <1>4

LEMMA ReceiveBadGood == IInv /\ (ReceiveBad \/ ReceiveTimeout) => IInv'
<1> SUFFICES ASSUME IInv, ReceiveBad \/ ReceiveTimeout PROVE IInv'
  OBVIOUS
<1>1. tpc = "recv" /\ UNCHANGED <<command, wstate, cpc>>
  BY DEF ReceiveBad, ReceiveTimeout
<1>2. CASE op = "CLOSE"
  BY <1>1, <1>2, ClosedGood DEF ReceiveBad, ReceiveTimeout
<1>3. CASE op # "CLOSE"
  BY <1>1, <1>3, FailsGood DEF ReceiveBad, ReceiveTimeout
<1> QED
  BY <1>2, <1>3

LEMMA IgnoreGood == IInv /\ Ignore => IInv'
<1> SUFFICES ASSUME IInv, Ignore PROVE IInv'
  OBVIOUS
<1>1. tpc = "dispatch" /\ command = last /\ op = "NONE"
      /\ UNCHANGED <<data, writer, cpc, daemon>> /\ EndCommand(err) /\ err \in BOOLEAN
  BY DEF Ignore, IInv, TypeOK, Holding
<1>2. /\ err' \in BOOLEAN /\ last' \in Commands /\ op' = "NONE" /\ step' \in 0..3
      /\ tpc' = "wait" /\ mutex' = "none" /\ Holding'
      /\ last' \in {last, "NONE"} /\ (err => last' = "NONE")
  BY <1>1, EndTypes
<1>3. TypeOK'
  BY <1>1, <1>2 DEF IInv, TypeOK, data, writer, daemon, Ops
<1>4. Waiting'
  BY <1>1 DEF IInv, Waiting, data, writer
<1>5. Descriptors'
  BY <1>1, <1>2 DEF IInv, Descriptors, Clean, data, daemon
<1>6. Pipe'
  BY <1>1, <1>2 DEF IInv, Pipe, Clean, data, daemon
<1>7. LastDone'
  <2>1. state = "NONE" => err
    BY <1>1 DEF IInv, LastDone, Ignore
  <2>2. last \in {"CONFIGURE", "START"} => state # Needs(last)
    BY DEF Ignore
  <2> QED
    BY <1>1, <1>2, <2>1, <2>2 DEF LastDone, data
<1> QED
  BY <1>2, <1>3, <1>4, <1>5, <1>6, <1>7 DEF IInv

LEMMA ExecuteGood == IInv /\ Execute => IInv'
<1> SUFFICES ASSUME IInv, Execute PROVE IInv'
  OBVIOUS
<1>1. /\ tpc = "dispatch" /\ op = "NONE" /\ command = last /\ mutex = "T"
      /\ last \in {"CONFIGURE", "START", "STOP"} /\ state = Needs(last)
      /\ state' = During(last) /\ op' = last /\ step' = 1 /\ tpc' = "send"
      /\ UNCHANGED <<command, server, mutex, last, err, writer, cpc, daemon>>
  BY DEF Execute, Begin, IInv, Holding
<1>2. stream' \in BOOLEAN /\ ~stream'
  <2>1. CASE last = "STOP"
    BY <2>1, Zenon DEF Execute
  <2>2. CASE last # "STOP"
    <3>1. state # "STARTED"
      BY <1>1, <2>2 DEF Needs
    <3> QED
      BY <1>1, <2>2, <3>1 DEF Execute, IInv, TypeOK, Descriptors
  <2> QED
    BY <2>1, <2>2
<1>3. state' \in States
  BY <1>1 DEF During, States
<1>4. TypeOK'
  BY <1>1, <1>2, <1>3 DEF IInv, TypeOK, Ops, writer, daemon
<1>5. Holding' /\ Waiting'
  BY <1>1 DEF IInv, Holding, Waiting, writer
<1>6. Descriptors'
  <2>1. server # "closed"
    BY <1>1 DEF IInv, Descriptors, Needs
  <2> QED
    BY <1>1, <1>2, <2>1 DEF IInv, Descriptors, Clean, daemon
<1>7. Pipe'
  <2> SUFFICES ASSUME server = "up" PROVE Pipe'
    BY <1>1 DEF Pipe
  <2>1. CASE last = "START"
    BY <1>1, <2>1 DEF IInv, Pipe, Clean, daemon, Needs
  <2>2. CASE last \in {"CONFIGURE", "STOP"}
    <3>1. Clean
      BY <1>1, <2>2 DEF IInv, Pipe, Needs
    <3> QED
      BY <1>1, <2>2, <3>1 DEF Pipe, Clean, daemon
  <2> QED
    BY <1>1, <2>1, <2>2
<1>8. LastDone'
  BY <1>1 DEF LastDone
<1> QED
  BY <1>4, <1>5, <1>6, <1>7, <1>8 DEF IInv

LEMMA SendGood == IInv /\ Send => IInv'
<1> SUFFICES ASSUME IInv, Send PROVE IInv'
  OBVIOUS
<1> DEFINE m == Messages(op)[step]
<1>1. /\ tpc = "send" /\ server = "up" /\ asked' = Append(asked, m) /\ tpc' = "recv"
      /\ UNCHANGED <<data, mutex, last, err, op, step, writer, cpc, inbox, streaming>>
  BY DEF Send
<1>2. op # "NONE"
  BY <1>1 DEF IInv, Holding
<1>3. m \in Replies
  BY <1>2, MessageType DEF IInv
<1> HIDE DEF m
<1>4. TypeOK'
  <2>1. asked' \in Seq(Replies)
    BY <1>1, <1>3 DEF IInv, TypeOK
  <2> QED
    BY <1>1, <2>1 DEF IInv, TypeOK, data, writer
<1>5. Holding' /\ Waiting'
  BY <1>1 DEF IInv, Holding, Waiting, data, writer
<1>6. Descriptors'
  BY <1>1, <1>2 DEF IInv, Descriptors, data
<1>7. LastDone'
  BY <1>1 DEF LastDone
<1>8. Pipe'
  <2>1. CASE op \in {"CONFIGURE", "STOP"}
    <3>1. asked' = <<m>> /\ inbox' = << >>
      BY <1>1, <1>3, <2>1, Singles DEF IInv, Pipe, Clean
    <3> QED
      BY <1>1, <2>1, <3>1 DEF Pipe, m
  <2>2. CASE op = "START"
    <3>1. step = 1 /\ m = "START_STREAM"
      <4>1. step = 1
        BY <1>1, <2>2 DEF IInv, Holding
      <4> QED
        BY <2>2, <4>1, Steps DEF m
    <3>2. "STOP_STREAM" \in Replies /\ "ERROR" \in Replies
      BY DEF Replies
    <3>3. CASE Clean
      <4>1. asked' = <<"START_STREAM">> /\ inbox' = << >>
        BY <1>1, <1>3, <3>1, <3>3, Singles DEF Clean
      <4>2. op' = "START" /\ tpc' = "recv" /\ step' = 1
        BY <1>1, <2>2, <3>1
      <4>3. step' # 2
        BY <4>2
      <4> QED
        BY <4>1, <4>2, <4>3 DEF Pipe
    <3>4. CASE asked = <<"STOP_STREAM">> /\ inbox = << >>
      <4>1. asked' # << >> /\ Head(asked') = "STOP_STREAM" /\ inbox' = << >>
        BY <1>1, <1>3, <3>2, <3>4, Singles
      <4> QED
        BY <1>1, <2>2, <3>1, <4>1 DEF Pipe
    <3>5. CASE \E x \in Late : inbox = <<x>>
      <4>1. inbox' # << >> /\ Head(inbox') \in Late
        BY <1>1, <3>2, <3>5, Singles DEF Late
      <4> QED
        BY <1>1, <2>2, <3>1, <4>1 DEF Pipe
    <3> QED
      BY <1>1, <2>2, <3>3, <3>4, <3>5 DEF IInv, Pipe
  <2>3. CASE op = "CLOSE"
    BY <1>1, <2>3 DEF Pipe
  <2> QED
    BY <1>2, <2>1, <2>2, <2>3, Exchanging
<1> QED
  BY <1>4, <1>5, <1>6, <1>7, <1>8 DEF IInv

\* The next step of an exchange that has several.
LEMMA NextMessageGood ==
  ASSUME IInv, tpc = "recv", Expected, NextMessage, UNCHANGED <<command, wstate, cpc>>
  PROVE  IInv'
<1>1. /\ tpc = "recv" /\ step' = step + 1 /\ tpc' = (IF op = "START" THEN "recv" ELSE "send")
      /\ inbox' = Tail(inbox)
      /\ UNCHANGED <<command, wstate, cpc, state, stream, server, mutex, last, err, op, wpc,
                     asked, streaming>>
  BY DEF NextMessage
<1>2. Expected /\ op # "NONE"
  BY DEF IInv, Holding
<1>3. (op = "CONFIGURE" /\ step \in {1, 2}) \/ (op = "START" /\ step = 1)
  <2> DEFINE n == Len(Messages(op))
  <2>1. (op = "CONFIGURE" => n = 3) /\ (op = "START" => n = 2) /\ (op = "STOP" => n = 1)
    BY Steps
  <2>2. step < n /\ op # "CLOSE"
    BY DEF NextMessage
  <2> HIDE DEF n
  <2> QED
    BY <1>2, <2>1, <2>2, Exchanging
<1>4. TypeOK'
  <2>1. inbox' \in Seq(Replies)
    BY <1>1, <1>2 DEF IInv, TypeOK, Expected
  <2> QED
    BY <1>1, <1>3, <2>1 DEF IInv, TypeOK
<1>5. Holding' /\ Waiting'
  BY <1>1, <1>3 DEF IInv, Holding, Waiting
<1>6. Descriptors'
  BY <1>1, <1>2 DEF IInv, Descriptors
<1>7. LastDone'
  BY <1>1 DEF LastDone
<1>8. Pipe'
  <2> SUFFICES ASSUME server = "up" PROVE Pipe'
    BY <1>1 DEF Pipe
  <2>1. CASE op = "CONFIGURE"
    <3>1. Messages(op)[step] \in Replies /\ "ERROR" \in Replies
      BY <1>2, MessageType DEF IInv, Replies
    <3>2. asked = << >> /\ \E x \in {Messages(op)[step], "ERROR"} : inbox = <<x>>
      BY <1>1, <1>2, <2>1 DEF IInv, Pipe, Expected
    <3>3. inbox' = << >>
      BY <1>1, <3>1, <3>2, Singles
    <3> QED
      BY <1>1, <2>1, <3>2, <3>3 DEF Pipe, Clean
  <2>2. CASE op = "START"
    <3>1. step = 1 /\ Head(inbox) = "START_STREAM" /\ inbox # << >>
      BY <1>2, <1>3, <2>2, Steps DEF Expected
    <3>2. asked = << >> /\ inbox = <<"START_STREAM", "NEW_STREAM">> /\ streaming
      BY <1>1, <2>2, <3>1 DEF IInv, Pipe, Late
    <3>3. inbox' = <<"NEW_STREAM">>
      BY <1>1, <3>2, Singles DEF Replies
    <3> QED
      BY <1>1, <2>2, <3>1, <3>2, <3>3 DEF Pipe
  <2> QED
    BY <1>3, <2>1, <2>2
<1> QED
  BY <1>4, <1>5, <1>6, <1>7, <1>8 DEF IInv

\* The last answer: the command has succeeded.
LEMMA LastMessageGood ==
  ASSUME IInv, tpc = "recv", Expected, LastMessage, UNCHANGED <<command, wstate, cpc>>
  PROVE  IInv'
<1>1. /\ tpc = "recv" /\ state' = (IF op = "START" THEN "STARTED" ELSE "CONFIGURED")
      /\ inbox' = Tail(inbox) /\ SignalClient /\ EndCommand(FALSE)
      /\ UNCHANGED <<command, wstate, cpc, server, asked, streaming>>
  BY DEF LastMessage
<1>2. op # "NONE" /\ op # "CLOSE" /\ command = last /\ last = op
  BY Exchanging DEF LastMessage, IInv, TypeOK, Ops, Holding, Descriptors
<1>3. op = "CONFIGURE" \/ (op = "START" /\ step = 2) \/ op = "STOP"
  <2> DEFINE n == Len(Messages(op))
  <2>1. op = "START" => n = 2
    BY Steps
  <2>2. step = n
    BY DEF LastMessage
  <2> HIDE DEF n
  <2> QED
    BY <1>2, <2>1, <2>2, Exchanging
<1>4. Waiting' /\ wpc' \in {"idle", "lock", "wait", "woken", "write"}
  BY <1>1, ClientTold
<1>5. /\ err' \in BOOLEAN /\ last' \in Commands /\ op' = "NONE" /\ step' \in 0..3
      /\ tpc' = "wait" /\ mutex' = "none" /\ Holding' /\ last' \in {last, "NONE"}
  BY <1>1, EndTypes
<1>6. stream' \in BOOLEAN /\ (stream' <=> op = "START")
  BY DEF LastMessage
<1>7. TypeOK'
  <2>1. inbox' \in Seq(Replies)
    BY <1>1, <1>2 DEF IInv, TypeOK, Expected
  <2> QED
    BY <1>1, <1>4, <1>5, <1>6, <2>1 DEF IInv, TypeOK, States, Ops
<1>8. Descriptors'
  <2>1. server # "closed"
    BY <1>2, Exchanging
  <2> QED
    BY <1>1, <1>5, <1>6, <2>1 DEF IInv, Descriptors, Stable
<1>9. LastDone'
  BY <1>1, <1>2, <1>3, <1>5 DEF LastDone, Needs
<1>10. Pipe'
  <2> SUFFICES ASSUME server = "up" PROVE Pipe'
    BY <1>1 DEF Pipe
  <2>1. CASE op \in {"CONFIGURE", "STOP"}
    <3>1. Messages(op)[step] \in Replies /\ "ERROR" \in Replies
      BY <1>2, MessageType DEF IInv, Replies
    <3>2. asked = << >> /\ \E x \in {Messages(op)[step], "ERROR"} : inbox = <<x>>
      BY <1>1, <1>2, <2>1 DEF IInv, Pipe, Expected
    <3>3. inbox' = << >>
      BY <1>1, <3>1, <3>2, Singles
    <3> QED
      BY <1>1, <1>5, <2>1, <3>2, <3>3 DEF Pipe, Clean
  <2>2. CASE op = "START"
    <3>1. asked = << >> /\ inbox = <<"NEW_STREAM">> /\ streaming
      BY <1>1, <1>3, <2>2 DEF IInv, Pipe
    <3>2. inbox' = << >>
      BY <1>1, <3>1, Singles DEF Replies
    <3> QED
      BY <1>1, <1>5, <2>2, <3>1, <3>2 DEF Pipe, Clean
  <2> QED
    BY <1>3, <2>1, <2>2
<1> QED
  BY <1>4, <1>5, <1>7, <1>8, <1>9, <1>10 DEF IInv

LEMMA ReceiveGood == IInv /\ Receive => IInv'
  BY NextMessageGood, LastMessageGood, ClosedGood DEF Receive

LEMMA ThreadWakesGood ==
  ASSUME IInv, NEW ok \in BOOLEAN, ThreadWakes(ok)
  PROVE  IInv'
<1>1. /\ tpc = "woken" /\ op = "NONE" /\ last' = command
      /\ UNCHANGED <<command, stream, op, step, writer, cpc, daemon>>
  BY DEF ThreadWakes, IInv, Holding
<1>2. \/ /\ state = "NONE" /\ server = "closed" /\ state' = "INITIALIZED" /\ server' = "up"
      \/ /\ UNCHANGED <<state, server>>
         /\ state = "NONE" /\ command # "QUIT" => err'
  BY <1>1 DEF ThreadWakes, IInv, Descriptors
<1>3. err' \in BOOLEAN
  BY DEF ThreadWakes, IInv, TypeOK
<1>4. \/ last # command /\ tpc' = "dispatch" /\ mutex' = "T"
      \/ last = command /\ tpc' = "wait" /\ mutex' = "none"
  BY DEF ThreadWakes
<1>5. TypeOK'
  BY <1>1, <1>2, <1>3, <1>4 DEF IInv, TypeOK, States, writer, daemon
<1>6. Holding' /\ Waiting'
  BY <1>1, <1>4 DEF IInv, Holding, Waiting, writer
<1>7. Descriptors'
  BY <1>1, <1>2 DEF IInv, Descriptors, Clean, Stable, daemon
<1>8. Pipe'
  <2>1. server = "closed" => Clean
    BY DEF IInv, Descriptors
  <2> QED
    BY <1>1, <1>2, <2>1 DEF IInv, Pipe, Clean, daemon
<1>9. LastDone'
  <2>1. state = "NONE" => last = "NONE"
    BY <1>1 DEF IInv, LastDone
  <2>2. CASE tpc' = "dispatch"
    BY <1>1, <1>2, <2>2 DEF LastDone
  <2>3. CASE tpc' = "wait"
    BY <1>1, <1>2, <1>4, <2>1, <2>3 DEF IInv, LastDone, Needs
  <2> QED
    BY <1>4, <2>2, <2>3
<1> QED
  BY <1>5, <1>6, <1>7, <1>8, <1>9 DEF IInv

-----------------------------------------------------------------------------

LEMMA NextGood == IInv /\ [Next]_vars => IInv'
<1> SUFFICES ASSUME IInv, [Next]_vars PROVE IInv'
  OBVIOUS
<1>1. CASE ThreadNext
  BY <1>1, ThreadWakesGood, ExecuteGood, IgnoreGood, QuitGood, SendGood, ResetGood, ReceiveGood,
     ReceiveBadGood DEF ThreadNext
<1>2. CASE WriterNext
  BY <1>2, WriteBeginsGood, WriteLocksGood, WriteWakesGood, WriteEndsGood DEF WriterNext
<1>3. CASE SpuriousWakeup \/ a2dp_init \/ SetCommand
  BY <1>3, SpuriousGood, InitLibGood, SetCommandGood
<1>4. CASE \E c \in Controls : Control(c)
  BY <1>4, ControlGood
<1>5. CASE (\E ok \in BOOLEAN : DaemonAnswers(ok)) \/ DaemonGone
  BY <1>5, DaemonAnswersGood, DaemonGoneGood
<1>6. CASE UNCHANGED vars
  <2>1. Holding' /\ Descriptors' /\ Pipe' /\ LastDone'
    BY <1>6, SameThread DEF vars
  <2>2. TypeOK' /\ Waiting'
    BY <1>6 DEF IInv, TypeOK, Waiting, vars, data, thread, writer, daemon
  <2> QED
    BY <2>1, <2>2 DEF IInv
<1> QED
  BY <1>1, <1>2, <1>3, <1>4, <1>5, <1>6 DEF Next

LEMMA Invariance == Spec => []IInv
  BY InitGood, NextGood, PTL DEF Spec

\* State, descriptors and bluetoothd agree whenever a2dp_thread has finished
\* a command, whichever exchange failed, timed out or was reset, and no writer
\* waits in wait_for_start for a command that the thread will not execute.
THEOREM ConsistentTheorem == Spec => []Consistent
<1>1. IInv => Consistent
  <2> SUFFICES ASSUME IInv PROVE Consistent
    OBVIOUS
  <2>1. FdsMatchState
    <3>1. tpc \in {"none", "wait", "woken"} => op = "NONE"
      BY DEF IInv, Holding
    <3> QED
      BY <3>1 DEF IInv, Descriptors, Stable, FdsMatchState
  <2>2. DaemonAgrees
    BY DEF IInv, Pipe, Clean, DaemonAgrees
  <2>3. Served
    BY DEF IInv, Waiting, LastDone, Needs, Served
  <2> QED
    BY <2>1, <2>2, <2>3 DEF IInv, Consistent
<1> QED
  BY <1>1, Invariance, PTL

-----------------------------------------------------------------------------
(* The audio HAL.                                                          *)

Sizes == BufSize \in Nat \ {0} /\ MaxWrite \in Nat /\ MaxRetries \in Nat

\* The two indexes, and what lies between them.
Between == /\ rd \in 0..BufSize - 1 /\ wr \in 0..BufSize - 1 /\ ready \in 0..BufSize
           /\ wr = rd + ready \/ wr + BufSize = rd + ready

\* What B writes, or has still to write, is ready and contiguous.
Contiguous == /\ bframes <= ready /\ rd + bframes <= BufSize
              /\ bframes > 0 => bpc \in {"write", "again"}

\* Who put the stream in standby during a write is waiting for its end, or gave up.
Standing == /\ write_busy <=> bpc = "write"
            /\ bpc = "write" /\ standby =>
                 \/ fpc = "standby"
                 \/ apc \in {"disable", "close"} /\ ~bt_enabled
                 \/ apc \in {"suspend", "resume"}
                 \/ "gaveup" \in hasty

RingInv == HwTypeOK /\ Between /\ Contiguous /\ Standing /\ "reset" \notin hasty

\* The last state: out_write has reset the indexes under a2dp_write.
Torn == HwTypeOK /\ Between /\ "reset" \in hasty /\ ResetOnly

Copying == fpc \in {"copy", "space", "woken", "pause"}

Unkept == {"second", "gaveup", "enabled"} \cap hasty # {}

\* A stream that is not in standby and has frames has a library.
LibInv ==
  /\ bpc = "write" => lib \/ Unkept
  /\ ~lib /\ "enabled" \notin hasty => standby \/ (ready = 0 /\ ~Copying)
  /\ ~lib /\ "enabled" \notin hasty /\ Copying => ~bt_enabled
  /\ apc \in {"disable", "close"} => standby /\ ~bt_enabled

-----------------------------------------------------------------------------
(* The arithmetic of the ring.                                             *)

\* n frames in at the write index, which does not pass the end of the buffer.
LEMMA FramesIn ==
  ASSUME Sizes, NEW r \in 0..BufSize - 1, NEW x \in 0..BufSize - 1, NEW k \in 0..BufSize,
         x = r + k \/ x + BufSize = r + k,
         NEW n \in Nat, n <= BufSize - k, n <= BufSize - x
  PROVE  /\ Wrap(x + n) \in 0..BufSize - 1 /\ k + n \in 0..BufSize
         /\ Wrap(x + n) = r + (k + n) \/ Wrap(x + n) + BufSize = r + (k + n)
  BY DEF Sizes, Wrap

\* n frames out at the read index.
LEMMA FramesOut ==
  ASSUME Sizes, NEW r \in 0..BufSize - 1, NEW x \in 0..BufSize - 1, NEW k \in 0..BufSize,
         x = r + k \/ x + BufSize = r + k,
         NEW n \in Nat, n <= k, r + n <= BufSize
  PROVE  /\ Wrap(r + n) \in 0..BufSize - 1 /\ k - n \in 0..BufSize
         /\ x = Wrap(r + n) + (k - n) \/ x + BufSize = Wrap(r + n) + (k - n)
         /\ \A m \in Nat : m + n <= k /\ r + (m + n) <= BufSize =>
              m <= k - n /\ Wrap(r + n) + m <= BufSize
  BY DEF Sizes, Wrap

\* B has nothing left to write.
LEMMA NothingLeft ==
  ASSUME Sizes
  PROVE  \A r \in 0..BufSize - 1, k \in 0..BufSize, b \in {0} :
           b <= k /\ r + b <= BufSize /\ ~(b > 0) /\ b \in 0..BufSize
  BY DEF Sizes

\* The linear form of the relation between the indexes gives the modular one.
LEMMA Modular ==
  ASSUME NEW N \in Nat \ {0}, NEW x \in 0..N - 1, NEW y \in Nat, x = y \/ x + N = y
  PROVE  y % N = x % N
  OBVIOUS

-----------------------------------------------------------------------------
(* The ring.                                                               *)

LEMMA CallsAre ==
  ASSUME NEW c \in Calls PROVE c \in {"suspend", "resume", "disable", "close"}
  BY DEF Calls

\* Who does not wait is noted, and only that.
LEMMA Hurried ==
  ASSUME hasty \subseteq Haste, NEW why \in Haste, Hurry(why)
  PROVE  /\ hasty' \subseteq Haste /\ hasty \subseteq hasty' /\ hasty' \subseteq hasty \cup {why}
         /\ write_busy => why \in hasty'
         /\ ~write_busy => hasty' = hasty
  BY DEF Hurry

LEMMA Minima ==
  ASSUME RingInv, Sizes
  PROVE  /\ _out_frames_available \in Nat /\ _out_frames_available <= BufSize - ready
         /\ _out_frames_available <= BufSize - wr
         /\ _out_frames_ready \in Nat /\ _out_frames_ready <= ready
         /\ rd + _out_frames_ready <= BufSize
  BY DEF RingInv, Between, Sizes, _out_frames_available, _out_frames_ready, Min

LEMMA RingInit == Sizes /\ HwInit => RingInv
<1> SUFFICES ASSUME Sizes, HwInit PROVE RingInv
  OBVIOUS
<1>1. /\ standby \in BOOLEAN /\ ~standby /\ write_busy \in BOOLEAN /\ ~write_busy
      /\ exit \in BOOLEAN /\ ~exit
  BY Zenon DEF HwInit
<1>2. HwTypeOK
  BY <1>1 DEF HwInit, HwTypeOK, Sizes
<1>3. Between /\ Contiguous
  BY DEF HwInit, Between, Contiguous, Sizes
<1>4. Standing
  BY <1>1 DEF HwInit, Standing
<1>5. "reset" \notin hasty
  BY DEF HwInit
<1> QED
  BY <1>2, <1>3, <1>4, <1>5 DEF RingInv

\* Nothing in the ring and nothing of B but the wakeup changes.
LEMMA Elsewhere ==
  ASSUME RingInv, UNCHANGED <<ring, bframes, retries>>,
         bpc' = bpc \/ (bpc = "wait" /\ bpc' = "run")
  PROVE  Between' /\ Contiguous'
  BY DEF RingInv, HwTypeOK, Between, Contiguous, ring

\* WriteFails puts the stream in standby, and F waits.
LEMMA FailsFacts ==
  ASSUME HwTypeOK, WriteFails
  PROVE  /\ standby' \in BOOLEAN /\ left' = 0 /\ fpc' \in {"idle", "standby"}
         /\ \/ fpc' = "standby" /\ standby' /\ ~standby /\ lib
            \/ fpc' = "idle" /\ (standby' <=> standby) /\ (standby \/ ~lib)
<1>1. CASE StandbyReturns
  BY <1>1 DEF HwTypeOK, WriteFails, StandbyReturns
<1>2. CASE ~StandbyReturns
  <2>1. left' = 0 /\ fpc' = "standby" /\ ~standby /\ lib
    BY <1>2 DEF HwTypeOK, WriteFails, StandbyReturns
  <2>2. standby' \in BOOLEAN /\ standby'
    BY <1>2, Zenon DEF WriteFails
  <2> QED
    BY <2>1, <2>2
<1> QED
  BY <1>1, <1>2

LEMMA RingWrite ==
  ASSUME Sizes, RingInv, NEW n \in 1..MaxWrite, NEW init \in BOOLEAN, out_write(n, init)
  PROVE  RingInv' \/ Torn'
<1> USE DEF out_write, buffer
<1>1. fpc = "idle" /\ bpc # "again"
      /\ UNCHANGED <<bt_enabled, suspended, write_busy, exit, bpc, bframes, retries, apc>>
  BY DEF HeldByB
<1>2. CASE ~bt_enabled \/ suspended
  <2>1. WriteFails /\ UNCHANGED <<ring, lib, hasty>>
    BY <1>2
  <2>2. /\ standby' \in BOOLEAN /\ left' = 0 /\ fpc' \in {"idle", "standby"}
        /\ \/ fpc' = "standby" /\ standby' /\ ~standby /\ lib
           \/ fpc' = "idle" /\ (standby' <=> standby) /\ (standby \/ ~lib)
    BY <2>1, FailsFacts DEF RingInv
  <2>3. HwTypeOK'
    BY <1>1, <2>1, <2>2 DEF RingInv, HwTypeOK, ring, Sizes
  <2>4. Between' /\ Contiguous'
    BY <1>1, <2>1, Elsewhere
  <2>5. Standing' /\ "reset" \notin hasty'
    BY <1>1, <2>1, <2>2 DEF RingInv, Standing
  <2> QED
    BY <2>3, <2>4, <2>5 DEF RingInv
<1>3. CASE bt_enabled /\ ~suspended
  <2>1. /\ lib' \in BOOLEAN /\ standby' \in BOOLEAN /\ left' \in 0..MaxWrite
        /\ fpc' \in {"idle", "copy", "standby"}
        /\ fpc' # "standby" => (standby' <=> standby)
        /\ fpc' = "standby" => ~standby
    <3>1. CASE lib \/ init
      <4>1. fpc' = "copy" /\ left' = n /\ standby' = standby
        BY <1>3, <3>1
      <4>2. lib' \in BOOLEAN
        BY <1>3, <3>1, Zenon
      <4> QED
        BY <4>1, <4>2 DEF RingInv, HwTypeOK, Sizes
    <3>2. CASE ~lib /\ ~init
      <4>1. WriteFails /\ lib' = lib
        BY <1>3, <3>2
      <4> QED
        BY <4>1, FailsFacts DEF RingInv, HwTypeOK, Sizes
    <3> QED
      BY <3>1, <3>2 DEF RingInv, HwTypeOK
  <2>2. CASE standby
    <3>1. rd' = 0 /\ wr' = 0 /\ ready' = 0 /\ Hurry("reset")
      BY <1>3, <2>2
    <3>2. /\ hasty' \subseteq Haste /\ hasty \subseteq hasty'
          /\ (write_busy => "reset" \in hasty') /\ (~write_busy => hasty' = hasty)
      BY <3>1, Hurried DEF RingInv, HwTypeOK, Haste
    <3>3. HwTypeOK' /\ Between'
      BY <1>1, <2>1, <3>1, <3>2 DEF RingInv, HwTypeOK, Between, Sizes
    <3>4. CASE write_busy
      <4>1. apc \in {"suspend", "resume"} \/ "gaveup" \in hasty
        BY <1>1, <1>3, <2>2, <3>4 DEF RingInv, Standing
      <4>2. ResetOnly'
        BY <1>1, <3>2, <4>1 DEF ResetOnly
      <4> QED
        BY <3>2, <3>3, <3>4, <4>2 DEF Torn
    <3>5. CASE ~write_busy
      <4>1. bpc # "write" /\ bframes = 0
        <5>1. bpc # "write"
          BY <3>5 DEF RingInv, Standing
        <5> QED
          BY <1>1, <5>1 DEF RingInv, HwTypeOK, Contiguous, Sizes
      <4>2. Contiguous' /\ Standing' /\ "reset" \notin hasty'
        BY <1>1, <3>1, <3>2, <3>5, <4>1 DEF RingInv, Contiguous, Standing, Sizes
      <4> QED
        BY <3>3, <4>2 DEF RingInv
    <3> QED
      BY <3>4, <3>5
  <2>3. CASE ~standby
    <3>1. UNCHANGED <<ring, hasty>>
      BY <1>3, <2>3
    <3>2. HwTypeOK'
      BY <1>1, <2>1, <3>1 DEF RingInv, HwTypeOK, ring
    <3>3. Between' /\ Contiguous'
      BY <1>1, <3>1, Elsewhere
    <3>4. Standing' /\ "reset" \notin hasty'
      BY <1>1, <2>1, <2>3, <3>1 DEF RingInv, Standing
    <3> QED
      BY <3>2, <3>3, <3>4 DEF RingInv
  <2> QED
    BY <2>2, <2>3 DEF RingInv, HwTypeOK
<1> QED
  BY <1>2, <1>3

LEMMA CopyFacts ==
  ASSUME RingInv, CopyFrames
  PROVE  /\ standby' \in BOOLEAN /\ fpc' \in {"pause", "idle", "copy"}
         /\ standby' => standby /\ ~bt_enabled
         /\ ~standby => ~standby'
         /\ bpc' = bpc \/ (bpc = "wait" /\ bpc' = "run")
<1>1. bpc' = bpc \/ (bpc = "wait" /\ bpc' = "run")
  BY DEF CopyFrames, WakeB
<1>2. CASE standby /\ bt_enabled
  <2>1. fpc' = "pause"
    BY <1>2 DEF CopyFrames
  <2>2. standby' \in BOOLEAN /\ ~standby'
    BY <1>2, Zenon DEF CopyFrames
  <2> QED
    BY <1>1, <2>1, <2>2
<1>3. CASE ~(standby /\ bt_enabled)
  BY <1>1, <1>3 DEF CopyFrames, RingInv, HwTypeOK
<1> QED
  BY <1>2, <1>3

LEMMA RingCopy ==
  ASSUME Sizes, RingInv, fpc \in {"copy", "woken"}, CopyFrames
  PROVE  RingInv'
<1> DEFINE n == Min(_out_frames_available, left)
<1>1. /\ wr' = Wrap(wr + n) /\ ready' = ready + n /\ left' = left - n
      /\ UNCHANGED <<rd, bt_enabled, suspended, write_busy, lib, exit, bframes, retries, apc,
                     hasty>>
  BY DEF CopyFrames
<1>2. n \in Nat /\ n <= BufSize - ready /\ n <= BufSize - wr /\ left - n \in 0..MaxWrite
  BY Minima DEF Min, RingInv, HwTypeOK, Sizes
<1> HIDE DEF n
<1>3. Between'
  BY <1>1, <1>2, FramesIn DEF RingInv, Between
<1>4. HwTypeOK'
  BY <1>1, <1>2, <1>3, CopyFacts DEF RingInv, HwTypeOK, Between, Sizes
<1>5. Contiguous'
  BY <1>1, <1>2, CopyFacts DEF RingInv, HwTypeOK, Contiguous, Between
<1>6. Standing' /\ "reset" \notin hasty'
  BY <1>1, CopyFacts DEF RingInv, HwTypeOK, Standing
<1> QED
  BY <1>3, <1>4, <1>5, <1>6 DEF RingInv

LEMMA RingFlinger ==
  ASSUME Sizes, RingInv, Full \/ SpaceTimeout \/ Resume \/ out_standby \/ StandbyDone
  PROVE  RingInv'
<1>1. /\ UNCHANGED <<bt_enabled, suspended, write_busy, lib, ring, exit, buffer, apc>>
      /\ standby' \in BOOLEAN /\ left' \in 0..MaxWrite
      /\ fpc' \in {"idle", "copy", "space", "woken", "pause", "standby"}
      /\ hasty' \subseteq Haste /\ hasty \subseteq hasty' /\ "reset" \notin hasty'
      /\ standby' => \/ fpc' = "standby" \/ (standby /\ fpc # "standby") \/ ~write_busy
                     \/ "gaveup" \in hasty'
  <2>1. CASE Full \/ Resume
    BY <2>1 DEF Full, Resume, flags, RingInv, HwTypeOK
  <2>2. CASE StandbyDone
    <3>1. Hurry("gaveup") /\ fpc' = "idle" /\ UNCHANGED <<flags, ring, exit, buffer, left, apc>>
      BY <2>2 DEF StandbyDone, WaitOver
    <3>2. /\ hasty' \subseteq Haste /\ hasty \subseteq hasty' /\ hasty' \subseteq hasty \cup {"gaveup"}
          /\ write_busy => "gaveup" \in hasty'
      BY <3>1, Hurried DEF RingInv, HwTypeOK, Haste
    <3> QED
      BY <3>1, <3>2 DEF flags, RingInv, HwTypeOK
  <2>3. CASE SpaceTimeout
    BY <2>3, FailsFacts DEF SpaceTimeout, RingInv, HwTypeOK, Sizes
  <2>4. CASE out_standby
    <3>1. standby' \in BOOLEAN
      BY <2>4, Zenon DEF out_standby
    <3> QED
      BY <2>4, <3>1 DEF out_standby, RingInv, HwTypeOK
  <2> QED
    BY <2>1, <2>2, <2>3, <2>4
<1>2. HwTypeOK'
  BY <1>1 DEF RingInv, HwTypeOK, ring, buffer
<1>3. Between' /\ Contiguous'
  BY <1>1, Elsewhere DEF buffer
<1>4. Standing' /\ "reset" \notin hasty'
  BY <1>1 DEF RingInv, Standing, buffer
<1> QED
  BY <1>2, <1>3, <1>4 DEF RingInv

-----------------------------------------------------------------------------

\* B takes n frames, of which those it is writing are the first.
LEMMA FramesTaken ==
  ASSUME Sizes, RingInv, NEW n \in Nat, n <= ready, rd + n <= BufSize, _out_inc_rd_idx(n),
         UNCHANGED wr
  PROVE  /\ Between'
         /\ \A m \in Nat : m + n <= ready /\ rd + (m + n) <= BufSize =>
              m <= ready' /\ rd' + m <= BufSize
         /\ fpc' \in {"idle", "copy", "space", "woken", "pause", "standby"}
         /\ fpc' = "standby" <=> fpc = "standby"
         /\ fpc' \in {"copy", "space", "woken", "pause"} <=> fpc \in {"copy", "space", "woken", "pause"}
<1>1. rd' = Wrap(rd + n) /\ ready' = ready - n
  BY DEF _out_inc_rd_idx
<1>2. Between'
  BY <1>1, FramesOut DEF RingInv, Between
<1>3. \A m \in Nat : m + n <= ready /\ rd + (m + n) <= BufSize => m <= ready' /\ rd' + m <= BufSize
  BY <1>1, FramesOut DEF RingInv, Between
<1>4. fpc' = (IF fpc = "space" THEN "woken" ELSE fpc)
  BY DEF _out_inc_rd_idx, WakeF
<1> QED
  BY <1>2, <1>3, <1>4 DEF RingInv, HwTypeOK

LEMMA RingBufNext ==
  ASSUME Sizes, RingInv, BufNext
  PROVE  RingInv'
<1> DEFINE frames == IF bframes > 0 THEN bframes ELSE _out_frames_ready
<1>1. bpc \in {"again", "run"} /\ UNCHANGED <<exit, left, apc, hasty>>
  BY DEF BufNext
<1>2. frames \in 0..BufSize /\ frames <= ready /\ rd + frames <= BufSize
  BY Minima DEF RingInv, HwTypeOK, Contiguous, Between, Sizes
<1>0. \/ /\ exit \/ frames = 0
         /\ Rest /\ UNCHANGED <<flags, ring, retries, fpc>>
      \/ /\ ~exit /\ frames > 0 /\ (standby \/ ~bt_enabled)
         /\ _out_inc_rd_idx(_out_frames_ready) /\ Rest
         /\ UNCHANGED <<flags, wr, retries>>
      \/ /\ ~exit /\ frames > 0 /\ ~standby /\ bt_enabled
         /\ write_busy' = TRUE /\ bpc' = "write" /\ bframes' = frames
         /\ retries' = IF bframes > 0 THEN retries ELSE MaxRetries
         /\ UNCHANGED <<standby, bt_enabled, suspended, lib, ring, fpc>>
  BY Zenon DEF BufNext
<1> HIDE DEF frames
<1>3. CASE exit \/ frames = 0
  <2>1. Rest /\ UNCHANGED <<flags, ring, retries, fpc>>
    BY <1>0, <1>2, <1>3
  <2>2. bpc' \in {"done", "wait"} /\ bframes' = 0
    BY <2>1 DEF Rest
  <2>3. HwTypeOK' /\ Between' /\ Contiguous'
    BY <1>1, <2>1, <2>2 DEF RingInv, HwTypeOK, Between, Contiguous, flags, ring, Sizes
  <2>4. Standing' /\ "reset" \notin hasty'
    BY <1>1, <2>1, <2>2 DEF RingInv, Standing, flags
  <2> QED
    BY <2>3, <2>4 DEF RingInv
<1>4. CASE ~exit /\ frames > 0 /\ (standby \/ ~bt_enabled)
  <2>1. _out_inc_rd_idx(_out_frames_ready) /\ Rest /\ UNCHANGED <<flags, wr, retries>>
    BY <1>0, <1>2, <1>4
  <2>2. bpc' \in {"done", "wait"} /\ bframes' = 0
    BY <2>1 DEF Rest
  <2>3. /\ Between'
        /\ fpc' \in {"idle", "copy", "space", "woken", "pause", "standby"}
    BY <2>1, Minima, FramesTaken
  <2>4. Contiguous'
    <3>1. bframes' \in {0} /\ rd' \in 0..BufSize - 1 /\ ready' \in 0..BufSize
      BY <2>2, <2>3 DEF Between
    <3> QED
      BY <3>1, NothingLeft DEF Contiguous
  <2>5. HwTypeOK'
    BY <1>1, <2>1, <2>2, <2>3 DEF RingInv, HwTypeOK, Between, flags, Sizes
  <2>6. Standing' /\ "reset" \notin hasty'
    BY <1>1, <2>1, <2>2 DEF RingInv, Standing, flags
  <2> QED
    BY <2>3, <2>4, <2>5, <2>6 DEF RingInv
<1>5. CASE ~exit /\ frames > 0 /\ ~standby /\ bt_enabled
  <2>0. ~exit /\ frames # 0 /\ ~(standby \/ ~bt_enabled)
    BY <1>2, <1>5
  <2>1. /\ write_busy' = TRUE /\ bpc' = "write" /\ bframes' = frames
        /\ retries' = (IF bframes > 0 THEN retries ELSE MaxRetries)
        /\ UNCHANGED <<standby, bt_enabled, suspended, lib, ring, fpc>>
    BY <1>0, <2>0, Zenon
  <2>2. write_busy' \in BOOLEAN /\ write_busy'
    BY <2>1, Zenon
  <2>3. HwTypeOK' /\ Between' /\ Contiguous'
    BY <1>1, <1>2, <2>1, <2>2 DEF RingInv, HwTypeOK, Between, Contiguous, ring, Sizes
  <2>4. Standing' /\ "reset" \notin hasty'
    BY <1>1, <1>5, <2>1, <2>2 DEF RingInv, Standing
  <2> QED
    BY <2>3, <2>4 DEF RingInv
<1> QED
  BY <1>2, <1>3, <1>4, <1>5 DEF RingInv, HwTypeOK

LEMMA RingWritten ==
  ASSUME Sizes, RingInv, NEW n \in -1..BufSize, BufWritten(n)
  PROVE  RingInv'
<1>1. /\ bpc = "write" /\ n \in -1..bframes /\ bpc' = "again"
      /\ UNCHANGED <<standby, bt_enabled, suspended, lib, wr, exit, left, apc>>
  BY DEF BufWritten
<1>2. write_busy' \in BOOLEAN /\ ~write_busy'
  BY Zenon DEF BufWritten
<1>6. hasty' \subseteq Haste /\ "reset" \notin hasty'
  BY DEF BufWritten, RingInv, HwTypeOK
<1>3. /\ Between' /\ Contiguous' /\ bframes' \in 0..BufSize /\ retries' \in 0..MaxRetries
      /\ fpc' \in {"idle", "copy", "space", "woken", "pause", "standby"}
  <2>1. bframes \in Nat /\ bframes <= ready /\ rd + bframes <= BufSize /\ retries \in 0..MaxRetries
        /\ bframes \in 0..BufSize
    BY DEF RingInv, HwTypeOK, Contiguous, Sizes
  <2>2. CASE n < 0 \/ (n = 0 /\ retries = 0)
    <3>1. _out_inc_rd_idx(bframes) /\ bframes' = 0 /\ UNCHANGED retries
      BY <1>1, <2>1, <2>2 DEF BufWritten, Sizes
    <3>2. Between' /\ fpc' \in {"idle", "copy", "space", "woken", "pause", "standby"}
      BY <1>1, <2>1, <3>1, FramesTaken
    <3>3. bframes' \in {0} /\ rd' \in 0..BufSize - 1 /\ ready' \in 0..BufSize
      BY <3>1, <3>2 DEF Between
    <3>4. Contiguous' /\ bframes' \in 0..BufSize
      BY <3>3, NothingLeft DEF Contiguous
    <3> QED
      BY <2>1, <3>1, <3>2, <3>4
  <2>3. CASE n = 0 /\ retries > 0
    <3>1. retries' = retries - 1 /\ UNCHANGED <<rd, ready, bframes, fpc>>
      BY <1>1, <2>1, <2>3 DEF BufWritten, Sizes
    <3>2. retries - 1 \in 0..MaxRetries
      BY <2>1, <2>3 DEF Sizes
    <3> QED
      BY <1>1, <2>1, <3>1, <3>2 DEF RingInv, HwTypeOK, Between, Contiguous
  <2>4. CASE n > 0
    <3>1. _out_inc_rd_idx(n) /\ bframes' = bframes - n /\ UNCHANGED retries
      BY <1>1, <2>1, <2>4 DEF BufWritten, Sizes
    <3>2. n \in Nat /\ n <= ready /\ rd + n <= BufSize /\ bframes - n \in Nat
          /\ (bframes - n) + n <= ready /\ rd + ((bframes - n) + n) <= BufSize
      BY <1>1, <2>1, <2>4 DEF RingInv, Between, Sizes
    <3>3. /\ Between' /\ bframes - n <= ready' /\ rd' + (bframes - n) <= BufSize
          /\ fpc' \in {"idle", "copy", "space", "woken", "pause", "standby"}
      BY <1>1, <3>1, <3>2, FramesTaken
    <3> QED
      BY <1>1, <2>1, <3>1, <3>2, <3>3 DEF Contiguous, Sizes
  <2> QED
    BY <1>1, <2>1, <2>2, <2>3, <2>4 DEF Sizes
<1>4. HwTypeOK'
  BY <1>1, <1>2, <1>3, <1>6 DEF RingInv, HwTypeOK, Between, Sizes
<1>5. Standing' /\ "reset" \notin hasty'
  BY <1>1, <1>2, <1>6 DEF RingInv, Standing
<1> QED
  BY <1>3, <1>4, <1>5 DEF RingInv

\* Control and ControlDone go on with the call.
LEMMA AfterFacts ==
  ASSUME HwTypeOK, NEW c \in {"suspend", "resume", "disable", "close"},
         NEW stopped \in BOOLEAN, Afterwards(c, stopped)
  PROVE  /\ suspended' \in BOOLEAN /\ lib' \in BOOLEAN /\ (lib' => lib)
         /\ c \in {"disable", "close"} => ~lib'
         /\ c \notin {"disable", "close"} => lib' = lib
         /\ apc' = (IF c = "close" THEN "exit" ELSE "idle")
<1>1. CASE c \in {"disable", "close"}
  BY <1>1 DEF Afterwards, HwTypeOK
<1>2. CASE c = "suspend"
  BY <1>2 DEF Afterwards, HwTypeOK
<1>3. CASE c = "resume"
  <2>1. suspended' \in BOOLEAN
    BY <1>3, Zenon DEF Afterwards
  <2> QED
    BY <1>3, <2>1 DEF Afterwards, HwTypeOK
<1> QED
  BY <1>1, <1>2, <1>3

\* What a call leaves when it finds the stream in standby, or waits.
LEMMA ControlFacts ==
  ASSUME HwTypeOK, NEW call \in Calls, HwControl(call)
  PROVE  /\ apc = "idle" /\ ~exit /\ (call = "close" => fpc = "idle")
         /\ UNCHANGED <<write_busy, ring, exit, buffer, flinger>>
         /\ bt_enabled' \in BOOLEAN /\ (bt_enabled' => bt_enabled)
         /\ call \in {"disable", "close"} => ~bt_enabled'
         /\ standby' \in BOOLEAN /\ suspended' \in BOOLEAN /\ lib' \in BOOLEAN /\ (lib' => lib)
         /\ hasty' \subseteq Haste /\ hasty \subseteq hasty' /\ hasty' \subseteq hasty \cup {"second"}
         /\ \/ /\ standby \/ ~lib
               /\ (standby' <=> standby) /\ apc' \in {"idle", "exit"}
               /\ write_busy => "second" \in hasty'
               /\ call \notin {"disable", "close"} => lib' = lib
            \/ /\ ~standby /\ lib /\ standby' /\ lib' = lib /\ apc' = call
<1>1. call \in {"suspend", "resume", "disable", "close"}
  BY CallsAre
<1>2. /\ apc = "idle" /\ ~exit /\ (call = "close" => fpc = "idle")
      /\ UNCHANGED <<write_busy, ring, exit, buffer, flinger>>
      /\ bt_enabled' \in BOOLEAN /\ (bt_enabled' => bt_enabled)
      /\ call \in {"disable", "close"} => ~bt_enabled'
  BY <1>1 DEF HwControl, HwTypeOK
<1>3. CASE StandbyReturns
  <2>1. Afterwards(call, TRUE) /\ Hurry("second") /\ UNCHANGED standby
    BY <1>3 DEF HwControl
  <2>2. /\ hasty' \subseteq Haste /\ hasty \subseteq hasty' /\ hasty' \subseteq hasty \cup {"second"}
        /\ write_busy => "second" \in hasty'
    BY <2>1, Hurried DEF HwTypeOK, Haste
  <2>3. /\ suspended' \in BOOLEAN /\ lib' \in BOOLEAN /\ (lib' => lib)
        /\ call \notin {"disable", "close"} => lib' = lib
        /\ apc' \in {"idle", "exit"}
    BY <1>1, <2>1, AfterFacts
  <2>4. standby \/ ~lib
    BY <1>3 DEF StandbyReturns
  <2> QED
    BY <1>2, <2>1, <2>2, <2>3, <2>4 DEF HwTypeOK
<1>4. CASE ~StandbyReturns
  <2>1. apc' = call /\ UNCHANGED <<suspended, lib, hasty>> /\ ~standby /\ lib
    BY <1>4 DEF HwControl, StandbyReturns, HwTypeOK
  <2>2. standby' \in BOOLEAN /\ standby'
    BY <1>4, Zenon DEF HwControl
  <2> QED
    BY <1>2, <2>1, <2>2 DEF HwTypeOK
<1> QED
  BY <1>3, <1>4

LEMMA RingControl ==
  ASSUME Sizes, RingInv, NEW call \in Calls, HwControl(call)
  PROVE  RingInv'
<1>0. HwTypeOK
  BY DEF RingInv
<1>1. call \in {"suspend", "resume", "disable", "close"}
  BY CallsAre
<1>2. /\ apc = "idle" /\ UNCHANGED <<write_busy, ring, exit, buffer, flinger>>
      /\ bt_enabled' \in BOOLEAN /\ (call \in {"disable", "close"} => ~bt_enabled')
      /\ standby' \in BOOLEAN /\ suspended' \in BOOLEAN /\ lib' \in BOOLEAN
      /\ hasty' \subseteq Haste /\ hasty \subseteq hasty' /\ hasty' \subseteq hasty \cup {"second"}
      /\ \/ (standby' <=> standby) /\ apc' \in {"idle", "exit"}
         \/ ~standby /\ apc' = call
  BY <1>0, ControlFacts
<1>3. HwTypeOK'
  BY <1>1, <1>2 DEF RingInv, HwTypeOK, ring, buffer, flinger
<1>4. Between' /\ Contiguous'
  BY <1>2, Elsewhere DEF buffer
<1>5. Standing' /\ "reset" \notin hasty'
  BY <1>1, <1>2 DEF RingInv, Standing, buffer, flinger
<1> QED
  BY <1>3, <1>4, <1>5 DEF RingInv

\* The end of a wait of C.
LEMMA DoneFacts ==
  ASSUME HwTypeOK, NEW stopped \in BOOLEAN, ControlDone(stopped)
  PROVE  /\ apc \in {"suspend", "resume", "disable", "close"}
         /\ UNCHANGED <<standby, bt_enabled, write_busy, ring, exit, buffer, flinger>>
         /\ suspended' \in BOOLEAN /\ lib' \in BOOLEAN /\ (lib' => lib)
         /\ apc \notin {"disable", "close"} => lib' = lib
         /\ apc' \in {"idle", "exit"}
         /\ hasty' \subseteq Haste /\ hasty \subseteq hasty' /\ hasty' \subseteq hasty \cup {"gaveup"}
         /\ write_busy => "gaveup" \in hasty'
<1>1. /\ apc \in {"suspend", "resume", "disable", "close"}
      /\ UNCHANGED <<standby, bt_enabled, write_busy, ring, exit, buffer, flinger>>
      /\ Afterwards(apc, stopped) /\ Hurry("gaveup")
  BY CallsAre DEF ControlDone, WaitOver
<1>2. /\ hasty' \subseteq Haste /\ hasty \subseteq hasty' /\ hasty' \subseteq hasty \cup {"gaveup"}
      /\ write_busy => "gaveup" \in hasty'
  BY <1>1, Hurried DEF HwTypeOK, Haste
<1> QED
  BY <1>1, <1>2, AfterFacts

LEMMA RingControlDone ==
  ASSUME Sizes, RingInv, NEW stopped \in BOOLEAN, ControlDone(stopped)
  PROVE  RingInv'
<1>0. HwTypeOK
  BY DEF RingInv
<1>1. /\ UNCHANGED <<standby, bt_enabled, write_busy, ring, exit, buffer, flinger>>
      /\ suspended' \in BOOLEAN /\ lib' \in BOOLEAN /\ apc' \in {"idle", "exit"}
      /\ hasty' \subseteq Haste /\ hasty' \subseteq hasty \cup {"gaveup"}
      /\ write_busy => "gaveup" \in hasty'
  BY <1>0, DoneFacts
<1>2. HwTypeOK'
  BY <1>1 DEF RingInv, HwTypeOK, ring, buffer, flinger
<1>3. Between' /\ Contiguous'
  BY <1>1, Elsewhere DEF buffer
<1>4. Standing' /\ "reset" \notin hasty'
  BY <1>1 DEF RingInv, Standing, buffer
<1> QED
  BY <1>2, <1>3, <1>4 DEF RingInv

LEMMA RingOther ==
  ASSUME Sizes, RingInv, CloseThread \/ Enable \/ HwSpuriousWakeup
  PROVE  RingInv'
<1>1. /\ UNCHANGED <<standby, suspended, write_busy, lib, ring, bframes, retries, flinger>>
      /\ bpc' = bpc \/ (bpc = "wait" /\ bpc' = "run")
      /\ exit' \in BOOLEAN /\ bt_enabled' \in BOOLEAN
      /\ apc' \in {apc, "idle"} /\ (apc' # apc \/ bt_enabled' # bt_enabled => apc \in {"exit", "idle"})
      /\ hasty \subseteq hasty' /\ hasty' \subseteq hasty \cup {"enabled"}
  <2>1. CASE CloseThread
    <3>1. exit' \in BOOLEAN
      BY <2>1, Zenon DEF CloseThread
    <3> QED
      BY <2>1, <3>1 DEF CloseThread, WakeB, flags, RingInv, HwTypeOK
  <2>2. CASE Enable
    <3>1. bt_enabled' \in BOOLEAN
      BY <2>2, Zenon DEF Enable
    <3> QED
      BY <2>2, <3>1 DEF Enable, buffer, RingInv, HwTypeOK
  <2>3. CASE HwSpuriousWakeup
    BY <2>3 DEF HwSpuriousWakeup, flags, RingInv, HwTypeOK
  <2> QED
    BY <2>1, <2>2, <2>3
<1>2. HwTypeOK'
  BY <1>1 DEF RingInv, HwTypeOK, Haste, ring, flinger
<1>3. Between' /\ Contiguous'
  BY <1>1, Elsewhere
<1>4. Standing' /\ "reset" \notin hasty'
  <2>1. (bt_enabled' = bt_enabled /\ apc' = apc) \/ apc \in {"exit", "idle"}
    BY <1>1
  <2> QED
    BY <1>1, <2>1 DEF RingInv, Standing, flinger
<1> QED
  BY <1>2, <1>3, <1>4 DEF RingInv

LEMMA RingNext ==
  Sizes /\ (RingInv \/ Torn) /\ [HwNext]_<<hwvars, controls>> => RingInv' \/ Torn'
<1> SUFFICES ASSUME Sizes, RingInv \/ Torn, [HwNext]_<<hwvars, controls>>
             PROVE  RingInv' \/ Torn'
  OBVIOUS
<1>1. CASE HwNext
  <2>1. Step /\ RingInv
    BY <1>1 DEF HwNext, Torn
  <2>2. ASSUME NEW n \in 1..MaxWrite, NEW init \in BOOLEAN, out_write(n, init)
        PROVE  RingInv' \/ Torn'
    BY <2>1, <2>2, RingWrite
  <2>3. CASE Copy \/ Space
    BY <2>1, <2>3, RingCopy DEF Copy, Space
  <2>4. CASE Full \/ SpaceTimeout \/ Resume \/ out_standby \/ StandbyDone
    BY <2>1, <2>4, RingFlinger
  <2>5. CASE BufNext
    BY <2>1, <2>5, RingBufNext
  <2>6. ASSUME NEW n \in -1..BufSize, BufWritten(n)
        PROVE  RingInv'
    BY <2>1, <2>6, RingWritten
  <2>7. ASSUME NEW call \in Calls, HwControl(call)
        PROVE  RingInv'
    BY <2>1, <2>7, RingControl
  <2>8. ASSUME NEW stopped \in BOOLEAN, ControlDone(stopped)
        PROVE  RingInv'
    BY <2>1, <2>8, RingControlDone
  <2>9. CASE CloseThread \/ Enable \/ HwSpuriousWakeup
    BY <2>1, <2>9, RingOther
  <2> QED
    BY <2>1, <2>2, <2>3, <2>4, <2>5, <2>6, <2>7, <2>8, <2>9, Zenon DEF Step
<1>2. CASE UNCHANGED <<hwvars, controls>>
  <2>1. HwTypeOK' <=> HwTypeOK
    BY <1>2 DEF HwTypeOK, hwvars, flags, ring, buffer, flinger
  <2>2. (Between' <=> Between) /\ (Contiguous' <=> Contiguous)
    BY <1>2 DEF Between, Contiguous, hwvars, ring, buffer
  <2>3. (Standing' <=> Standing) /\ (ResetOnly' <=> ResetOnly) /\ hasty' = hasty
    BY <1>2 DEF Standing, ResetOnly, hwvars, flags, buffer, flinger
  <2> QED
    BY <2>1, <2>2, <2>3 DEF RingInv, Torn
<1> QED
  BY <1>1, <1>2

LEMMA RingShows ==
  ASSUME Sizes, RingInv \/ Torn
  PROVE  RingConsistent /\ ResetOnly
<1>0. HwTypeOK /\ Between /\ ResetOnly
  BY DEF RingInv, Torn, ResetOnly
<1>1. rd + ready \in Nat /\ BufSize \in Nat \ {0} /\ wr \in 0..BufSize - 1
  BY <1>0 DEF Between, Sizes
<1>2. wr = rd + ready \/ wr + BufSize = rd + ready
  BY <1>0 DEF Between
<1>3. (rd + ready) % BufSize = wr % BufSize
  BY <1>1, <1>2, Modular
<1> QED
  BY <1>0, <1>3 DEF Between, RingConsistent

-----------------------------------------------------------------------------
(* The library.                                                            *)

LEMMA LibInit == Sizes /\ HwInit => LibInv
<1> SUFFICES ASSUME Sizes, HwInit PROVE LibInv
  OBVIOUS
<1>1. ready = 0 /\ ~(ready > 0) /\ bpc = "wait" /\ fpc = "idle" /\ apc = "idle"
  BY DEF HwInit
<1> QED
  BY <1>1 DEF LibInv, Copying

\* F's copying is not disturbed by B.
LEMMA CopyingSame ==
  ASSUME RingInv, WakeF \/ UNCHANGED fpc
  PROVE  Copying' <=> Copying
  BY DEF RingInv, HwTypeOK, WakeF, Copying

LEMMA UnkeptGrows ==
  ASSUME hasty \subseteq hasty', Unkept PROVE Unkept'
  BY DEF Unkept

LEMMA LibWrite ==
  ASSUME Sizes, RingInv, LibInv, NEW n \in 1..MaxWrite, NEW init \in BOOLEAN,
         out_write(n, init)
  PROVE  LibInv'
<1>1. fpc = "idle" /\ UNCHANGED <<bt_enabled, suspended, exit, bpc, apc>>
      /\ apc \notin {"close", "exit"}
  BY DEF out_write, buffer
<1>2. CASE ~bt_enabled \/ suspended
  <2>1. WriteFails /\ UNCHANGED <<ring, lib, hasty>>
    BY <1>2 DEF out_write
  <2>2. /\ standby' \in BOOLEAN /\ fpc' \in {"idle", "standby"} /\ (standby => standby')
    BY <2>1, FailsFacts DEF RingInv
  <2>3. ~Copying' /\ ready' = ready /\ lib' = lib /\ hasty' = hasty /\ (Unkept' <=> Unkept)
    BY <2>1, <2>2 DEF Copying, ring, Unkept
  <2> QED
    BY <1>1, <2>2, <2>3 DEF LibInv
<1>3. CASE bt_enabled /\ ~suspended
  <2>0. hasty \subseteq hasty' /\ ("enabled" \in hasty' <=> "enabled" \in hasty)
    <3>1. CASE standby
      <4>1. Hurry("reset")
        BY <1>3, <3>1 DEF out_write
      <4> QED
        BY <4>1, Hurried DEF RingInv, HwTypeOK, Haste
    <3>2. CASE ~standby
      BY <1>3, <3>2 DEF out_write
    <3> QED
      BY <3>1, <3>2 DEF RingInv, HwTypeOK
  <2>3. Unkept => Unkept'
    BY <2>0, UnkeptGrows
  <2>1. CASE lib \/ init
    <3>1. fpc' = "copy" /\ standby' = standby
      BY <1>3, <2>1 DEF out_write
    <3>2. lib' \in BOOLEAN /\ lib'
      BY <1>3, <2>1, Zenon DEF out_write
    <3> QED
      BY <1>1, <1>3, <2>0, <2>3, <3>1, <3>2 DEF LibInv
  <2>2. CASE ~lib /\ ~init
    <3>1. WriteFails /\ lib' = lib
      BY <1>3, <2>2 DEF out_write
    <3>2. fpc' = "idle" /\ (standby' <=> standby)
      BY <2>2, <3>1, FailsFacts DEF RingInv
    <3>3. ready' \in {ready, 0} /\ (~standby => ready' = ready)
      BY <1>3 DEF out_write, ring, RingInv, HwTypeOK
    <3>4. ~Copying'
      BY <3>2 DEF Copying
    <3> QED
      BY <1>1, <1>3, <2>0, <2>2, <2>3, <3>1, <3>2, <3>3, <3>4 DEF LibInv
  <2> QED
    BY <2>1, <2>2 DEF RingInv, HwTypeOK
<1> QED
  BY <1>2, <1>3

LEMMA LibCopy ==
  ASSUME Sizes, RingInv, LibInv, fpc \in {"copy", "woken"}, CopyFrames
  PROVE  LibInv'
<1>1. UNCHANGED <<bt_enabled, lib, apc, hasty>> /\ Copying /\ (Unkept' <=> Unkept)
  BY DEF CopyFrames, Copying, Unkept
<1>2. /\ (bpc' = "write" <=> bpc = "write")
      /\ (standby /\ ~bt_enabled => standby')
  BY CopyFacts DEF CopyFrames, RingInv, HwTypeOK
<1>3. ~lib /\ "enabled" \notin hasty => standby /\ ~bt_enabled
  BY <1>1 DEF LibInv
<1> QED
  BY <1>1, <1>2, <1>3 DEF LibInv

LEMMA LibFlinger ==
  ASSUME Sizes, RingInv, LibInv,
         Full \/ SpaceTimeout \/ Resume \/ out_standby \/ StandbyDone
  PROVE  LibInv'
<1>1. UNCHANGED <<bt_enabled, lib, ready, bpc, apc>>
  BY DEF Full, SpaceTimeout, Resume, out_standby, StandbyDone, flags, ring, buffer
<1>2. /\ Copying' => Copying
      /\ standby => standby'
      /\ hasty \subseteq hasty' /\ ("enabled" \in hasty' <=> "enabled" \in hasty)
  <2>1. CASE Full \/ Resume
    BY <2>1 DEF Full, Resume, flags, Copying
  <2>2. CASE StandbyDone
    <3>1. Hurry("gaveup") /\ fpc' = "idle" /\ UNCHANGED standby
      BY <2>2 DEF StandbyDone, WaitOver, flags
    <3> QED
      BY <3>1, Hurried DEF Copying, RingInv, HwTypeOK, Haste
  <2>3. CASE SpaceTimeout
    BY <2>3, FailsFacts DEF SpaceTimeout, Copying, RingInv
  <2>4. CASE out_standby
    BY <2>4 DEF out_standby, Copying
  <2> QED
    BY <2>1, <2>2, <2>3, <2>4
<1>3. Unkept => Unkept'
  BY <1>2, UnkeptGrows
<1> QED
  BY <1>1, <1>2, <1>3 DEF LibInv

LEMMA LibBuffer ==
  ASSUME Sizes, RingInv, LibInv, BufNext \/ \E n \in -1..BufSize : BufWritten(n)
  PROVE  LibInv'
<1>1. UNCHANGED <<standby, bt_enabled, lib, apc>> /\ (WakeF \/ UNCHANGED fpc)
      /\ ("enabled" \in hasty' <=> "enabled" \in hasty)
  BY DEF BufNext, BufWritten, _out_inc_rd_idx, flags
<1>2. Copying' <=> Copying
  BY <1>1, CopyingSame
<1>3. /\ ready > 0 \/ ready' = 0
      /\ bpc' = "write" => ready > 0 /\ ~standby /\ bt_enabled /\ hasty' = hasty
  <2>0. ready \in Nat /\ bframes \in Nat /\ bframes <= ready
    BY DEF RingInv, HwTypeOK, Between, Contiguous, Sizes
  <2>1. CASE BufNext
    <3> DEFINE frames == IF bframes > 0 THEN bframes ELSE _out_frames_ready
    <3>1. frames \in Nat /\ frames <= ready /\ _out_frames_ready <= ready
          /\ _out_frames_ready \in Nat
      BY <2>0, Minima
    <3>2. \/ /\ exit \/ frames = 0
             /\ Rest /\ UNCHANGED ready
          \/ ready' = ready - _out_frames_ready /\ Rest
          \/ frames > 0 /\ ~standby /\ bt_enabled /\ UNCHANGED ready
      BY <2>1 DEF BufNext, _out_inc_rd_idx, ring
    <3> HIDE DEF frames
    <3>3. (Rest => bpc' # "write") /\ hasty' = hasty
      BY <2>1 DEF Rest, BufNext
    <3> QED
      BY <2>0, <3>1, <3>2, <3>3
  <2>2. ASSUME NEW n \in -1..BufSize, BufWritten(n)
        PROVE  (ready > 0 \/ ready' = 0) /\ bpc' # "write"
    <3>1. n \in -1..bframes /\ bpc' = "again"
          /\ (ready' = ready - bframes \/ ready' = ready \/ (n > 0 /\ ready' = ready - n))
      BY <2>2 DEF BufWritten, _out_inc_rd_idx
    <3> QED
      BY <2>0, <3>1
  <2> QED
    BY <2>1, <2>2
<1>4. ready > 0 => ready # 0
  BY DEF RingInv, Between
<1>5. bpc' = "write" => lib \/ Unkept'
  BY <1>3, <1>4 DEF LibInv, Unkept
<1>6. ready = 0 => ready' = 0
  BY <1>3, <1>4
<1> QED
  BY <1>1, <1>2, <1>5, <1>6 DEF LibInv

LEMMA LibControl ==
  ASSUME Sizes, RingInv, LibInv, NEW call \in Calls, HwControl(call)
  PROVE  LibInv'
<1>0. HwTypeOK
  BY DEF RingInv
<1>1. /\ UNCHANGED <<write_busy, ring, exit, buffer, flinger>>
      /\ bt_enabled' \in BOOLEAN /\ (bt_enabled' => bt_enabled)
      /\ call \in {"disable", "close"} => ~bt_enabled'
      /\ lib' => lib
      /\ hasty \subseteq hasty' /\ hasty' \subseteq hasty \cup {"second"}
      /\ \/ /\ standby \/ ~lib
            /\ (standby' <=> standby) /\ apc' \in {"idle", "exit"}
            /\ write_busy => "second" \in hasty'
            /\ call \notin {"disable", "close"} => lib' = lib
         \/ /\ ~standby /\ lib /\ standby' /\ lib' = lib /\ apc' = call
  BY <1>0, ControlFacts
<1>2. ready' = ready /\ bpc' = bpc /\ (Copying' <=> Copying)
  BY <1>1 DEF ring, buffer, flinger, Copying
<1>3. (Unkept => Unkept') /\ ("enabled" \in hasty' <=> "enabled" \in hasty)
      /\ ("second" \in hasty' => Unkept')
  BY <1>1, UnkeptGrows DEF Unkept
<1>4. write_busy <=> bpc = "write"
  BY DEF RingInv, Standing
<1>5. CASE /\ standby \/ ~lib
           /\ (standby' <=> standby) /\ apc' \in {"idle", "exit"}
           /\ write_busy => "second" \in hasty'
           /\ call \notin {"disable", "close"} => lib' = lib
  BY <1>1, <1>2, <1>3, <1>4, <1>5 DEF LibInv
<1>6. CASE ~standby /\ lib /\ standby' /\ lib' = lib /\ apc' = call
  BY <1>1, <1>2, <1>3, <1>6 DEF LibInv
<1> QED
  BY <1>1, <1>5, <1>6

LEMMA LibControlDone ==
  ASSUME Sizes, RingInv, LibInv, NEW stopped \in BOOLEAN, ControlDone(stopped)
  PROVE  LibInv'
<1>0. HwTypeOK
  BY DEF RingInv
<1>1. /\ UNCHANGED <<standby, bt_enabled, write_busy, ring, exit, buffer, flinger>>
      /\ (lib' => lib) /\ (apc \notin {"disable", "close"} => lib' = lib)
      /\ apc' \in {"idle", "exit"}
      /\ hasty \subseteq hasty' /\ hasty' \subseteq hasty \cup {"gaveup"}
      /\ write_busy => "gaveup" \in hasty'
  BY <1>0, DoneFacts
<1>2. ready' = ready /\ bpc' = bpc /\ (Copying' <=> Copying)
  BY <1>1 DEF ring, buffer, flinger, Copying
<1>3. (Unkept => Unkept') /\ ("enabled" \in hasty' <=> "enabled" \in hasty)
      /\ ("gaveup" \in hasty' => Unkept')
  BY <1>1, UnkeptGrows DEF Unkept
<1>4. write_busy <=> bpc = "write"
  BY DEF RingInv, Standing
<1> QED
  BY <1>1, <1>2, <1>3, <1>4 DEF LibInv

LEMMA LibOther ==
  ASSUME Sizes, RingInv, LibInv, CloseThread \/ Enable \/ HwSpuriousWakeup
  PROVE  LibInv'
<1>1. UNCHANGED <<standby, lib, ready, fpc>> /\ (bpc' = "write" <=> bpc = "write")
  BY DEF CloseThread, Enable, HwSpuriousWakeup, WakeB, flags, ring, buffer, flinger
<1>2. Copying' <=> Copying
  BY <1>1 DEF Copying
<1>3. CASE CloseThread
  BY <1>1, <1>2, <1>3 DEF CloseThread, flags, LibInv, Unkept
<1>4. CASE Enable
  <2>1. apc = "idle" /\ apc' = apc /\ hasty \subseteq hasty'
        /\ (~lib /\ fpc \notin {"idle", "standby"} => "enabled" \in hasty')
    BY <1>4 DEF Enable
  <2>2. Unkept => Unkept'
    BY <2>1, UnkeptGrows
  <2>3. Copying => fpc \notin {"idle", "standby"}
    BY DEF Copying
  <2>4. ~("enabled" \notin hasty' /\ ~lib /\ Copying)
    BY <2>1, <2>3
  <2>5. "enabled" \notin hasty' => "enabled" \notin hasty
    BY <2>1
  <2> QED
    BY <1>1, <1>2, <2>1, <2>2, <2>4, <2>5 DEF LibInv
<1>5. CASE HwSpuriousWakeup
  BY <1>1, <1>2, <1>5 DEF HwSpuriousWakeup, flags, LibInv, Unkept
<1> QED
  BY <1>3, <1>4, <1>5

LEMMA LibNext ==
  Sizes /\ (RingInv \/ Torn) /\ LibInv /\ [HwNext]_<<hwvars, controls>> => LibInv'
<1> SUFFICES ASSUME Sizes, RingInv \/ Torn, LibInv, [HwNext]_<<hwvars, controls>> PROVE LibInv'
  OBVIOUS
<1>1. CASE HwNext
  <2>1. Step /\ RingInv
    BY <1>1 DEF HwNext, Torn
  <2>2. ASSUME NEW n \in 1..MaxWrite, NEW init \in BOOLEAN, out_write(n, init)
        PROVE  LibInv'
    BY <2>1, <2>2, LibWrite
  <2>3. CASE Copy \/ Space
    BY <2>1, <2>3, LibCopy DEF Copy, Space
  <2>4. CASE Full \/ SpaceTimeout \/ Resume \/ out_standby \/ StandbyDone
    BY <2>1, <2>4, LibFlinger
  <2>5. CASE BufNext \/ \E n \in -1..BufSize : BufWritten(n)
    BY <2>1, <2>5, LibBuffer
  <2>6. ASSUME NEW call \in Calls, HwControl(call)
        PROVE  LibInv'
    BY <2>1, <2>6, LibControl
  <2>7. ASSUME NEW stopped \in BOOLEAN, ControlDone(stopped)
        PROVE  LibInv'
    BY <2>1, <2>7, LibControlDone
  <2>8. CASE CloseThread \/ Enable \/ HwSpuriousWakeup
    BY <2>1, <2>8, LibOther
  <2> QED
    BY <2>1, <2>2, <2>3, <2>4, <2>5, <2>6, <2>7, <2>8, Zenon DEF Step
<1>2. CASE UNCHANGED <<hwvars, controls>>
  BY <1>2 DEF LibInv, Copying, Unkept, hwvars, flags, ring, buffer, flinger
<1> QED
  BY <1>1, <1>2

\* For every size of the ring, length of the writes and number of retries, and whatever
\* AudioFlinger's thread and the binder thread do in whatever order, suspending,
\* disabling and a write that outlasts the five waits included: buf_frames_ready is what
\* lies between the indexes until out_write resets them under a2dp_write, which happens
\* only while C waits to suspend or resume or after a wait was given up; and the library
\* is there during a2dp_write unless a caller of out_standby_stream_locked did not wait
\* for it or the stream was enabled again during one out_write.
THEOREM HwSafeTheorem ==
  ASSUME Sizes
  PROVE  HwSpec => []HwSafe
<1>1. HwInit => (RingInv \/ Torn) /\ LibInv
  BY RingInit, LibInit
<1>2. (RingInv \/ Torn) /\ LibInv /\ [HwNext]_<<hwvars, controls>>
      => ((RingInv \/ Torn) /\ LibInv)'
  BY RingNext, LibNext
<1>3. (RingInv \/ Torn) /\ LibInv => HwSafe
  BY RingShows DEF LibInv, LibKept, Unkept, HwSafe
<1> QED
  BY <1>1, <1>2, <1>3, PTL DEF HwSpec

=============================================================================
