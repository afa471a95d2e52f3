---------------------------- MODULE AdapterMode ----------------------------
(***************************************************************************)
(* The adapter's mode: Powered, Discoverable and Pairable with their       *)
(* timeouts, the sessions of RequestSession with the agent's confirmation, *)
(* the pending mode change and the stored mode (src/adapter.c,             *)
(* src/agent.c), over the kernel's management interface                    *)
(* (plugins/mgmtops.c).                                                    *)
(*                                                                         *)
(* Commands go to the kernel through a socket and take effect in order;    *)
(* the events that answer them are counted to the commands.  The functions *)
(* of adapter.c are operators on the world a, one record.                  *)
(***************************************************************************)
EXTENDS Integers, Sequences, SequencesExt

CONSTANTS
  Clients,     \* D-Bus clients that request sessions
  Environment, \* what happens besides: "power" and "scan" changed by others,
               \* "agent" requests of other parts; "exit" of clients whose mode change
               \* is pending (or they release more than they requested), or the controller goes "off" meanwhile; it comes up
               \* connectable when discoverable is asked for already ("crossed")
  MaxRefs,     \* bound: references of one client to its session
  MaxCommands  \* bound: commands in the socket when another is caused

\* Fields of a:
\*   up, mode, scan_mode, global_mode, pairable   of struct btd_adapter
\*   discov_timeout, pairable_timeout             are they nonzero?
\*   discov_timer, pairable_timer                 do the timers run?
\*   sessions       mode_sessions: owner, mode, refs, got_reply, and whether
\*                  msg is still held
\*   pending        pending_mode: its owner ("SetProperty" without one,
\*                  "freed" if the session was freed) and its mode
\*   agent          "none", "idle", or whose request it has
\*   stored, onmode the mode and on-mode in the config file
\*   info           what mgmtops knows of the controller, a set of settings
\*   kernel         its settings
\*   commands       the socket to the kernel
VARIABLE a

vars == <<a>>

OFF == 0
CONNECTABLE == 1
DISCOVERABLE == 2

Settings == {"powered", "connectable", "discoverable", "pairable"}
NoPending == [owner |-> "none", mode |-> OFF]

Init == a = [up |-> TRUE, mode |-> CONNECTABLE, scan_mode |-> {"page"},
             global_mode |-> OFF, pairable |-> TRUE,
             discov_timeout |-> TRUE, pairable_timeout |-> FALSE,
             discov_timer |-> FALSE, pairable_timer |-> FALSE,
             sessions |-> << >>, pending |-> NoPending, agent |-> "none",
             stored |-> CONNECTABLE, onmode |-> CONNECTABLE,
             info |-> {"powered", "connectable", "pairable"},
             kernel |-> {"powered", "connectable", "pairable"},
             commands |-> << >>]

Send(v, setting, val) == [v EXCEPT !.commands = Append(@, <<setting, val>>)]
Owners(v) == {v.sessions[i].owner : i \in DOMAIN v.sessions}
SessionOf(v, c) == CHOOSE i \in DOMAIN v.sessions : v.sessions[i].owner = c
With(set, x, val) == IF val THEN set \cup {x} ELSE set \ {x}

-----------------------------------------------------------------------------
(* Changing the mode.                                                      *)

write_device_mode(v, mode) ==
  [v EXCEPT !.stored = mode, !.onmode = IF mode = OFF THEN @ ELSE mode]

\* An anonymous mode change asks for what adapter_set_mode sends.
adapter_set_mode(v, mode) ==
  LET u == Send(v, "discoverable", mode # CONNECTABLE)
  IN IF mode = CONNECTABLE THEN u ELSE [u EXCEPT !.discov_timer = u.discov_timeout]

\* set_mode with err = 0; requester "none" if there is no message to answer.
SetModeDone(v, mode, requester) ==
  LET u == write_device_mode(v, mode)
  IN IF requester = "none" THEN [u EXCEPT !.mode = mode]
     ELSE [u EXCEPT !.pending = [owner |-> requester, mode |-> mode],
                    !.sessions = [i \in DOMAIN @ |->
                      IF @[i].owner = requester /\ @[i].msg THEN [@[i] EXCEPT !.refs = @ + 1]
                      ELSE @[i]]]

\* Refused with EALREADY while another change is pending.
set_mode(v, mode, requester) ==
  CASE v.pending # NoPending -> v
    [] v.pending = NoPending /\ v.up = (mode = OFF) ->
         SetModeDone(Send(v, "powered", mode # OFF), mode, requester)
    [] v.pending = NoPending /\ v.up # (mode = OFF) /\ mode = v.mode -> v
    [] OTHER -> SetModeDone(adapter_set_mode(v, mode), mode, requester)

-----------------------------------------------------------------------------
(* Sessions.                                                               *)

\* Whatever request the agent has is cancelled; its callback is not called.
agent_cancel(v) == [v EXCEPT !.agent = IF @ = "none" THEN @ ELSE "idle"]

get_needed_mode(v, sessions) ==
  LET modes == {v.global_mode} \cup {sessions[i].mode : i \in DOMAIN sessions}
  IN CHOOSE m \in modes : \A n \in modes : n <= m

\* session_remove: the mode falls to what the others need.
session_remove(v, c) ==
  LET left == SelectSeq(v.sessions, LAMBDA s : s.owner # c)
      needed == get_needed_mode(v, left)
      u == [v EXCEPT !.sessions = left]
  IN IF needed = v.mode THEN u ELSE set_mode(u, needed, "none")

\* session_free does not ask how many references are left.
session_free(v, c) ==
  LET s == v.sessions[SessionOf(v, c)]
      u == session_remove(v, c)
      f == [u EXCEPT !.pending.owner = IF @ = c THEN "freed" ELSE @]
  IN IF s.msg /\ ~s.got_reply THEN agent_cancel(f) ELSE f

session_unref(v, c) ==
  LET i == SessionOf(v, c)
  IN IF v.sessions[i].refs = 1 THEN session_free(v, c)
     ELSE [v EXCEPT !.sessions[i].refs = @ - 1]

Complete_uncleared(v) ==
  IF v.pending.owner \in Owners(v)
  THEN session_unref(v, v.pending.owner)
  ELSE [v EXCEPT !.pending = NoPending]

\* The answer to the pending request; the stored mode is corrected if the
\* mode is another one.  After the use of a freed session nothing is known.
Complete(v) ==
  LET p == v.pending
      ok == p.mode = v.mode
      u == [v EXCEPT !.pending = NoPending,
                     !.global_mode = IF ok /\ p.owner = "SetProperty" THEN v.mode ELSE @]
      r == IF ok THEN u ELSE write_device_mode(u, u.mode)
  IN CASE p = NoPending \/ p.owner = "freed" -> v
       [] p.owner = "SetProperty" -> IF p.mode # OFF THEN agent_cancel(r) ELSE r
       [] OTHER -> session_unref(r, p.owner)

FreeSessions(v) ==
  FoldLeft(LAMBDA u, s : session_free(u, s.owner), v, v.sessions)

set_mode_complete(v) == Complete(IF v.mode = OFF THEN FreeSessions(v) ELSE v)

-----------------------------------------------------------------------------
(* What the kernel reports.                                                *)

adapter_mode_changed_untimed(v, scan) ==
  IF v.scan_mode = scan THEN v
  ELSE IF scan = {"inquiry"} THEN v
  ELSE set_mode_complete([v EXCEPT !.scan_mode = scan,
         !.mode = IF scan = {} THEN OFF
                  ELSE IF scan = {"page"} THEN CONNECTABLE ELSE DISCOVERABLE])

\* Inquiry scan alone is not a mode.
adapter_mode_changed(v, scan) ==
  LET u == [v EXCEPT !.discov_timer = "inquiry" \in scan /\ v.discov_timeout]
  IN CASE v.scan_mode = scan -> v
       [] v.scan_mode # scan /\ scan = {"inquiry"} -> u
       [] OTHER -> set_mode_complete([u EXCEPT !.scan_mode = scan,
            !.mode = CASE scan = {} -> OFF
                       [] scan = {"page"} -> CONNECTABLE
                       [] OTHER -> DISCOVERABLE])

btd_adapter_pairable_changed(v, pairable) ==
  [v EXCEPT !.pairable = pairable,
            !.pairable_timer = IF pairable /\ v.pairable_timeout THEN TRUE ELSE @]

btd_adapter_start(v) == [v EXCEPT !.up = TRUE, !.mode = CONNECTABLE]

btd_adapter_stop(v) ==
  set_mode_complete([v EXCEPT !.discov_timer = FALSE, !.up = FALSE,
                              !.scan_mode = {}, !.mode = OFF])

ScanOf(info) == (IF "connectable" \in info THEN {"page"} ELSE {}) \cup
                (IF "discoverable" \in info THEN {"inquiry"} ELSE {})

mgmt_update_powered(v, powered) ==
  IF ~powered THEN btd_adapter_stop([v EXCEPT !.info = {}])
  ELSE LET s == btd_adapter_start([v EXCEPT !.info = @ \cup {"powered"}])
           u == CASE s.onmode = DISCOVERABLE /\ "discoverable" \notin s.info ->
                       Send(s, "discoverable", TRUE)
                  [] s.onmode = CONNECTABLE /\ "connectable" \notin s.info ->
                       Send(s, "connectable", TRUE)
                  [] OTHER -> adapter_mode_changed(s, ScanOf(s.info))
       IN IF ("pairable" \in u.info) # u.pairable THEN Send(u, "pairable", u.pairable)
          ELSE u

\* The handlers of completed commands; set_discoverable also sets page
\* scanning.
CommandComplete(v, setting, val) ==
  LET u == [v EXCEPT !.info = With(@, setting, val)]
  IN CASE setting = "powered" -> mgmt_update_powered(v, val)
       [] setting = "discoverable" ->
            adapter_mode_changed(u, {"page"} \cup (IF val THEN {"inquiry"} ELSE {}))
       [] setting = "connectable" -> adapter_mode_changed(u, IF val THEN {"page"} ELSE {})
       [] setting = "pairable" -> btd_adapter_pairable_changed(u, val)

\* The handlers of changes that others made.
SettingChanged(v, setting, val) ==
  LET u == [v EXCEPT !.info = With(@, setting, val)]
  IN CASE setting = "powered" -> mgmt_update_powered(v, val)
       [] setting = "pairable" -> btd_adapter_pairable_changed(u, val)
       [] OTHER -> adapter_mode_changed(u, ScanOf(u.info))

-----------------------------------------------------------------------------
(* D-Bus clients and the agent.                                            *)

\* Nobody causes more commands while MaxCommands are on their way.
Quiet == Len(a.commands) <= MaxCommands

set_discoverable(v, discoverable) ==
  LET mode == IF discoverable THEN DISCOVERABLE ELSE CONNECTABLE
  IN IF mode = v.mode THEN [v EXCEPT !.global_mode = mode]
     ELSE set_mode(v, mode, "SetProperty")

SetDiscoverable(val) == Quiet /\ a' = set_discoverable(a, val)

SetPowered(val) ==
  /\ Quiet
  /\ a' = CASE val -> set_discoverable(a, a.onmode = DISCOVERABLE)
            [] ~val /\ a.mode = OFF -> [a EXCEPT !.global_mode = OFF]
            [] OTHER -> set_mode(a, OFF, "SetProperty")

\* An anonymous change of mode keeps the adapter discoverable; when it is
\* refused a caller is told, and the timer goes on.
set_pairable(v, pairable, is_call) ==
  CASE v.scan_mode = {} \/ pairable = v.pairable -> v
    [] v.scan_mode # {} /\ pairable # v.pairable /\ "inquiry" \notin v.scan_mode ->
         Send(v, "pairable", pairable)
    [] OTHER -> IF is_call /\ v.pending # NoPending THEN v
                ELSE Send(set_mode(v, DISCOVERABLE, "none"), "pairable", pairable)

SetPairable(val) == Quiet /\ a' = set_pairable(a, val, TRUE)

set_discoverable_timeout(timeout) ==
  a' = [a EXCEPT !.discov_timeout = timeout,
                 !.discov_timer = IF "inquiry" \in a.scan_mode THEN timeout ELSE @]

set_pairable_timeout(timeout) ==
  a' = [a EXCEPT !.pairable_timeout = timeout,
                 !.pairable_timer = IF a.pairable THEN timeout ELSE @]

discov_timeout_handler ==
  /\ a.discov_timer /\ Quiet
  /\ a' = write_device_mode(Send([a EXCEPT !.discov_timer = FALSE], "discoverable", FALSE),
                            CONNECTABLE)

pairable_timeout_handler ==
  /\ a.pairable_timer /\ Quiet
  /\ a' = set_pairable([a EXCEPT !.pairable_timer = FALSE], FALSE, FALSE)

\* The agent is asked only when the mode has to rise.
request_session(c) ==
  /\ Quiet /\ a.agent # "none" 
  /\ LET v == IF a.sessions = << >> THEN [a EXCEPT !.global_mode = a.mode] ELSE a
         new == [v EXCEPT !.sessions = Append(@, [owner |-> c, mode |-> v.onmode, refs |-> 1,
                                                  got_reply |-> FALSE, msg |-> TRUE])]
     IN IF c \in Owners(v)
        THEN /\ v.sessions[SessionOf(v, c)].refs < MaxRefs
             /\ a' = [v EXCEPT !.sessions[SessionOf(v, c)].refs = @ + 1]
        ELSE a' = CASE v.mode >= v.onmode -> new
                    [] v.mode < v.onmode /\ v.agent # "idle" -> session_unref(new, c)
                    [] OTHER -> [new EXCEPT !.agent = c]

\* Also while the request is not answered yet.  More releases than requests would free
\* what is pending as an exit does.
release_session(c) ==
  /\ Quiet /\ c \in Owners(a)
  /\ a.pending.owner = c /\ a.sessions[SessionOf(a, c)].refs = 1 => "exit" \in Environment
  /\ a' = session_unref(a, c)

session_owner_exit(c) ==
  /\ Quiet /\ c \in Owners(a)
  /\ a.pending.owner = c => "exit" \in Environment
  /\ a' = session_free(a, c)

confirm_mode_cb(v, c, ok) ==
  LET i == SessionOf(v, c)
      s == v.sessions[i]
      replied == [v EXCEPT !.sessions[i].got_reply = TRUE]
      u == set_mode(replied, s.mode, c)
  IN CASE ~ok -> session_unref(replied, c)
       [] ok /\ (v.pending # NoPending \/ u.pending = NoPending) ->
            [replied EXCEPT !.sessions[i].msg = FALSE]
       [] OTHER -> u

\* A change that was pending when the controller goes off is freed with its session.
AgentReplies(ok) ==
  /\ a.agent \in Clients /\ Quiet
  /\ ok /\ a.pending = NoPending /\ Contains(a.commands, <<"powered", FALSE>>) => "off" \in Environment
  /\ a' = [confirm_mode_cb(a, a.agent, ok) EXCEPT !.agent = "idle"]

\* Another part asks the agent, and gets the answer.
OtherAsksAgent == /\ "agent" \in Environment /\ a.agent = "idle"
                  /\ a' = [a EXCEPT !.agent = "other"]

OtherAnswered == a.agent = "other" /\ a' = [a EXCEPT !.agent = "idle"]

register_agent == a.agent = "none" /\ a' = [a EXCEPT !.agent = "idle"]

\* agent_free: the adapter's pointer is cleared before the callback.
agent_free ==
  /\ a.agent # "none" /\ Quiet
  /\ LET v == [a EXCEPT !.agent = "none"]
     IN a' = IF a.agent \in Clients THEN confirm_mode_cb(v, a.agent, FALSE) ELSE v

-----------------------------------------------------------------------------
(* The kernel (external).                                                  *)

KernelSet(v, setting, val) ==
  [v EXCEPT !.kernel = CASE setting = "powered" -> IF val THEN @ \cup {"powered"} ELSE {}
                         [] setting = "discoverable" /\ val ->
                              @ \cup {"connectable", "discoverable"}
                         [] setting = "connectable" /\ ~val ->
                              @ \ {"connectable", "discoverable"}
                         [] OTHER -> With(@, setting, val)]

\* Power comes up with a command to become connectable behind one to become discoverable,
\* and the former is taken for the mode that the controller is in.
Crossed(v) == \E i, j \in DOMAIN v.commands :
  i < j /\ v.commands[i] = <<"discoverable", TRUE>> /\ v.commands[j] = <<"connectable", TRUE>>

\* What it refuses is only logged: settings of a controller that is off, and
\* perhaps those that change nothing.
KernelExecutes ==
  /\ a.commands # << >>
  /\ LET setting == Head(a.commands)[1]
         val == Head(a.commands)[2]
         v == [a EXCEPT !.commands = Tail(@)]
     IN \/ /\ setting = "powered" \/ "powered" \in v.kernel
           /\ LET u == CommandComplete(KernelSet(v, setting, val), setting, val)
              IN (Crossed(u) => "crossed" \in Environment) /\ a' = u
        \/ /\ \/ setting # "powered" /\ "powered" \notin v.kernel
              \/ (setting \in v.kernel) = val
           /\ a' = v

OtherSets(setting, val) ==
  /\ setting = "powered" => "power" \in Environment
  /\ setting # "powered" => "scan" \in Environment /\ "powered" \in a.kernel
  /\ (setting \in a.kernel) # val /\ Quiet
  /\ setting = "powered" /\ a.pending.owner \in Clients => "off" \in Environment
  /\ LET u == SettingChanged(KernelSet(a, setting, val), setting, val)
     IN (Crossed(u) => "crossed" \in Environment) /\ a' = u

\* rfkill_event: the switch is released.
btd_adapter_restore_powered ==
  /\ "power" \in Environment /\ ~a.up /\ a.stored # OFF /\ Quiet
  /\ a' = Send(a, "powered", TRUE)

Next == \/ \E val \in BOOLEAN : \/ SetDiscoverable(val) \/ SetPowered(val)
                                \/ SetPairable(val)
                                \/ set_discoverable_timeout(val)
                                \/ set_pairable_timeout(val)
                                \/ AgentReplies(val)
        \/ discov_timeout_handler \/ pairable_timeout_handler
        \/ \E c \in Clients : \/ request_session(c) \/ release_session(c)
                              \/ session_owner_exit(c)
        \/ OtherAsksAgent \/ OtherAnswered \/ register_agent \/ agent_free
        \/ KernelExecutes
        \/ \E setting \in Settings, val \in BOOLEAN : OtherSets(setting, val)
        \/ btd_adapter_restore_powered

Spec == Init /\ [][Next]_vars

\* The kernel answers, and timers fire: only their bound Quiet keeps them
\* waiting.
Fairness == /\ WF_vars(KernelExecutes)
            /\ SF_vars(discov_timeout_handler) /\ SF_vars(pairable_timeout_handler)
FairSpec == Spec /\ Fairness

-----------------------------------------------------------------------------
(* Properties.                                                             *)

\* pending_mode never points to a freed session, through which set_mode_complete would
\* answer: it has a reference, whatever is released, refused or answered meanwhile.
\* A client's exit and the controller's going off ask no reference ("exit", "off").
NoDangling == a.pending.owner # "freed"

\* The agent's callback never gets a freed session, nor one that was answered.
AgentSessionLive == a.agent \in Clients =>
  \E i \in DOMAIN a.sessions : a.sessions[i].owner = a.agent /\ ~a.sessions[i].got_reply

\* Only the completion of a command clears pending_mode, and until then every
\* other mode change is refused: there is one to come.
PendingHasCommand == a.pending # NoPending => a.commands # << >>

\* adapter-api.txt on RequestSession: "All sessions are released when
\* adapter's mode is changed to off state".
SessionsReleased == [][a.up /\ ~a'.up => a'.sessions = << >>]_vars

\* Once the kernel has executed the commands, adapter->mode says whether the
\* controller is discoverable, unless commands were "crossed".
ModeTold == a.commands = << >> =>
  (a.mode = DISCOVERABLE <=> "discoverable" \in a.kernel)

\* discov_timeout_handler: with a timeout the controller does not stay
\* discoverable, however modes, sessions and power change meanwhile.
DiscoverableEnds == []<>(~(a.discov_timeout /\ "inquiry" \in a.scan_mode))

\* pairable_timeout_handler: with a timeout the controller does not stay
\* pairable, also after it was off.
PairableEnds == []<>(~(a.pairable_timeout /\ a.pairable /\ a.up))

=============================================================================
