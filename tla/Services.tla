------------------------------ MODULE Services ------------------------------
(***************************************************************************)
(* The services of the daemon that do not share state, side by side: every  *)
(* behaviour is one of one service, and the properties of each are checked  *)
(* in the same run.  In their initial states nothing is under way, so that  *)
(* the fairness of the services that do not run asks for nothing.          *)
(***************************************************************************)
EXTENDS AudioDevice \* its variable is d

VARIABLES service, \* the one that runs
          mode, discovery, a2dp

allVars == <<service, mode, discovery, d, a2dp>>

Mode == INSTANCE AdapterMode WITH
  a <- mode, Clients <- {"c1"}, Environment <- {"power", "agent"}, MaxRefs <- 2, MaxCommands <- 0
Discovery == INSTANCE Discovery WITH
  w <- discovery, Clients <- {"c1"}, Devices <- {"d1", "d2"}, Environment <- {"power"},
  MaxRefs <- 2, MaxCommands <- 2, MaxOrphans <- 1
A2dp == INSTANCE A2dp WITH w <- a2dp, MaxRequests <- 3, Environment <- {"reject"}

AllInit ==
  /\ service \in {"mode", "discovery", "device", "a2dp"}
  /\ Mode!Init /\ Discovery!Init /\ Init /\ A2dp!Init

AllNext ==
  \/ service = "mode" /\ Mode!Next /\ UNCHANGED <<service, discovery, d, a2dp>>
  \/ service = "discovery" /\ Discovery!Next /\ UNCHANGED <<service, mode, d, a2dp>>
  \/ service = "device" /\ Next /\ UNCHANGED <<service, mode, discovery, a2dp>>
  \/ service = "a2dp" /\ A2dp!Next /\ UNCHANGED <<service, mode, discovery, d>>

AllSpec ==
  /\ AllInit /\ [][AllNext]_allVars
  /\ Mode!Fairness /\ Discovery!Fairness /\ Fairness /\ A2dp!Fairness

-----------------------------------------------------------------------------
(* AdapterMode: the modes in adapter.c; ModeSafe is checked in MCProfiles, where  *)
(* one change is pending when others come.                                 *)

\* Sessions end when their owners have released them, and with a timeout the
\* adapter does not stay discoverable or pairable (discov_timeout_handler,
\* pairable_timeout_handler), where the kernel has executed each command before the
\* next event.
ModeEnds == Mode!SessionsReleased /\ Mode!DiscoverableEnds /\ Mode!PairableEnds

-----------------------------------------------------------------------------
(* Discovery, without bondings: its liveness.                              *)

\* Discovery repeats for as long as a session is held (adapter_set_state's
\* timer), and ends for good after the last one, whatever timers were forgotten.
Rediscovers == Discovery!KeepsDiscovering /\ Discovery!DiscoveryEnds

-----------------------------------------------------------------------------
(* AudioDevice: device.c; DeviceSafe and Documented are stated there.      *)

\* Audio.Connect and Audio.Disconnect are answered, with the exceptions that
\* the module names (device.c), and so is Connect of the sink (sink.c, a2dp.c).
DeviceAnswered == ConnectAnswered /\ DisconnectAnswered /\ A2dp!ConnectAnswered

-----------------------------------------------------------------------------
(* A2dp: a2dp.c and sink.c.                                                *)

\* Where none of the events that a2dp.c does not handle comes (Environment of
\* module A2dp names them): a setup has exactly the references of its holders, no
\* idle callback or timer runs with one that has gone, something that will happen
\* leads to every callback of it, a pending connect of the sink waits for something,
\* the suspend timer has its session, and the sink's State is that of its stream.
A2dpSafe == /\ A2dp!SetupRefs /\ A2dp!NoStale /\ A2dp!Served /\ A2dp!ConnectUnderWay
            /\ A2dp!TimerHoldsSession /\ A2dp!SinkShows
=============================================================================
