------------------------------ MODULE MCAvdtp ------------------------------
(***************************************************************************)
(* Three instances of Avdtp for one run: a session that our side opens for  *)
(* a SEP, with the constants of the configuration; the session of an        *)
(* acceptor whose two SEPs the peer configures; and that of an acceptor     *)
(* whose peer repeats the commands whose timers run.                        *)
(***************************************************************************)
EXTENDS Avdtp

VARIABLES role, \* which of the three runs
          accS, accSep, accCfg, accUsers, accOld

AccSeps == {1, 2}

Acceptor == INSTANCE Avdtp WITH
  s <- accS, sep <- accSep, cfg <- accCfg, users <- accUsers, old <- accOld,
  Seps <- AccSeps, SinkSeps <- {}, EndpointSeps <- {2}, PeerInUse <- {1}, Repeats <- {},
  GetCap <- "GET_ALL_CAPABILITIES", UsersRelease <- FALSE, AuthResults <- {"ok"},
  MaxUsers <- 1, MaxQueue <- 0

Repeated == INSTANCE Avdtp WITH
  s <- accS, sep <- accSep, cfg <- accCfg, users <- accUsers, old <- accOld,
  Seps <- {1}, SinkSeps <- {}, EndpointSeps <- {}, PeerInUse <- {}, Repeats <- {1},
  GetCap <- "GET_ALL_CAPABILITIES", UsersRelease <- TRUE, AuthResults <- {"ok"},
  MaxUsers <- 1, MaxQueue <- 0

accVars == <<accS, accSep, accCfg, accUsers, accOld>>

MCInit == /\ Init
          /\ \/ role \in {"initiator", "acceptor"} /\ Acceptor!Init
             \/ role = "repeated" /\ Repeated!Init
MCNext == \/ role = "initiator" /\ Next /\ UNCHANGED <<accVars, role>>
          \/ role = "acceptor" /\ Acceptor!Next /\ UNCHANGED <<vars, role>>
          \/ role = "repeated" /\ Repeated!Next /\ UNCHANGED <<vars, role>>
MCSpec == MCInit /\ [][MCNext]_<<vars, accVars, role>> /\ Fairness

\* The same of an acceptor: users keep their references over the loss of the
\* connection, two SEPs share the session's pending_open and queues, and an endpoint
\* answers Set Configuration arbitrarily late.  And of one whose peer repeats an Open:
\* a timer that was overwritten expires beside the one in its place.
AcceptorSafe == IF role = "repeated" THEN Repeated!SessionSafe ELSE Acceptor!SessionSafe
=============================================================================
