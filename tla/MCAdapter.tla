----------------------------- MODULE MCAdapter -----------------------------
(***************************************************************************)
(* One run for the parts of the daemon that deal with remote devices and    *)
(* share no state: Discovery, Control and GAttrib, with the constants of    *)
(* the configuration, Bonding, AttribServer and GattProcedures.  The        *)
(* controller waits for two of the events: they share the player's answers  *)
(* with the commands.                                                       *)
(***************************************************************************)
EXTENDS Discovery, Control, GAttrib \* their variables are w, c and t

VARIABLES part, \* which of them runs
          bonding, gatt, procedures

Bonding == INSTANCE Bonding WITH
  b <- bonding, Devices <- {"d1"}, AuthTypes <- {"pin", "confirm", "consent", "notify"},
  Environment <- {"leave", "remove", "discover", "other", "power"}

\* Sizes and room are such that answers fill up, and end early where the size of
\* the UUIDs changes, within the database and at its border with the servers.
Attribute(type, size, val) == [type |-> type, size |-> size, val |-> val]
Own(h, type, size, val) == [h |-> h, type |-> type, size |-> size, val |-> val]
Gatt == INSTANCE AttribServer WITH
  g <- gatt,
  Builtin <- <<Own(1, "prim", 16, "s"), Own(3, "char", 16, "x"), Own(4, "clicfg", 16, "x"),
               Own(6, "prim", 128, "s")>>,
  Attrs <- [p1 |-> <<Attribute("prim", 16, "s"), Attribute("char", 16, "x"),
                     Attribute("clicfg", 16, "x")>>,
            p2 |-> <<Attribute("prim", 128, "s"), Attribute("char", 128, "x"),
                     Attribute("prim", 16, "t")>>],
  Restricted <- {"p2"}, Room <- [s \in {0, 16, 128} |-> IF s = 128 THEN 1 ELSE 2],
  HandleSpace <- 64, Ends <- {30}, MaxSerial <- 3, Environment <- {"fails", "read"}

\* The name is read in three pieces; a notification of the value that is set just fits the MTU.
Procedures == INSTANCE GattProcedures WITH
  s <- procedures, Mtus <- {<<23, 23>>}, Levels <- {"medium"}, Names <- {44}, Lengths <- {20}, MaxChanges <- 2,
  Environment <- {}

parts == <<part, bonding, gatt, procedures>>

MCInit == /\ Init /\ ControlInit /\ AttInit /\ Bonding!Init /\ Gatt!Init
          /\ \/ part \in {"discovery", "bonding", "gatt", "control", "att"} /\ procedures = <<>>
             \/ part = "procedures" /\ Procedures!Init
MCNext == \/ part = "discovery" /\ Next /\ UNCHANGED <<c, t, parts>>
          \/ part = "control" /\ ControlNext /\ UNCHANGED <<vars, t, parts>>
          \/ part = "att" /\ AttNext /\ UNCHANGED <<vars, c, parts>>
          \/ part = "bonding" /\ Bonding!Next /\ UNCHANGED <<vars, c, t, part, gatt, procedures>>
          \/ part = "gatt" /\ Gatt!Next /\ UNCHANGED <<vars, c, t, part, bonding, procedures>>
          \/ part = "procedures" /\ Procedures!Next /\ UNCHANGED <<vars, c, t, part, bonding, gatt>>
MCSpec == MCInit /\ [][MCNext]_<<vars, c, t, parts>>

-----------------------------------------------------------------------------

\* A reply of an agent never reaches a freed authentication request: every path of
\* device.c that frees it cancels the call; and authr->agent is not used after the
\* agent has gone.  What the kernel asks is never forgotten: an agent has the question
\* and its reply will be passed on, or the link is being closed.  An authentication
\* request stays only as long as the kernel pairs, and CancelDeviceCreation is
\* answered when the link goes: it is going.
BondingSafe == /\ Bonding!NoStaleCall /\ Bonding!AuthAgentLive
               /\ Bonding!KernelAnswered /\ Bonding!AuthUnderWay /\ Bonding!CancelAnswered

\* A client that lists attributes answer by answer is told each once, in order,
\* over the database and all servers on D-Bus (attrib-server.c, read_by_group and
\* the other three with their replies); it misses none but those of servers that
\* did not answer.  The procedures of a client (gatt.c) find every service and
\* characteristic with such lists and read values whole, piece by piece as they fit
\* the MTU, and it is told once of each change that it has configured.
GattListsAll == /\ Gatt!ListsAll
                /\ part = "procedures" => Procedures!Found /\ Procedures!Told /\ Procedures!Sound

\* The channel's GAttrib has a reference for each that waits for it; a client
\* that wants to know of changed services is told, also of changes while it was
\* away; the servers know the configurations of the session, and none after it, but
\* for those whose write they did not answer in time or before the link was lost.
GattSession == Gatt!References /\ Gatt!ChangeIndicated /\ Gatt!ConfigsKnown
=============================================================================
