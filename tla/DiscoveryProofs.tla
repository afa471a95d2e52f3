-------------------------- MODULE DiscoveryProofs --------------------------
(***************************************************************************)
(* For every number of clients and devices, and every bound: oor_devices   *)
(* never points to a freed device, a name resolution always has a name to  *)
(* wait for, and the fields keep their types.                              *)
(***************************************************************************)
EXTENDS Discovery, TLAPS

Commands == {"start", "stop"} \cup Devices

Fields == {"up", "state", "refs", "scheduler_id", "orphans", "found", "named", "le",
           "oor", "bonding", "commands", "discovering", "asked"}

\* v is a record of the fields that Init gives w; the values of most fields do
\* not matter here.
IsWorld(v) == v = [f \in Fields |-> v[f]]

\* OorInFound of v, with the type of the list.
Lists(v) == /\ v.found \in [Devices -> NameStatus]
            /\ v.oor \subseteq Listed(v.found)

\* A name is on its way: asked for, or a command to ask for one is.
Waits(v) == v.asked # {} \/ \E i \in DOMAIN v.commands : v.commands[i] \in Devices

\* An adapter that is down is idle, so that the kernel cannot refuse the name
\* request that a resolution waits for.
DownIsIdle(v) == ~v.up => v.state = "IDLE" /\ ~v.discovering

\* What each step of an operation preserves.
Base(v) == /\ IsWorld(v)
           /\ Lists(v)
           /\ v.commands \in Seq(Commands)
           /\ DownIsIdle(v)

Good(v) == Base(v) /\ (v.state = "RESOLVNAME" => Waits(v))

\* The inductive invariant.
IInv == Good(w)

\* u differs from v neither in its lists nor in what the kernel knows.
SameKernel(u, v) == /\ u.up = v.up /\ u.discovering = v.discovering
                    /\ u.commands = v.commands /\ u.asked = v.asked

Same(u, v) == SameKernel(u, v) /\ u.state = v.state /\ u.found = v.found /\ u.oor = v.oor

-----------------------------------------------------------------------------

LEMMA SameGood ==
  ASSUME NEW u, NEW v, IsWorld(u), Same(u, v)
  PROVE  (Base(v) => Base(u)) /\ (Good(v) => Good(u))
  BY Zenon DEF Same, SameKernel, Base, Good, Lists, Waits, DownIsIdle

\* The scheduler's fields are not mentioned by the invariant.
LEMMA Scheduler ==
  ASSUME NEW v, IsWorld(v)
  PROVE  /\ IsWorld(Schedule(v)) /\ Same(Schedule(v), v)
         /\ IsWorld(Unschedule(v)) /\ Same(Unschedule(v), v)
  BY DEF IsWorld, Fields, Schedule, Unschedule, Same, SameKernel

\* A command at the end of the socket leaves those before it.
LEMMA SendGood ==
  ASSUME NEW v, NEW command \in Commands, Base(v)
  PROVE  /\ Base(Send(v, command))
         /\ Send(v, command).state = v.state
         /\ Send(v, command).up = v.up
         /\ Send(v, command).discovering = v.discovering
         /\ Waits(v) \/ command \in Devices => Waits(Send(v, command))
<1> DEFINE u == Send(v, command)
<1>1. /\ IsWorld(u) /\ u.state = v.state /\ u.up = v.up /\ u.discovering = v.discovering
      /\ u.found = v.found /\ u.oor = v.oor /\ u.asked = v.asked
      /\ u.commands = Append(v.commands, command)
  BY DEF Send, Base, IsWorld, Fields
<1>2. v.commands \in Seq(Commands)
  BY DEF Base
<1> HIDE DEF u
<1>3. /\ u.commands \in Seq(Commands)
      /\ \A i \in DOMAIN v.commands : i \in DOMAIN u.commands /\ u.commands[i] = v.commands[i]
      /\ Len(v.commands) + 1 \in DOMAIN u.commands
      /\ u.commands[Len(v.commands) + 1] = command
  BY <1>1, <1>2
<1>4. Base(u)
  BY <1>1, <1>3, Zenon DEF Base, Lists, DownIsIdle
<1>5. Waits(v) \/ command \in Devices => Waits(u)
  BY <1>1, <1>3, Zenon DEF Waits
<1> QED
  BY <1>1, <1>4, <1>5 DEF u

\* The devices that leave the list are those that oor_devices named; it names
\* what is left.
LEMMA UpdateOor ==
  ASSUME NEW v, Base(v)
  PROVE  LET u == update_oor_devices([v EXCEPT !.state = "IDLE"])
         IN  Base(u) /\ u.state = "IDLE" /\ SameKernel(u, v)
<1> DEFINE idle == [v EXCEPT !.state = "IDLE"]
           found == [d \in Devices |-> IF d \in v.oor THEN "no" ELSE v.found[d]]
           u == update_oor_devices(idle)
<1>1. /\ IsWorld(idle) /\ idle.found = v.found /\ idle.oor = v.oor /\ idle.le = v.le
      /\ SameKernel(idle, v) /\ idle.state = "IDLE"
  BY DEF Base, IsWorld, Fields, SameKernel
<1> HIDE DEF idle
<1>2. /\ IsWorld(u) /\ u.found = found /\ u.oor = Listed(found)
      /\ SameKernel(u, idle) /\ u.state = idle.state
  BY <1>1 DEF update_oor_devices, IsWorld, Fields, SameKernel
<1>3. found \in [Devices -> NameStatus]
  BY DEF Base, Lists, NameStatus
<1>4. Base(u) /\ u.state = "IDLE" /\ SameKernel(u, v)
  BY <1>1, <1>2, <1>3, Zenon DEF Base, Lists, DownIsIdle, SameKernel
<1> QED
  BY <1>4 DEF idle

LEMMA SetIdleGood ==
  ASSUME NEW v, Base(v)
  PROVE  /\ Good(SetIdle(v))
         /\ SetIdle(v).state = "IDLE"
         /\ SameKernel(SetIdle(v), v)
<1>1. CASE v.state = "IDLE"
  BY <1>1 DEF SetIdle, Good, SameKernel
<1>2. CASE v.state # "IDLE"
  <2> DEFINE u == update_oor_devices([v EXCEPT !.state = "IDLE"])
  <2>1. Base(u) /\ u.state = "IDLE" /\ SameKernel(u, v)
    BY UpdateOor
  <2>2. SetIdle(v) = IF HasSessions(u) THEN Schedule(u) ELSE u
    BY <1>2 DEF SetIdle
  <2> HIDE DEF u
  <2>3. IsWorld(Schedule(u)) /\ Same(Schedule(u), u)
    BY <2>1, Scheduler DEF Base
  <2>4. /\ Base(Schedule(u)) /\ Schedule(u).state = "IDLE"
        /\ SameKernel(Schedule(u), v)
    BY <2>1, <2>3, SameGood DEF Same, SameKernel
  <2>5. SetIdle(v) = u \/ SetIdle(v) = Schedule(u)
    BY <2>2
  <2>6. Base(SetIdle(v)) /\ SetIdle(v).state = "IDLE" /\ SameKernel(SetIdle(v), v)
    BY <2>1, <2>4, <2>5
  <2> QED
    BY <2>6 DEF Good
<1> QED
  BY <1>1, <1>2

\* The device chosen is in the list, so its name is on its way.
LEMMA AskGood ==
  ASSUME NEW v, Base(v), CanResolve(v), v.state # "SUSPENDED"
  PROVE  /\ Good(adapter_resolve_names(v))
         /\ Waits(adapter_resolve_names(v))
         /\ adapter_resolve_names(v).state = v.state
<1> DEFINE d == CHOOSE e \in Devices : v.found[e] = "required"
           u == [v EXCEPT !.found[d] = "requested"]
<1>1. \E e \in Devices : v.found[e] = "required"
  BY DEF CanResolve, WithStatus
<1>2. d \in Devices /\ v.found[d] = "required"
  BY <1>1
<1>3. adapter_resolve_names(v) = Send(u, d)
  BY DEF adapter_resolve_names
<1> HIDE DEF d
<1>4. /\ IsWorld(u) /\ SameKernel(u, v) /\ u.state = v.state /\ u.oor = v.oor
      /\ u.found = [v.found EXCEPT ![d] = "requested"]
  BY DEF Base, IsWorld, Fields, SameKernel
<1>5. u.found \in [Devices -> NameStatus] /\ Listed(u.found) = Listed(v.found)
  BY <1>2, <1>4 DEF Base, Lists, NameStatus, Listed
<1> HIDE DEF u
<1>6. Base(u)
  BY <1>4, <1>5, Zenon DEF Base, Lists, DownIsIdle, SameKernel
<1>7. /\ Base(Send(u, d)) /\ Waits(Send(u, d)) /\ Send(u, d).state = u.state
  BY <1>2, <1>6, SendGood DEF Commands
<1> QED
  BY <1>3, <1>4, <1>7 DEF Good

LEMMA SetResolvnameGood ==
  ASSUME NEW v, Good(v), v.state = "DISCOV"
  PROVE  Good(SetResolvname(v))
<1> DEFINE u == [v EXCEPT !.state = "RESOLVNAME"]
<1>1. /\ IsWorld(u) /\ SameKernel(u, v) /\ u.state = "RESOLVNAME"
      /\ u.found = v.found /\ u.oor = v.oor
  BY DEF Good, Base, IsWorld, Fields, SameKernel
<1>2. SetResolvname(v) = IF CanResolve(u) THEN adapter_resolve_names(u) ELSE SetIdle(u)
  BY DEF SetResolvname
<1> HIDE DEF u
<1>3. v.state # "IDLE"
  OBVIOUS
<1>4. Base(u)
  BY <1>1, <1>3, Zenon DEF Good, Base, Lists, DownIsIdle, SameKernel
<1>5. CanResolve(u) => Good(adapter_resolve_names(u))
  BY <1>1, <1>4, AskGood
<1>6. Good(SetIdle(u))
  BY <1>4, SetIdleGood
<1> QED
  BY <1>2, <1>5, <1>6

LEMMA CancelGood ==
  ASSUME NEW v, Base(v)
  PROVE  LET u == pending_remote_name_cancel(v)
         IN  /\ Base(u) /\ SameKernel(u, v)
             /\ Good(v) => Good(u)
<1>1. Good(SetIdle(v)) /\ Base(SetIdle(v)) /\ SameKernel(SetIdle(v), v)
  BY SetIdleGood DEF Good
<1>2. SameKernel(v, v)
  BY DEF SameKernel
<1> QED
  BY <1>1, <1>2 DEF pending_remote_name_cancel

\* Commands other than name requests do not end a wait either.
LEMMA SendStaysGood ==
  ASSUME NEW v, NEW command \in {"start", "stop"}, Good(v)
  PROVE  Good(Send(v, command))
  BY SendGood DEF Good, Commands

LEMMA StartGood ==
  ASSUME NEW v, Good(v)
  PROVE  Good(start_discovery(v))
  BY CancelGood, SendStaysGood DEF start_discovery, Good

\* remove_bredr shortens the list, so oor_devices is emptied with it.
LEMMA StopGood ==
  ASSUME NEW v, NEW adapter_stop, Base(v)
  PROVE  /\ Base(stop_discovery(v, adapter_stop))
         /\ Good(v) => Good(stop_discovery(v, adapter_stop))
         /\ stop_discovery(v, adapter_stop).up = v.up
         /\ stop_discovery(v, adapter_stop).discovering = v.discovering
<1> DEFINE c == pending_remote_name_cancel(v)
           r == remove_bredr(c)
           u == [r EXCEPT !.oor = {}]
<1>1. Base(c) /\ (Good(v) => Good(c)) /\ SameKernel(c, v)
  BY CancelGood
<1> HIDE DEF c
<1>2. /\ IsWorld(r) /\ SameKernel(r, c) /\ r.state = c.state
      /\ r.found = [d \in Devices |-> IF d \in c.le THEN c.found[d] ELSE "no"]
  BY <1>1 DEF remove_bredr, Base, IsWorld, Fields, SameKernel
<1>3. r.found \in [Devices -> NameStatus]
  BY <1>1, <1>2 DEF Base, Lists, NameStatus
<1> HIDE DEF r
<1>4. /\ IsWorld(u) /\ SameKernel(u, r) /\ u.state = r.state
      /\ u.found = r.found /\ u.oor = {}
  BY <1>2 DEF IsWorld, Fields, SameKernel
<1> HIDE DEF u
<1>5. /\ SameKernel(u, c) /\ SameKernel(u, v) /\ u.state = c.state
  BY <1>1, <1>2, <1>4 DEF SameKernel
<1>6. Lists(u)
  BY <1>3, <1>4 DEF Lists
<1>7. Base(u) /\ (Good(v) => Good(u))
  BY <1>1, <1>4, <1>5, <1>6, Zenon DEF Good, Base, DownIsIdle, Waits, SameKernel
<1>8. Good(SetIdle(u)) /\ Base(SetIdle(u)) /\ SameKernel(SetIdle(u), u)
  BY <1>7, SetIdleGood DEF Good
<1>9. /\ Base(Unschedule(u)) /\ (Good(v) => Good(Unschedule(u)))
      /\ SameKernel(Unschedule(u), u)
  BY <1>4, <1>7, Scheduler, SameGood DEF Same
<1>10. /\ Base(Send(Unschedule(u), "stop"))
       /\ Good(v) => Good(Send(Unschedule(u), "stop"))
       /\ Send(Unschedule(u), "stop").up = v.up
       /\ Send(Unschedule(u), "stop").discovering = v.discovering
  BY <1>5, <1>9, SendStaysGood, SendGood DEF Commands, SameKernel
<1>11. stop_discovery(v, adapter_stop) \in
         {SetIdle(u), Send(Unschedule(u), "stop"), Unschedule(u)}
  BY DEF stop_discovery, u, r, c
<1> QED
  BY <1>5, <1>8, <1>9, <1>10, <1>11 DEF SameKernel

LEMMA SuspendGood ==
  ASSUME NEW v, Good(v), v.up
  PROVE  Good(SetSuspended(v))
<1> DEFINE s == [v EXCEPT !.state = "SUSPENDED", !.oor = {}]
<1>1. /\ IsWorld(s) /\ SameKernel(s, v) /\ s.state = "SUSPENDED"
      /\ s.found = v.found /\ s.oor = {}
  BY DEF Good, Base, IsWorld, Fields, SameKernel
<1> HIDE DEF s
<1>2. Lists(s)
  BY <1>1 DEF Good, Base, Lists
<1>3. Base(s)
  BY <1>1, <1>2, Zenon DEF Good, Base, DownIsIdle, SameKernel
<1>4. Good(s)
  BY <1>1, <1>3 DEF Good
<1>5. Good(Unschedule(s))
  BY <1>1, <1>4, Scheduler, SameGood
<1> QED
  BY <1>5, SendStaysGood DEF SetSuspended, s

LEMMA BondingFreeGood ==
  ASSUME NEW v, Base(v)
  PROVE  /\ Base(bonding_request_free(v))
         /\ Good(v) => Good(bonding_request_free(v))
         /\ SameKernel(bonding_request_free(v), v)
<1> DEFINE u == [v EXCEPT !.bonding = FALSE]
<1>1. IsWorld(u) /\ Same(u, v)
  BY DEF Base, IsWorld, Fields, Same, SameKernel
<1> HIDE DEF u
<1>2. Base(u)
  BY <1>1, SameGood
<1>3. Good(SetIdle(u)) /\ Base(SetIdle(u)) /\ SameKernel(SetIdle(u), v)
  BY <1>1, <1>2, SetIdleGood DEF Good, Same, SameKernel
<1>4. SameKernel(v, v)
  BY DEF SameKernel
<1>5. bonding_request_free(v) \in {SetIdle(u), v}
  BY DEF bonding_request_free, adapter_resume_discovery, u
<1> QED
  BY <1>3, <1>4, <1>5

LEMMA RefsGood ==
  ASSUME NEW v, NEW refs, Base(v)
  PROVE  LET u == [v EXCEPT !.refs = refs]
         IN  /\ Base(u) /\ u.discovering = v.discovering
             /\ Good(v) => Good(u)
<1> DEFINE u == [v EXCEPT !.refs = refs]
<1>1. IsWorld(u) /\ Same(u, v)
  BY DEF Base, IsWorld, Fields, Same, SameKernel
<1> HIDE DEF u
<1>2. Base(u) /\ (Good(v) => Good(u)) /\ u.discovering = v.discovering
  BY <1>1, SameGood DEF Same, SameKernel
<1> QED
  BY <1>2 DEF u

\* The same for one client's entry.
LEMMA RefGood ==
  ASSUME NEW v, NEW c, NEW n, Good(v)
  PROVE  Good([v EXCEPT !.refs[c] = n])
<1>1. [v EXCEPT !.refs[c] = n] = [v EXCEPT !.refs = [v.refs EXCEPT ![c] = n]]
  OBVIOUS
<1> QED
  BY <1>1, RefsGood DEF Good

LEMMA SessionFreeGood ==
  ASSUME NEW v, NEW c, Good(v)
  PROVE  Good(session_free(v, c))
<1> DEFINE u == [v EXCEPT !.refs[c] = 0]
<1>1. Good(u)
  BY RefGood
<1> HIDE DEF u
<1>2. Good(stop_discovery(u, TRUE))
  BY <1>1, StopGood DEF Good
<1> QED
  BY <1>1, <1>2 DEF session_free, u

\* The kernel's discovery has ended before btd_adapter_stop is called.
LEMMA AdapterStopGood ==
  ASSUME NEW v, Base(v), ~v.discovering
  PROVE  Good(btd_adapter_stop(v))
<1> DEFINE b == bonding_request_free(v)
           stopped == stop_discovery(b, FALSE)
           freed == [stopped EXCEPT !.refs = [c \in Clients |-> 0]]
           u == IF HasSessions(stopped) THEN stop_discovery(freed, TRUE) ELSE freed
           r == [u EXCEPT !.up = FALSE, !.state = "IDLE"]
<1>1. Base(b) /\ ~b.discovering
  BY BondingFreeGood DEF SameKernel
<1> HIDE DEF b
<1>2. Base(stopped) /\ ~stopped.discovering
  BY <1>1, StopGood
<1> HIDE DEF stopped
<1>3. Base(freed) /\ ~freed.discovering
  BY <1>2, RefsGood
<1> HIDE DEF freed
<1>4. Base(stop_discovery(freed, TRUE)) /\ ~stop_discovery(freed, TRUE).discovering
  BY <1>3, StopGood
<1>5. Base(u) /\ ~u.discovering
  BY <1>3, <1>4
<1> HIDE DEF u
<1>6. /\ IsWorld(r) /\ r.state = "IDLE" /\ r.found = u.found /\ r.oor = u.oor
      /\ r.commands = u.commands /\ r.discovering = u.discovering
  BY <1>5 DEF Base, IsWorld, Fields
<1> HIDE DEF r
<1>7. Base(r)
  BY <1>5, <1>6, Zenon DEF Base, Lists, DownIsIdle
<1>8. Good(r)
  BY <1>6, <1>7 DEF Good
<1> QED
  BY <1>8 DEF btd_adapter_stop, r, u, freed, stopped, b

LEMMA DiscoveringGood ==
  ASSUME NEW v, NEW val \in BOOLEAN, Good(v), val => v.up
  PROVE  Good(mgmt_discovering(v, val))
<1>1. CASE val
  <2> DEFINE u == SetDiscov(v)
  <2>1. /\ IsWorld(u) /\ SameKernel(u, v) /\ u.state = "DISCOV"
        /\ u.found = v.found /\ u.oor = v.oor
    BY DEF SetDiscov, Good, Base, IsWorld, Fields, SameKernel
  <2> HIDE DEF u
  <2>2. Base(u)
    BY <1>1, <2>1, Zenon DEF Good, Base, Lists, DownIsIdle, SameKernel
  <2>3. Good(u)
    BY <2>1, <2>2 DEF Good
  <2> QED
    BY <1>1, <2>3 DEF mgmt_discovering, u
<1>2. CASE ~val /\ v.state = "DISCOV"
  BY <1>2, SetResolvnameGood DEF mgmt_discovering
<1>3. CASE ~val /\ v.state # "DISCOV"
  BY <1>3, SetIdleGood DEF mgmt_discovering, Good
<1> QED
  BY <1>1, <1>2, <1>3

LEMMA RemoteNameGood ==
  ASSUME NEW v, Base(v)
  PROVE  Good(remote_name(v))
<1>1. CASE CanResolve(v) /\ v.state # "SUSPENDED"
  BY <1>1, AskGood DEF remote_name
<1>2. CASE CanResolve(v) /\ v.state = "SUSPENDED"
  BY <1>2 DEF remote_name, adapter_resolve_names, Good
<1>3. CASE ~CanResolve(v) /\ v.state = "RESOLVNAME"
  BY <1>3, SetIdleGood DEF remote_name
<1>4. CASE ~CanResolve(v) /\ v.state # "RESOLVNAME"
  BY <1>4 DEF remote_name, Good
<1> QED
  BY <1>1, <1>2, <1>3, <1>4

-----------------------------------------------------------------------------
(* The actions.                                                            *)

LEMMA StartAction ==
  ASSUME NEW c \in Clients, IInv, adapter_start_discovery(c)
  PROVE  IInv'
<1> DEFINE u == [w EXCEPT !.refs[c] = @ + 1]
           cleared == [w EXCEPT !.found = [d \in Devices |-> "no"], !.le = {}, !.oor = {}]
           s == start_discovery(cleared)
<1>1. Good(u)
  BY RefGood DEF IInv
<1>2. /\ IsWorld(cleared) /\ SameKernel(cleared, w) /\ cleared.state = w.state
      /\ cleared.found = [d \in Devices |-> "no"] /\ cleared.oor = {}
  BY DEF IInv, Good, Base, IsWorld, Fields, SameKernel
<1>3. w' = u \/ w' = [s EXCEPT !.refs[c] = 1]
  BY DEF adapter_start_discovery
<1> HIDE DEF cleared
<1>4. Lists(cleared)
  BY <1>2 DEF Lists, NameStatus
<1>5. Good(cleared)
  BY <1>2, <1>4, Zenon DEF IInv, Good, Base, DownIsIdle, Waits, SameKernel
<1>6. Good(s)
  BY <1>5, StartGood
<1> HIDE DEF s
<1>7. Good([s EXCEPT !.refs[c] = 1])
  BY <1>6, RefGood
<1> QED
  BY <1>1, <1>3, <1>7 DEF IInv

LEMMA StopAction ==
  ASSUME NEW c \in Clients, IInv, adapter_stop_discovery(c) \/ session_owner_exit(c)
  PROVE  IInv'
<1>1. w' = [w EXCEPT !.refs[c] = @ - 1] \/ w' = session_free(w, c)
  BY DEF adapter_stop_discovery, session_owner_exit
<1>2. Good([w EXCEPT !.refs[c] = @ - 1])
  BY RefGood DEF IInv
<1>3. Good(session_free(w, c))
  BY SessionFreeGood DEF IInv
<1> QED
  BY <1>1, <1>2, <1>3 DEF IInv

LEMMA TimerAction ==
  ASSUME NEW which \in {"live", "orphan"}, IInv, discovery_cb(which)
  PROVE  IInv'
<1> DEFINE u == IF which = "live" THEN [w EXCEPT !.scheduler_id = "stale"]
                                  ELSE [w EXCEPT !.orphans = @ - 1]
<1>1. IsWorld(u) /\ Same(u, w)
  BY DEF IInv, Good, Base, IsWorld, Fields, Same, SameKernel
<1>2. w' = start_discovery(u)
  BY DEF discovery_cb
<1> HIDE DEF u
<1>3. Good(u)
  BY <1>1, SameGood DEF IInv
<1> QED
  BY <1>2, <1>3, StartGood DEF IInv

LEMMA BondingAction ==
  ASSUME IInv, BondingBegins \/ BondingEnds
  PROVE  IInv'
<1>1. CASE BondingBegins
  <2> DEFINE u == [w EXCEPT !.bonding = TRUE]
  <2>1. IsWorld(u) /\ Same(u, w)
    BY DEF IInv, Good, Base, IsWorld, Fields, Same, SameKernel
  <2>2. w' \in {SetSuspended(u), u} /\ w.up
    BY <1>1 DEF BondingBegins
  <2> HIDE DEF u
  <2>3. Good(u) /\ u.up
    BY <2>1, <2>2, SameGood DEF IInv, Same, SameKernel
  <2>4. Good(SetSuspended(u))
    BY <2>3, SuspendGood
  <2> QED
    BY <2>2, <2>3, <2>4 DEF IInv
<1>2. CASE BondingEnds
  BY <1>2, BondingFreeGood DEF BondingEnds, IInv, Good
<1> QED
  BY <1>1, <1>2

\* A name request that the kernel takes from the socket is one it is asking
\* for: an adapter that resolves names is up.
LEMMA ExecuteAction ==
  ASSUME IInv, KernelExecutes
  PROVE  IInv'
<1> DEFINE command == Head(w.commands)
           v == [w EXCEPT !.commands = Tail(@)]
           on == [v EXCEPT !.discovering = TRUE]
           off == [v EXCEPT !.discovering = FALSE]
           a == [v EXCEPT !.asked = @ \cup {command}]
<1>1. w.commands \in Seq(Commands) /\ w.commands # << >>
  BY DEF IInv, Good, Base, KernelExecutes
<1>2. /\ command \in Commands /\ Tail(w.commands) \in Seq(Commands)
      /\ Len(w.commands) \in Nat /\ Len(w.commands) > 0
      /\ DOMAIN w.commands = 1..Len(w.commands)
      /\ DOMAIN Tail(w.commands) = 1..Len(w.commands) - 1
      /\ \A i \in 1..Len(w.commands) - 1 : Tail(w.commands)[i] = w.commands[i + 1]
      /\ w.commands[1] = command
  BY <1>1
<1>3. \A i \in DOMAIN w.commands : \/ i = 1
                                   \/ /\ i - 1 \in DOMAIN Tail(w.commands)
                                      /\ Tail(w.commands)[i - 1] = w.commands[i]
  BY <1>2
<1>4. /\ IsWorld(v) /\ v.commands = Tail(w.commands) /\ v.asked = w.asked /\ v.up = w.up
      /\ v.state = w.state /\ v.found = w.found /\ v.oor = w.oor
      /\ v.discovering = w.discovering
  BY DEF IInv, Good, Base, IsWorld, Fields
<1>5. w' = CASE command = "start" /\ v.up /\ ~v.discovering -> mgmt_discovering(on, TRUE)
             [] command = "stop" /\ v.discovering -> mgmt_discovering(off, FALSE)
             [] command \in Devices /\ v.up -> a
             [] OTHER -> v
  BY DEF KernelExecutes
<1> HIDE DEF v, command
<1>6. Base(v)
  BY <1>2, <1>4, Zenon DEF IInv, Good, Base, Lists, DownIsIdle
<1>7. command \notin Devices => Good(v)
  <2> SUFFICES ASSUME command \notin Devices, Waits(w)
               PROVE  Waits(v)
    BY <1>4, <1>6 DEF Good, IInv
  <2>1. CASE w.asked # {}
    BY <2>1, <1>4 DEF Waits
  <2>2. CASE \E i \in DOMAIN w.commands : w.commands[i] \in Devices
    BY <2>2, <1>2, <1>3, <1>4, Zenon DEF Waits
  <2> QED
    BY <2>1, <2>2 DEF Waits
<1>8. CASE command = "start" /\ v.up /\ ~v.discovering
  <2>1. /\ IsWorld(on) /\ on.up = v.up /\ on.commands = v.commands /\ on.asked = v.asked
        /\ on.state = v.state /\ on.found = v.found /\ on.oor = v.oor
    BY <1>4 DEF IsWorld, Fields
  <2>2. command \notin Devices
    BY <1>8, ConstantsAssumption
  <2> HIDE DEF on
  <2>3. Good(on) /\ on.up
    BY <1>7, <1>8, <2>1, <2>2, Zenon DEF Good, Base, Lists, DownIsIdle, Waits
  <2>4. w' = mgmt_discovering(on, TRUE)
    BY <1>5, <1>8, <2>2
  <2> QED
    BY <2>3, <2>4, DiscoveringGood DEF IInv
<1>9. CASE command = "stop" /\ v.discovering
  <2>1. /\ IsWorld(off) /\ off.up = v.up /\ off.commands = v.commands
        /\ off.asked = v.asked /\ off.state = v.state /\ off.found = v.found
        /\ off.oor = v.oor /\ off.discovering = FALSE
    BY <1>4 DEF IsWorld, Fields
  <2>2. command \notin Devices
    BY <1>9, ConstantsAssumption
  <2> HIDE DEF off
  <2>3. Good(off)
    BY <1>7, <2>1, <2>2, Zenon DEF Good, Base, Lists, DownIsIdle, Waits
  <2>4. w' = mgmt_discovering(off, FALSE)
    BY <1>5, <1>9, <2>2
  <2> QED
    BY <2>3, <2>4, DiscoveringGood DEF IInv
<1>10. CASE command \in Devices /\ v.up
  <2>1. /\ IsWorld(a) /\ a.up = v.up /\ a.commands = v.commands
        /\ a.asked = v.asked \cup {command} /\ a.state = v.state /\ a.found = v.found
        /\ a.oor = v.oor /\ a.discovering = v.discovering
    BY <1>4 DEF IsWorld, Fields
  <2>2. w' = a
    BY <1>5, <1>10, ConstantsAssumption
  <2> HIDE DEF a
  <2>3. Base(a)
    BY <1>6, <2>1, Zenon DEF Base, Lists, DownIsIdle
  <2> QED
    BY <2>1, <2>2, <2>3 DEF Good, Waits, IInv
<1>11. CASE /\ ~(command = "start" /\ v.up /\ ~v.discovering)
            /\ ~(command = "stop" /\ v.discovering)
            /\ ~(command \in Devices /\ v.up)
  <2>1. w' = v
    BY <1>5, <1>11
  <2>2. CASE command \in Devices
    <3>1. v.state = "IDLE"
      BY <1>6, <1>11, <2>2, Zenon DEF Base, DownIsIdle
    <3> QED
      BY <1>6, <2>1, <3>1 DEF Good, IInv
  <2> QED
    BY <1>7, <2>1, <2>2 DEF IInv
<1> QED
  BY <1>8, <1>9, <1>10, <1>11

LEMMA FinishAction ==
  ASSUME IInv, KernelFinishes
  PROVE  IInv'
<1> DEFINE off == [w EXCEPT !.discovering = FALSE]
<1>1. /\ IsWorld(off) /\ off.up = w.up /\ off.commands = w.commands
      /\ off.asked = w.asked /\ off.state = w.state /\ off.found = w.found
      /\ off.oor = w.oor /\ off.discovering = FALSE
  BY DEF IInv, Good, Base, IsWorld, Fields
<1>2. w' = mgmt_discovering(off, FALSE)
  BY DEF KernelFinishes
<1> HIDE DEF off
<1>3. Good(off)
  BY <1>1, Zenon DEF IInv, Good, Base, Lists, DownIsIdle, Waits
<1> QED
  BY <1>2, <1>3, DiscoveringGood DEF IInv

\* A device found is in the list and not in oor_devices.
LEMMA FoundAction ==
  ASSUME NEW d \in Devices, NEW how \in {"bredr", "le", "dual"}, NEW has_name \in BOOLEAN,
         NEW status \in {"required", "not_required", "short"},
         IInv, DeviceFound(d, how, status, has_name)
  PROVE  IInv'
<1>1. /\ w'.up = w.up /\ w'.state = w.state /\ w'.commands = w.commands
      /\ w'.discovering = w.discovering /\ w'.asked = w.asked
      /\ w'.oor = w.oor \ {d} /\ IsWorld(w')
      /\ \/ w'.found = w.found
         \/ w'.found = [w.found EXCEPT ![d] = status]
  BY DEF DeviceFound, IInv, Good, Base, Lists, IsWorld, Fields
<1>2. Lists(w)
  BY DEF IInv, Good, Base
<1>3. Lists(w')
  BY <1>1, <1>2 DEF Lists, Listed, NameStatus
<1> QED
  BY <1>1, <1>3, Zenon DEF IInv, Good, Base, DownIsIdle, Waits

LEMMA NameAction ==
  ASSUME NEW d \in Devices, NEW ok \in BOOLEAN, IInv, RemoteName(d, ok)
  PROVE  IInv'
<1> DEFINE listed == w.found[d] # "no"
           a == [w EXCEPT !.asked = @ \ {d},
                          !.named = IF ok /\ listed THEN @ \cup {d} ELSE @,
                          !.found[d] = IF listed THEN "not_required" ELSE @]
<1>1. /\ IsWorld(a) /\ a.up = w.up /\ a.commands = w.commands /\ a.state = w.state
      /\ a.oor = w.oor /\ a.discovering = w.discovering
      /\ a.found = [w.found EXCEPT ![d] = IF listed THEN "not_required" ELSE @]
  BY DEF IInv, Good, Base, IsWorld, Fields
<1>2. w' = remote_name(a)
  BY DEF RemoteName
<1> HIDE DEF a
<1>3. Lists(w)
  BY DEF IInv, Good, Base
<1>4. Lists(a)
  BY <1>1, <1>3 DEF Lists, Listed, NameStatus
<1>5. Base(a)
  BY <1>1, <1>4, Zenon DEF IInv, Good, Base, DownIsIdle
<1> QED
  BY <1>2, <1>5, RemoteNameGood DEF IInv

LEMMA PowerAction ==
  ASSUME IInv, PowerOff \/ PowerOn
  PROVE  IInv'
<1>1. CASE PowerOff
  <2> DEFINE off == [w EXCEPT !.discovering = FALSE, !.asked = {}]
  <2>1. /\ IsWorld(off) /\ off.up = w.up /\ off.commands = w.commands
        /\ off.state = w.state /\ off.found = w.found /\ off.oor = w.oor
        /\ off.discovering = FALSE
    BY DEF IInv, Good, Base, IsWorld, Fields
  <2>2. w' = btd_adapter_stop(off)
    BY <1>1 DEF PowerOff
  <2> HIDE DEF off
  <2>3. Base(off)
    BY <2>1, Zenon DEF IInv, Good, Base, Lists, DownIsIdle
  <2> QED
    BY <2>1, <2>2, <2>3, AdapterStopGood DEF IInv
<1>2. CASE PowerOn
  <2>1. /\ IsWorld(w') /\ w'.up = TRUE /\ w'.commands = w.commands
        /\ w'.state = "IDLE" /\ w'.found = w.found /\ w'.oor = w.oor
    BY <1>2 DEF PowerOn, IInv, Good, Base, IsWorld, Fields
  <2>2. Base(w')
    BY <2>1, Zenon DEF IInv, Good, Base, Lists, DownIsIdle
  <2> QED
    BY <2>1, <2>2 DEF IInv, Good
<1> QED
  BY <1>1, <1>2

-----------------------------------------------------------------------------

LEMMA InitGood == Init => IInv
<1> SUFFICES ASSUME Init
             PROVE  IInv
  OBVIOUS
<1>1. /\ IsWorld(w) /\ w.up = TRUE /\ w.state = "IDLE"
      /\ w.found = [d \in Devices |-> "no"] /\ w.oor = {} /\ w.commands = << >>
  BY DEF Init, IsWorld, Fields
<1>2. Lists(w)
  BY <1>1 DEF Lists, NameStatus
<1>3. << >> \in Seq(Commands)
  OBVIOUS
<1>4. Base(w)
  BY <1>1, <1>2, <1>3, Zenon DEF Base, DownIsIdle
<1> QED
  BY <1>1, <1>4 DEF IInv, Good

LEMMA NextGood == IInv /\ [Next]_vars => IInv'
<1> SUFFICES ASSUME IInv, [Next]_vars
             PROVE  IInv'
  OBVIOUS
<1>1. ASSUME NEW c \in Clients, adapter_start_discovery(c)
      PROVE  IInv'
  BY <1>1, StartAction
<1>2. ASSUME NEW c \in Clients, adapter_stop_discovery(c) \/ session_owner_exit(c)
      PROVE  IInv'
  BY <1>2, StopAction
<1>3. ASSUME NEW which \in {"live", "orphan"}, discovery_cb(which)
      PROVE  IInv'
  BY <1>3, TimerAction
<1>4. CASE BondingBegins \/ BondingEnds
  BY <1>4, BondingAction
<1>5. CASE KernelExecutes
  BY <1>5, ExecuteAction
<1>6. CASE KernelFinishes
  BY <1>6, FinishAction
<1>7. ASSUME NEW d \in Devices, NEW how \in {"bredr", "le", "dual"},
             NEW has_name \in BOOLEAN, NEW status \in {"required", "not_required", "short"},
             DeviceFound(d, how, status, has_name)
      PROVE  IInv'
  BY <1>7, FoundAction
<1>8. ASSUME NEW d \in Devices, NEW ok \in BOOLEAN, RemoteName(d, ok)
      PROVE  IInv'
  BY <1>8, NameAction
<1>9. CASE PowerOff \/ PowerOn
  BY <1>9, PowerAction
<1>10. CASE UNCHANGED vars
  BY <1>10 DEF vars, IInv
<1> QED
  BY <1>1, <1>2, <1>3, <1>4, <1>5, <1>6, <1>7, <1>8, <1>9, <1>10, Zenon DEF Next

LEMMA Invariance == Spec => []IInv
  BY InitGood, NextGood, PTL DEF Spec

\* oor_devices never points to a device that update_oor_devices, remove_bredr
\* or a new session has freed, whatever the clients, devices and bounds.
THEOREM OorTheorem == Spec => []OorInFound
<1>1. IInv => OorInFound
  BY DEF IInv, Good, Base, Lists, OorInFound
<1> QED
  BY <1>1, Invariance, PTL

\* adapter_set_state never stays in STATE_RESOLVNAME without a name request
\* that the kernel has or will take from the socket.
THEOREM ResolvingTheorem == Spec => []Resolving
<1>1. IInv => Resolving
  BY DEF IInv, Good, Waits, Resolving
<1> QED
  BY <1>1, Invariance, PTL

-----------------------------------------------------------------------------
(* Type correctness, of the fields that IInv leaves open.                  *)

Typed(v) ==
  /\ v.up \in BOOLEAN /\ v.bonding \in BOOLEAN /\ v.discovering \in BOOLEAN
  /\ v.state \in {"IDLE", "DISCOV", "RESOLVNAME", "SUSPENDED"}
  /\ v.refs \in [Clients -> 0..MaxRefs]
  /\ v.scheduler_id \in {"none", "live", "stale"}
  /\ v.orphans \in Nat
  /\ v.named \subseteq Devices /\ v.le \subseteq Devices /\ v.asked \subseteq Devices

LEMMA ScheduleTyped ==
  ASSUME NEW v, IsWorld(v), Typed(v)
  PROVE  Typed(Schedule(v)) /\ Typed(Unschedule(v))
  BY DEF IsWorld, Fields, Schedule, Unschedule, Typed

LEMMA SendTyped ==
  ASSUME NEW v, NEW command, IsWorld(v), Typed(v)
  PROVE  Typed(Send(v, command))
  BY DEF IsWorld, Fields, Send, Typed

LEMMA StateTyped ==
  ASSUME NEW v, NEW state \in {"IDLE", "DISCOV", "RESOLVNAME", "SUSPENDED"},
         IsWorld(v), Typed(v)
  PROVE  Typed([v EXCEPT !.state = state])
  BY DEF IsWorld, Fields, Typed

LEMMA SetIdleTyped ==
  ASSUME NEW v, Base(v), Typed(v)
  PROVE  Typed(SetIdle(v))
<1> DEFINE idle == [v EXCEPT !.state = "IDLE"]
           u == update_oor_devices(idle)
<1>1. IsWorld(idle) /\ Typed(idle)
  BY StateTyped DEF Base, IsWorld, Fields
<1> HIDE DEF idle
<1>2. IsWorld(u) /\ Typed(u)
  BY <1>1 DEF update_oor_devices, IsWorld, Fields, Typed
<1>3. SetIdle(v) \in {v, Schedule(u), u}
  BY DEF SetIdle, idle
<1> HIDE DEF u
<1> QED
  BY <1>2, <1>3, ScheduleTyped

LEMMA AskTyped ==
  ASSUME NEW v, Base(v), Typed(v)
  PROVE  Typed(adapter_resolve_names(v))
<1> DEFINE d == CHOOSE e \in Devices : v.found[e] = "required"
           u == [v EXCEPT !.found[d] = "requested"]
<1>1. adapter_resolve_names(v) \in {v, Send(u, d)}
  BY DEF adapter_resolve_names
<1> HIDE DEF d
<1>2. IsWorld(u) /\ Typed(u)
  BY DEF Base, IsWorld, Fields, Typed
<1> HIDE DEF u
<1> QED
  BY <1>1, <1>2, SendTyped

LEMMA CancelTyped ==
  ASSUME NEW v, Base(v), Typed(v)
  PROVE  Typed(pending_remote_name_cancel(v))
  BY SetIdleTyped DEF pending_remote_name_cancel

LEMMA StartTyped ==
  ASSUME NEW v, Base(v), Typed(v)
  PROVE  Typed(start_discovery(v))
<1>1. LET u == pending_remote_name_cancel(v) IN IsWorld(u) /\ Typed(u)
  BY CancelGood, CancelTyped DEF Base
<1> QED
  BY <1>1, SendTyped DEF start_discovery

LEMMA StopTyped ==
  ASSUME NEW v, NEW adapter_stop, Base(v), Typed(v)
  PROVE  Typed(stop_discovery(v, adapter_stop))
<1> DEFINE c == pending_remote_name_cancel(v)
           r == remove_bredr(c)
           u == [r EXCEPT !.oor = {}]
<1>1. Base(c) /\ Typed(c)
  BY CancelGood, CancelTyped
<1> HIDE DEF c
<1>2. /\ IsWorld(r) /\ Typed(r) /\ r.commands = c.commands
      /\ r.found = [d \in Devices |-> IF d \in c.le THEN c.found[d] ELSE "no"]
      /\ r.up = c.up /\ r.state = c.state /\ r.discovering = c.discovering
  BY <1>1 DEF remove_bredr, Base, IsWorld, Fields, Typed
<1> HIDE DEF r
<1>3. /\ IsWorld(u) /\ Typed(u) /\ u.commands = c.commands /\ u.found = r.found /\ u.oor = {}
      /\ u.up = c.up /\ u.state = c.state /\ u.discovering = c.discovering
  BY <1>2 DEF IsWorld, Fields, Typed
<1> HIDE DEF u
<1>4. Lists(u)
  BY <1>1, <1>2, <1>3 DEF Base, Lists, NameStatus
<1>5. Base(u)
  BY <1>1, <1>3, <1>4, Zenon DEF Base, DownIsIdle
<1>6. Typed(SetIdle(u))
  BY <1>3, <1>5, SetIdleTyped
<1>7. IsWorld(Unschedule(u)) /\ Typed(Unschedule(u))
  BY <1>3, Scheduler, ScheduleTyped
<1>8. Typed(Send(Unschedule(u), "stop"))
  BY <1>7, SendTyped
<1>9. stop_discovery(v, adapter_stop) \in
         {SetIdle(u), Send(Unschedule(u), "stop"), Unschedule(u)}
  BY DEF stop_discovery, u, r, c
<1> QED
  BY <1>6, <1>7, <1>8, <1>9

LEMMA RefsTyped ==
  ASSUME NEW v, NEW refs \in [Clients -> 0..MaxRefs], IsWorld(v), Typed(v)
  PROVE  Typed([v EXCEPT !.refs = refs])
  BY DEF IsWorld, Fields, Typed

LEMMA RefTyped ==
  ASSUME NEW v, NEW c \in Clients, NEW n \in 0..MaxRefs, IsWorld(v), Typed(v)
  PROVE  Typed([v EXCEPT !.refs[c] = n])
<1>1. [v.refs EXCEPT ![c] = n] \in [Clients -> 0..MaxRefs]
  BY DEF Typed
<1>2. [v EXCEPT !.refs[c] = n] = [v EXCEPT !.refs = [v.refs EXCEPT ![c] = n]]
  OBVIOUS
<1> QED
  BY <1>1, <1>2, RefsTyped

LEMMA SessionFreeTyped ==
  ASSUME NEW v, NEW c \in Clients, Good(v), Typed(v)
  PROVE  Typed(session_free(v, c))
<1> DEFINE u == [v EXCEPT !.refs[c] = 0]
<1>1. 0 \in 0..MaxRefs
  BY ConstantsAssumption
<1>2. Good(u) /\ Typed(u)
  BY <1>1, RefGood, RefTyped DEF Good, Base
<1> HIDE DEF u
<1>3. Typed(stop_discovery(u, TRUE))
  BY <1>2, StopTyped DEF Good
<1> QED
  BY <1>2, <1>3 DEF session_free, u

LEMMA BondingFreeTyped ==
  ASSUME NEW v, Base(v), Typed(v)
  PROVE  Typed(bonding_request_free(v))
<1> DEFINE u == [v EXCEPT !.bonding = FALSE]
<1>1. IsWorld(u) /\ Same(u, v) /\ Typed(u)
  BY DEF Base, IsWorld, Fields, Same, SameKernel, Typed
<1>2. bonding_request_free(v) \in {SetIdle(u), v}
  BY DEF bonding_request_free, adapter_resume_discovery
<1> HIDE DEF u
<1>3. Base(u)
  BY <1>1, SameGood
<1> QED
  BY <1>1, <1>2, <1>3, SetIdleTyped

LEMMA AdapterStopTyped ==
  ASSUME NEW v, Base(v), Typed(v)
  PROVE  Typed(btd_adapter_stop(v))
<1> DEFINE b == bonding_request_free(v)
           stopped == stop_discovery(b, FALSE)
           none == [c \in Clients |-> 0]
           freed == [stopped EXCEPT !.refs = none]
           u == IF HasSessions(stopped) THEN stop_discovery(freed, TRUE) ELSE freed
           r == [u EXCEPT !.up = FALSE, !.state = "IDLE"]
<1>1. Base(b) /\ Typed(b)
  BY BondingFreeGood, BondingFreeTyped
<1> HIDE DEF b
<1>2. Base(stopped) /\ Typed(stopped)
  BY <1>1, StopGood, StopTyped
<1> HIDE DEF stopped
<1>3. none \in [Clients -> 0..MaxRefs]
  BY ConstantsAssumption
<1>4. Base(freed) /\ Typed(freed)
  BY <1>2, <1>3, RefsGood, RefsTyped DEF Base
<1> HIDE DEF freed, none
<1>5. Base(stop_discovery(freed, TRUE)) /\ Typed(stop_discovery(freed, TRUE))
  BY <1>4, StopGood, StopTyped
<1>6. Base(u) /\ Typed(u)
  BY <1>4, <1>5
<1> HIDE DEF u
<1>7. Typed(r)
  BY <1>6 DEF Base, IsWorld, Fields, Typed
<1> QED
  BY <1>7 DEF btd_adapter_stop, r, u, freed, none, stopped, b

LEMMA DiscoveringTyped ==
  ASSUME NEW v, NEW val \in BOOLEAN, Base(v), Typed(v)
  PROVE  Typed(mgmt_discovering(v, val))
<1> DEFINE u == [v EXCEPT !.state = "RESOLVNAME"]
<1>1. IsWorld(v) /\ Base(v)
  BY DEF Base
<1>2. Typed(SetDiscov(v)) /\ Typed(u) /\ Typed(SetIdle(v))
  BY <1>1, StateTyped, SetIdleTyped DEF SetDiscov
<1>3. CASE v.state = "DISCOV"
  <2>1. /\ IsWorld(u) /\ SameKernel(u, v) /\ u.state = "RESOLVNAME"
        /\ u.found = v.found /\ u.oor = v.oor
    BY <1>1 DEF IsWorld, Fields, SameKernel
  <2>2. SetResolvname(v) \in {adapter_resolve_names(u), SetIdle(u)}
    BY <1>3 DEF SetResolvname
  <2>3. mgmt_discovering(v, val) \in {SetDiscov(v), SetResolvname(v)}
    BY <1>3 DEF mgmt_discovering
  <2> HIDE DEF u
  <2>4. v.state # "IDLE"
    BY <1>3
  <2>5. Base(u)
    BY <1>1, <2>1, <2>4, Zenon DEF Base, Lists, DownIsIdle, SameKernel
  <2> QED
    BY <1>2, <2>2, <2>3, <2>5, AskTyped, SetIdleTyped
<1>4. CASE v.state # "DISCOV"
  BY <1>2, <1>4 DEF mgmt_discovering
<1> QED
  BY <1>3, <1>4

\* The actions.
LEMMA ClientTyped ==
  ASSUME NEW c \in Clients, IInv, Typed(w),
         adapter_start_discovery(c) \/ adapter_stop_discovery(c) \/ session_owner_exit(c)
  PROVE  Typed(w')
<1>0. Good(w) /\ Base(w) /\ IsWorld(w)
  BY DEF IInv, Good, Base
<1>1. CASE adapter_start_discovery(c)
  <2> DEFINE n == w.refs[c] + 1
             cleared == [w EXCEPT !.found = [d \in Devices |-> "no"], !.le = {}, !.oor = {}]
             s == start_discovery(cleared)
  <2>1. n \in 0..MaxRefs /\ 1 \in 0..MaxRefs
    BY <1>1, ConstantsAssumption DEF adapter_start_discovery, Typed
  <2>2. w' \in {[w EXCEPT !.refs[c] = n], [s EXCEPT !.refs[c] = 1]}
    BY <1>1 DEF adapter_start_discovery
  <2>3. Typed([w EXCEPT !.refs[c] = n])
    BY <1>0, <2>1, RefTyped
  <2>4. /\ IsWorld(cleared) /\ SameKernel(cleared, w) /\ cleared.state = w.state
        /\ cleared.found = [d \in Devices |-> "no"] /\ cleared.oor = {}
        /\ Typed(cleared)
    BY <1>0 DEF IsWorld, Fields, SameKernel, Typed
  <2> HIDE DEF cleared
  <2>5. Lists(cleared)
    BY <2>4 DEF Lists, NameStatus
  <2>6. Good(cleared)
    BY <1>0, <2>4, <2>5, Zenon DEF Good, Base, DownIsIdle, Waits, SameKernel
  <2>7. IsWorld(s) /\ Typed(s)
    BY <2>4, <2>6, StartGood, StartTyped DEF Good, Base
  <2> HIDE DEF s
  <2>8. Typed([s EXCEPT !.refs[c] = 1])
    BY <2>1, <2>7, RefTyped
  <2> QED
    BY <2>2, <2>3, <2>8
<1>2. CASE adapter_stop_discovery(c) \/ session_owner_exit(c)
  <2> DEFINE n == w.refs[c] - 1
  <2>1. n \in 0..MaxRefs
    BY <1>2, ConstantsAssumption DEF adapter_stop_discovery, session_owner_exit, Typed
  <2>2. w' \in {[w EXCEPT !.refs[c] = n], session_free(w, c)}
    BY <1>2 DEF adapter_stop_discovery, session_owner_exit
  <2> QED
    BY <1>0, <2>1, <2>2, RefTyped, SessionFreeTyped
<1> QED
  BY <1>1, <1>2

LEMMA TimerTyped ==
  ASSUME NEW which \in {"live", "orphan"}, IInv, Typed(w), discovery_cb(which)
  PROVE  Typed(w')
<1> DEFINE fired == [w EXCEPT !.scheduler_id = "stale"]
           n == w.orphans - 1
           taken == [w EXCEPT !.orphans = n]
           u == IF which = "live" THEN fired ELSE taken
<1>0. which # "live" => n \in Nat
  BY DEF discovery_cb, Typed
<1>1. IsWorld(u) /\ Same(u, w) /\ Typed(u)
  <2> HIDE DEF n
  <2>1. IsWorld(fired) /\ Same(fired, w) /\ Typed(fired)
    BY DEF IInv, Good, Base, IsWorld, Fields, Same, SameKernel, Typed
  <2>2. IsWorld(taken) /\ Same(taken, w) /\ (n \in Nat => Typed(taken))
    BY DEF IInv, Good, Base, IsWorld, Fields, Same, SameKernel, Typed
  <2> QED
    BY <1>0, <2>1, <2>2
<1>2. w' = start_discovery(u)
  BY DEF discovery_cb
<1> HIDE DEF u
<1>3. Base(u)
  BY <1>1, SameGood DEF IInv, Good
<1> QED
  BY <1>1, <1>2, <1>3, StartTyped

LEMMA BondingTyped ==
  ASSUME IInv, Typed(w), BondingBegins \/ BondingEnds
  PROVE  Typed(w')
<1>1. CASE BondingBegins
  <2> DEFINE u == [w EXCEPT !.bonding = TRUE]
             s == [u EXCEPT !.state = "SUSPENDED", !.oor = {}]
  <2>1. IsWorld(u) /\ Typed(u)
    BY DEF IInv, Good, Base, IsWorld, Fields, Typed
  <2>2. w' \in {SetSuspended(u), u}
    BY <1>1 DEF BondingBegins
  <2>3. SetSuspended(u) \in {u, Send(Unschedule(s), "stop")}
    BY DEF SetSuspended
  <2> HIDE DEF u
  <2>4. IsWorld(s) /\ Typed(s)
    BY <2>1 DEF IsWorld, Fields, Typed
  <2> HIDE DEF s
  <2>5. IsWorld(Unschedule(s)) /\ Typed(Unschedule(s))
    BY <2>4, Scheduler, ScheduleTyped
  <2> QED
    BY <2>1, <2>2, <2>3, <2>5, SendTyped
<1>2. CASE BondingEnds
  BY <1>2, BondingFreeTyped DEF BondingEnds, IInv, Good
<1> QED
  BY <1>1, <1>2

LEMMA KernelTyped ==
  ASSUME IInv, Typed(w), KernelExecutes \/ KernelFinishes
  PROVE  Typed(w')
<1>1. CASE KernelExecutes
  <2> DEFINE command == Head(w.commands)
             v == [w EXCEPT !.commands = Tail(@)]
             on == [v EXCEPT !.discovering = TRUE]
             off == [v EXCEPT !.discovering = FALSE]
             a == [v EXCEPT !.asked = @ \cup {command}]
  <2>1. /\ IsWorld(v) /\ v.up = w.up /\ v.commands = Tail(w.commands) /\ v.state = w.state
        /\ v.found = w.found /\ v.oor = w.oor /\ v.discovering = w.discovering
        /\ Typed(v)
    BY DEF IInv, Good, Base, IsWorld, Fields, Typed
  <2>2. w.commands \in Seq(Commands) /\ w.commands # << >>
    BY <1>1 DEF IInv, Good, Base, KernelExecutes
  <2>3. Tail(w.commands) \in Seq(Commands)
    BY <2>2
  <2>4. w' = CASE command = "start" /\ v.up /\ ~v.discovering -> mgmt_discovering(on, TRUE)
               [] command = "stop" /\ v.discovering -> mgmt_discovering(off, FALSE)
               [] command \in Devices /\ v.up -> a
               [] OTHER -> v
    BY <1>1 DEF KernelExecutes
  <2> HIDE DEF v, command
  <2>5. \/ v.up /\ w' = mgmt_discovering(on, TRUE)
        \/ w' = mgmt_discovering(off, FALSE)
        \/ command \in Devices /\ w' = a
        \/ w' = v
    <3> HIDE DEF on, off, a
    <3> QED
      BY <2>4, ConstantsAssumption
  <2>6. Base(v)
    BY <2>1, <2>3, Zenon DEF IInv, Good, Base, Lists, DownIsIdle
  <2>7. /\ IsWorld(on) /\ on.up = v.up /\ on.commands = v.commands /\ on.found = v.found
        /\ on.oor = v.oor /\ Typed(on)
    BY <2>1 DEF IsWorld, Fields, Typed
  <2>8. /\ IsWorld(off) /\ off.up = v.up /\ off.commands = v.commands /\ off.state = v.state
        /\ off.found = v.found /\ off.oor = v.oor /\ off.discovering = FALSE /\ Typed(off)
    BY <2>1 DEF IsWorld, Fields, Typed
  <2>9. command \in Devices => Typed(a)
    BY <2>1 DEF IsWorld, Fields, Typed
  <2> HIDE DEF on, off, a
  <2>10. /\ v.up => Base(on)
         /\ Base(off)
    BY <2>6, <2>7, <2>8, Zenon DEF Base, Lists, DownIsIdle
  <2>11. (v.up => Typed(mgmt_discovering(on, TRUE))) /\ Typed(mgmt_discovering(off, FALSE))
    BY <2>7, <2>8, <2>10, DiscoveringTyped
  <2> QED
    BY <2>1, <2>5, <2>9, <2>11
<1>2. CASE KernelFinishes
  <2> DEFINE off == [w EXCEPT !.discovering = FALSE]
  <2>1. /\ IsWorld(off) /\ off.up = w.up /\ off.commands = w.commands
        /\ off.asked = w.asked /\ off.state = w.state /\ off.found = w.found
        /\ off.oor = w.oor /\ off.discovering = FALSE /\ Typed(off)
    BY DEF IInv, Good, Base, IsWorld, Fields, Typed
  <2>2. w' = mgmt_discovering(off, FALSE)
    BY <1>2 DEF KernelFinishes
  <2> HIDE DEF off
  <2>3. Base(off)
    BY <2>1, Zenon DEF IInv, Good, Base, Lists, DownIsIdle
  <2> QED
    BY <2>1, <2>2, <2>3, DiscoveringTyped
<1> QED
  BY <1>1, <1>2

LEMMA FoundTyped ==
  ASSUME NEW d \in Devices, NEW how \in {"bredr", "le", "dual"}, NEW has_name \in BOOLEAN,
         NEW status \in {"required", "not_required", "short"},
         IInv, Typed(w), DeviceFound(d, how, status, has_name)
  PROVE  Typed(w')
  BY DEF DeviceFound, IInv, Good, Base, IsWorld, Fields, Typed

LEMMA NameTyped ==
  ASSUME NEW d \in Devices, NEW ok \in BOOLEAN, IInv, Typed(w), RemoteName(d, ok)
  PROVE  Typed(w')
<1> DEFINE listed == w.found[d] # "no"
           a == [w EXCEPT !.asked = @ \ {d},
                          !.named = IF ok /\ listed THEN @ \cup {d} ELSE @,
                          !.found[d] = IF listed THEN "not_required" ELSE @]
<1>1. /\ IsWorld(a) /\ a.up = w.up /\ a.commands = w.commands /\ a.state = w.state
      /\ a.oor = w.oor /\ a.discovering = w.discovering
      /\ a.found = [w.found EXCEPT ![d] = IF listed THEN "not_required" ELSE @]
      /\ Typed(a)
  BY DEF IInv, Good, Base, IsWorld, Fields, Typed
<1>2. w' = remote_name(a)
  BY DEF RemoteName
<1> HIDE DEF a
<1>3. Lists(w)
  BY DEF IInv, Good, Base
<1>4. Lists(a)
  BY <1>1, <1>3 DEF Lists, Listed, NameStatus
<1>5. Base(a)
  BY <1>1, <1>4, Zenon DEF IInv, Good, Base, DownIsIdle
<1>6. remote_name(a) \in {adapter_resolve_names(a), SetIdle(a), a}
  BY DEF remote_name
<1> QED
  BY <1>1, <1>2, <1>5, <1>6, AskTyped, SetIdleTyped

LEMMA PowerTyped ==
  ASSUME IInv, Typed(w), PowerOff \/ PowerOn
  PROVE  Typed(w')
<1>1. CASE PowerOff
  <2> DEFINE off == [w EXCEPT !.discovering = FALSE, !.asked = {}]
  <2>1. /\ IsWorld(off) /\ off.up = w.up /\ off.commands = w.commands
        /\ off.state = w.state /\ off.found = w.found /\ off.oor = w.oor
        /\ off.discovering = FALSE /\ Typed(off)
    BY DEF IInv, Good, Base, IsWorld, Fields, Typed
  <2>2. w' = btd_adapter_stop(off)
    BY <1>1 DEF PowerOff
  <2> HIDE DEF off
  <2>3. Base(off)
    BY <2>1, Zenon DEF IInv, Good, Base, Lists, DownIsIdle
  <2> QED
    BY <2>1, <2>2, <2>3, AdapterStopTyped
<1>2. CASE PowerOn
  BY <1>2 DEF PowerOn, IInv, Good, Base, IsWorld, Fields, Typed
<1> QED
  BY <1>1, <1>2

LEMMA InitTyped == Init => Typed(w)
  BY ConstantsAssumption DEF Init, Typed

LEMMA NextTyped == IInv /\ Typed(w) /\ [Next]_vars => Typed(w)'
<1> SUFFICES ASSUME IInv, Typed(w), [Next]_vars
             PROVE  Typed(w')
  OBVIOUS
<1>1. ASSUME NEW c \in Clients,
             adapter_start_discovery(c) \/ adapter_stop_discovery(c) \/ session_owner_exit(c)
      PROVE  Typed(w')
  BY <1>1, ClientTyped
<1>2. ASSUME NEW which \in {"live", "orphan"}, discovery_cb(which)
      PROVE  Typed(w')
  BY <1>2, TimerTyped
<1>3. CASE BondingBegins \/ BondingEnds
  BY <1>3, BondingTyped
<1>4. CASE KernelExecutes \/ KernelFinishes
  BY <1>4, KernelTyped
<1>5. ASSUME NEW d \in Devices, NEW how \in {"bredr", "le", "dual"},
             NEW has_name \in BOOLEAN, NEW status \in {"required", "not_required", "short"},
             DeviceFound(d, how, status, has_name)
      PROVE  Typed(w')
  BY <1>5, FoundTyped
<1>6. ASSUME NEW d \in Devices, NEW ok \in BOOLEAN, RemoteName(d, ok)
      PROVE  Typed(w')
  BY <1>6, NameTyped
<1>7. CASE PowerOff \/ PowerOn
  BY <1>7, PowerTyped
<1>8. CASE UNCHANGED vars
  BY <1>8 DEF vars
<1> QED
  BY <1>1, <1>2, <1>3, <1>4, <1>5, <1>6, <1>7, <1>8, Zenon DEF Next

\* Type correctness, whatever the clients, devices and bounds.  session_unref
\* never takes a reference from a session that has none, and discovery_cb never
\* runs for a source that was not counted when scheduler_id forgot it.
THEOREM TypeTheorem == Spec => []TypeOK
<1>1. IInv /\ Typed(w) => TypeOK
  BY DEF IInv, Good, Base, Lists, Listed, Commands, Typed, TypeOK
<1> QED
  BY <1>1, InitGood, NextGood, InitTyped, NextTyped, PTL DEF Spec

=============================================================================
