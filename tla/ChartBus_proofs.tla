-------------------------- MODULE ChartBus_proofs --------------------------
(***************************************************************************)
(* Theorems about two parts of the chart data bus that do not share state. *)
(*                                                                         *)
(* The sockets of a stream, for all sets of instruments and venues and any *)
(* number of pending timeouts: one main socket or one timeout, and the     *)
(* only way to a second socket of a venue.                                 *)
(*                                                                         *)
(* The gate in front of the chart, for every set of configurations, every  *)
(* depth of the queue and any number of frames: frames leave in order,     *)
(* none is forgotten, the newest is drawn, and the chart goes back only in *)
(* the ways that are named.                                                *)
(***************************************************************************)
EXTENDS ChartSockets, RenderGate,
        FiniteSetTheorems, SequenceTheorems, WellFoundedInduction, TLAPS

(* I. The sockets.                                                         *)

Orphan == [inst : Instrument, venue : Venue, aux : BOOLEAN]

\* The sockets that the bus holds are for the instrument it is connected to.
HeldForConfig ==
    /\ main # None => main.inst = config.inst
    /\ \A v \in Venue : aux[v] # None => aux[v].inst = config.inst

IInv == TypeOK /\ OneMainOrTimer /\ HeldForConfig

-----------------------------------------------------------------------------
(* What the operators return.                                              *)

LEMMA OrphanOfAuxType ==
    ASSUME TypeOK, NEW v \in Venue
    PROVE  /\ OrphanOfAux(v) \subseteq Orphan
           /\ \A o \in OrphanOfAux(v) : o.aux
<1>1. CASE aux[v] = None
  BY <1>1 DEF OrphanOfAux
<1>2. CASE aux[v] # None
  <2>1. aux[v] \in AuxSocket
    BY <1>2 DEF TypeOK
  <2>2. aux[v].inst \in Instrument
    BY <2>1 DEF AuxSocket
  <2>3. [inst |-> aux[v].inst, venue |-> v, aux |-> TRUE] \in Orphan
    BY <2>2 DEF Orphan
  <2>. QED
    BY <1>2, <2>3 DEF OrphanOfAux
<1>. QED
  BY <1>1, <1>2

\* Opening sockets yields a main socket, and auxiliary ones beside its venue.
LEMMA OpenSocketsYields ==
    ASSUME NEW feed \in Feed,
           NEW kept \in [Venue -> AuxSocket \cup {None}],
           \A v \in Venue : kept[v] # None => kept[v].inst = feed.inst,
           OpenSockets(feed, kept)
    PROVE  /\ main' \in MainSocket /\ main' # None /\ main'.inst = feed.inst
           /\ aux' \in [Venue -> AuxSocket \cup {None}]
           /\ \A v \in Venue : aux'[v] # None => aux'[v].inst = feed.inst
           /\ aux'[feed.venue] = None
<1>1. feed.inst \in Instrument /\ feed.venue \in Venue
  BY FeedsAreFeeds
<1>2. main' \in MainSocket /\ main'.inst = feed.inst
  BY <1>1 DEF OpenSockets, MainSocket, SocketState
<1>3. [inst |-> feed.inst, state |-> "connecting"] \in AuxSocket
  BY <1>1 DEF AuxSocket, SocketState
<1>4. feed.venue \notin AuxVenues(feed)
  BY DEF AuxVenues
<1>. QED
  BY <1>1, <1>2, <1>3, <1>4, NoneIsNothing DEF OpenSockets

LEMMA RegisterKeepsTypes ==
    ASSUME TypeOK, NEW n \in Nat, RegisterStreamFailures(n)
    PROVE  failures' \in 0..STREAM_FAILURE_THRESHOLD /\ cooling' \in BOOLEAN
BY DEF TypeOK, RegisterStreamFailures, STREAM_FAILURE_THRESHOLD

LEMMA TimersCancelledType ==
    ASSUME TypeOK
    PROVE  /\ TimersCancelled \in [Venue -> 0..MaxTimers]
           /\ OneMainOrTimer => MainTimersCancelled = 0
BY TimersArePossible DEF TypeOK, TimersCancelled, MainTimersCancelled, OneMainOrTimer

-----------------------------------------------------------------------------
(* The inductive invariant.                                                *)

LEMMA InitHolds == Init => IInv
<1>. SUFFICES ASSUME Init PROVE IInv
  OBVIOUS
<1>1. /\ auxTimers \in [Venue -> 0..MaxTimers]
      /\ aux \in [Venue -> AuxSocket \cup {None}]
      /\ depthOf \in [Venue -> Instrument \cup {None}]
  BY TimersArePossible DEF Init
<1>2. cooling \in BOOLEAN /\ refreshes = {}
  BY Zenon DEF Init
<1>3. failures \in 0..STREAM_FAILURE_THRESHOLD
  <2>1. failures = 0
    BY DEF Init
  <2>. QED
    BY <2>1 DEF STREAM_FAILURE_THRESHOLD
<1>4. /\ kind \in {"trade", "depth"} /\ config = None /\ main = None /\ mainTimers = 0
      /\ orphans = {} /\ \A v \in Venue : aux[v] = None
  BY DEF Init
<1>5. TypeOK
  BY <1>1, <1>2, <1>3, <1>4 DEF TypeOK
<1>. QED
  BY <1>4, <1>5 DEF IInv, OneMainOrTimer, HeldForConfig

LEMMA ConnectPreserves ==
    ASSUME IInv, NEW feed \in Feed, Connect(feed)
    PROVE  IInv'
<1>. feed # None /\ TypeOK
  BY NoneIsNothing DEF IInv
<1>1. /\ mainTimers' \in 0..1
      /\ mainTimers' = 1 <=> main' = None
      /\ main' \in MainSocket \cup {None}
      /\ aux' \in [Venue -> AuxSocket \cup {None}]
      /\ main' # None => main'.inst = feed.inst
      /\ \A v \in Venue : aux'[v] # None => aux'[v].inst = feed.inst
  <2>0. MainTimersCancelled = 0
    BY TimersCancelledType DEF IInv
  <2>1. CASE cooling
    BY <2>0, <2>1 DEF Connect, NoSockets
  <2>2. CASE ~cooling
    <3>1. OpenSockets(feed, NoSockets) /\ mainTimers' = 0
      BY <2>0, <2>2 DEF Connect
    <3>2. /\ NoSockets \in [Venue -> AuxSocket \cup {None}]
          /\ \A v \in Venue : NoSockets[v] = None
      BY DEF NoSockets
    <3>. QED
      BY <3>1, <3>2, OpenSocketsYields
  <2>. QED
    BY <2>1, <2>2
<1>2. auxTimers' \in [Venue -> 0..MaxTimers] /\ depthOf' \in [Venue -> Instrument \cup {None}]
  BY TimersCancelledType DEF Connect
<1>3. config' = feed /\ UNCHANGED <<kind, orphans, failures, cooling, refreshes>>
  BY DEF Connect
<1>4. TypeOK'
  BY <1>1, <1>2, <1>3 DEF TypeOK
<1>. QED
  BY <1>1, <1>3, <1>4 DEF IInv, OneMainOrTimer, HeldForConfig

LEMMA DisconnectPreserves ==
    ASSUME IInv, Disconnect
    PROVE  IInv'
<1>. TypeOK
  BY DEF IInv
<1>1. auxTimers' \in [Venue -> 0..MaxTimers] /\ mainTimers' = 0
  BY TimersCancelledType DEF Disconnect, IInv
<1>2. TypeOK'
  BY <1>1 DEF Disconnect, TypeOK, NoSockets
<1>. QED
  BY <1>1, <1>2 DEF IInv, OneMainOrTimer, HeldForConfig, Disconnect, NoSockets

\* While the timeout is pending there is no main socket that it could orphan.
LEMMA MainTimerFiresPreserves ==
    ASSUME IInv, MainTimerFires
    PROVE  IInv'
<1>. TypeOK
  BY DEF IInv
<1>1. mainTimers = 1 /\ config # None /\ main = None
  BY DEF IInv, TypeOK, OneMainOrTimer, MainTimerFires
<1>2. depthOf' \in [Venue -> Instrument \cup {None}]
  BY DEF TypeOK, MainTimerFires
<1>3. UNCHANGED <<kind, config, auxTimers, failures, cooling, refreshes>>
  BY DEF MainTimerFires
<1>4. CASE cooling
  <2>1. UNCHANGED <<mainTimers, main, aux, orphans>>
    BY <1>1, <1>4 DEF MainTimerFires
  <2>. QED
    BY <1>2, <1>3, <2>1 DEF IInv, TypeOK, OneMainOrTimer, HeldForConfig
<1>5. CASE ~cooling
  <2>1. mainTimers' = 0 /\ OpenSockets(config, aux) /\ orphans' = orphans
    BY <1>1, <1>5 DEF MainTimerFires, OrphanOfMain
  <2>2. /\ main' \in MainSocket /\ main' # None /\ main'.inst = config.inst
        /\ aux' \in [Venue -> AuxSocket \cup {None}]
        /\ \A v \in Venue : aux'[v] # None => aux'[v].inst = config.inst
    BY <1>1, <2>1, OpenSocketsYields DEF IInv, TypeOK, HeldForConfig
  <2>. QED
    BY <1>1, <1>2, <1>3, <2>1, <2>2 DEF IInv, TypeOK, OneMainOrTimer, HeldForConfig
<1>. QED
  BY <1>4, <1>5

LEMMA MainOpensPreserves ==
    ASSUME IInv, MainOpens
    PROVE  IInv'
<1>1. /\ main' \in MainSocket /\ main' # None /\ main'.inst = main.inst
      /\ main # None
  BY NoneIsNothing DEF IInv, TypeOK, MainOpens, MainSocket, SocketState
<1>2. cooling' \in BOOLEAN
  BY Zenon DEF MainOpens
<1>3. failures' \in 0..STREAM_FAILURE_THRESHOLD
  <2>1. failures' = 0
    BY DEF MainOpens
  <2>. QED
    BY <2>1 DEF STREAM_FAILURE_THRESHOLD
<1>4. UNCHANGED <<kind, config, mainTimers, aux, auxTimers, orphans, depthOf, refreshes>>
  BY DEF MainOpens
<1>. QED
  BY <1>1, <1>2, <1>3, <1>4 DEF IInv, TypeOK, OneMainOrTimer, HeldForConfig

LEMMA WatchdogFiresPreserves ==
    ASSUME IInv, WatchdogFires
    PROVE  IInv'
<1>1. /\ main' \in MainSocket /\ main' # None /\ main'.inst = main.inst
      /\ main # None
  BY NoneIsNothing DEF IInv, TypeOK, WatchdogFires, MainSocket, SocketState
<1>2. failures' \in 0..STREAM_FAILURE_THRESHOLD /\ cooling' \in BOOLEAN
  BY RegisterKeepsTypes DEF IInv, WatchdogFires
<1>. QED
  BY <1>1, <1>2 DEF IInv, TypeOK, OneMainOrTimer, HeldForConfig, WatchdogFires

LEMMA MainClosesPreserves ==
    ASSUME IInv, MainCloses
    PROVE  IInv'
<1>1. config # None /\ mainTimers = 0 /\ main \in MainSocket
  BY DEF IInv, TypeOK, OneMainOrTimer, MainCloses
<1>2. failures' \in 0..STREAM_FAILURE_THRESHOLD /\ cooling' \in BOOLEAN
  <2>1. CASE main.state = "connecting"
    <3>1. PICK n \in {1, 2} : RegisterStreamFailures(n)
      BY <2>1 DEF MainCloses
    <3>. QED
      BY <3>1, RegisterKeepsTypes DEF IInv
  <2>2. CASE main.state # "connecting"
    BY <2>2 DEF IInv, TypeOK, MainCloses
  <2>. QED
    BY <2>1, <2>2
<1>3. depthOf' \in [Venue -> Instrument \cup {None}]
  BY DEF IInv, TypeOK, MainCloses
<1>. QED
  BY <1>1, <1>2, <1>3 DEF IInv, TypeOK, OneMainOrTimer, HeldForConfig, MainCloses

LEMMA AuxTimerFiresPreserves ==
    ASSUME IInv, NEW v \in Venue, AuxTimerFires(v)
    PROVE  IInv'
<1>. TypeOK
  BY DEF IInv
<1>1. auxTimers' \in [Venue -> 0..MaxTimers]
  BY TimersArePossible DEF TypeOK, AuxTimerFires
<1>2. CASE config = None
  BY <1>1, <1>2 DEF IInv, TypeOK, OneMainOrTimer, HeldForConfig, AuxTimerFires
<1>3. CASE config # None
  <2>1. /\ aux' \in [Venue -> AuxSocket \cup {None}]
        /\ \A w \in Venue : aux'[w] # None => aux'[w].inst = config.inst
    <3>1. config.inst \in Instrument
      BY <1>3, FeedsAreFeeds DEF TypeOK
    <3>2. [inst |-> config.inst, state |-> "connecting"] \in AuxSocket
      BY <3>1 DEF AuxSocket, SocketState
    <3>. QED
      BY <1>3, <3>2 DEF IInv, TypeOK, HeldForConfig, AuxTimerFires
  <2>2. orphans' \subseteq Orphan /\ \A o \in orphans' : o.aux
    BY <1>3, OrphanOfAuxType DEF IInv, TypeOK, OneMainOrTimer, Orphan, AuxTimerFires
  <2>. QED
    BY <1>1, <1>3, <2>1, <2>2
       DEF IInv, TypeOK, OneMainOrTimer, HeldForConfig, AuxTimerFires, Orphan
<1>. QED
  BY <1>2, <1>3

LEMMA AuxOpensPreserves ==
    ASSUME IInv, NEW v \in Venue, AuxOpens(v)
    PROVE  IInv'
<1>1. aux[v] \in AuxSocket
  BY DEF IInv, TypeOK, AuxOpens
<1>2. [aux[v] EXCEPT !.state = "open"] \in AuxSocket
  BY <1>1 DEF AuxSocket, SocketState
<1>3. [aux[v] EXCEPT !.state = "open"].inst = aux[v].inst
  BY <1>1 DEF AuxSocket
<1>4. aux' = [aux EXCEPT ![v] = [aux[v] EXCEPT !.state = "open"]]
  BY DEF AuxOpens
<1>5. aux' \in [Venue -> AuxSocket \cup {None}]
  BY <1>2, <1>4 DEF IInv, TypeOK
<1>6. \A w \in Venue : aux'[w] # None => aux'[w].inst = config.inst
  BY <1>1, <1>3, <1>4, NoneIsNothing DEF IInv, TypeOK, HeldForConfig
<1>7. config # None
  BY DEF IInv, TypeOK, AuxOpens
<1>. QED
  BY <1>5, <1>6, <1>7 DEF IInv, TypeOK, OneMainOrTimer, HeldForConfig, AuxOpens

LEMMA AuxClosesPreserves ==
    ASSUME IInv, NEW v \in Venue, AuxCloses(v)
    PROVE  IInv'
<1>1. auxTimers' \in [Venue -> 0..MaxTimers]
  BY TimersArePossible DEF IInv, TypeOK, AuxCloses
<1>2. /\ aux' \in [Venue -> AuxSocket \cup {None}]
      /\ \A w \in Venue : aux'[w] # None => aux[w] # None /\ aux'[w] = aux[w]
  BY DEF IInv, TypeOK, AuxCloses
<1>3. depthOf' \in [Venue -> Instrument \cup {None}]
  BY DEF IInv, TypeOK, AuxCloses
<1>. QED
  BY <1>1, <1>2, <1>3 DEF IInv, TypeOK, OneMainOrTimer, HeldForConfig, AuxCloses

LEMMA DepthMessagePreserves ==
    ASSUME IInv, NEW inst \in Instrument, NEW v \in Venue, DepthMessage(inst, v)
    PROVE  IInv'
<1>1. depthOf' \in [Venue -> Instrument \cup {None}]
  BY DEF IInv, TypeOK, DepthMessage
<1>. QED
  BY <1>1 DEF IInv, TypeOK, OneMainOrTimer, HeldForConfig, DepthMessage, socketVars

LEMMA RefreshPreserves ==
    ASSUME IInv, DepthFallsBack \/ \E feed \in Feed : FallbackDepth(feed)
    PROVE  IInv'
<1>1. UNCHANGED socketVars /\ refreshes' \subseteq Feed
  BY DEF DepthFallsBack, FallbackDepth, IInv, TypeOK
<1>2. depthOf' \in [Venue -> Instrument \cup {None}]
  BY FeedsAreFeeds DEF DepthFallsBack, FallbackDepth, IInv, TypeOK
<1>. QED
  BY <1>1, <1>2 DEF IInv, TypeOK, OneMainOrTimer, HeldForConfig, socketVars

\* Depth comes in one of these ways.
LEMMA MessageTypes ==
    ASSUME TypeOK
    PROVE  /\ MainMessage => main.inst \in Instrument /\ main.venue \in Venue
           /\ \A v \in Venue : AuxMessage(v) => aux[v].inst \in Instrument
           /\ \A o \in orphans : o.inst \in Instrument /\ o.venue \in Venue
           /\ SnapshotDepth => config.inst \in Instrument /\ config.venue \in Venue
BY FeedsAreFeeds DEF TypeOK, MainMessage, AuxMessage, SnapshotDepth, MainSocket, AuxSocket

LEMMA NextPreserves ==
    ASSUME IInv, [Next]_vars
    PROVE  IInv'
<1>. TypeOK
  BY DEF IInv
<1>1. CASE MainMessage
  BY <1>1, MessageTypes, DepthMessagePreserves DEF MainMessage
<1>2. CASE \E v \in Venue : AuxMessage(v)
  BY <1>2, MessageTypes, DepthMessagePreserves DEF AuxMessage
<1>3. CASE OrphanMessage
  BY <1>3, MessageTypes, DepthMessagePreserves DEF OrphanMessage
<1>4. CASE OrphanCloses
  BY <1>4 DEF OrphanCloses, IInv, TypeOK, OneMainOrTimer, HeldForConfig
<1>5. CASE CooldownEnds
  BY <1>5 DEF CooldownEnds, IInv, TypeOK, OneMainOrTimer, HeldForConfig
<1>6. CASE UNCHANGED vars
  BY <1>6 DEF vars, socketVars, IInv, TypeOK, OneMainOrTimer, HeldForConfig
<1>7. CASE SnapshotDepth
  BY <1>7, MessageTypes, DepthMessagePreserves DEF SnapshotDepth
<1>8. CASE DepthFallsBack \/ \E feed \in Feed : FallbackDepth(feed)
  BY <1>8, RefreshPreserves
<1>. QED
  BY <1>1, <1>2, <1>3, <1>4, <1>5, <1>6, <1>7, <1>8, ConnectPreserves, DisconnectPreserves,
     MainTimerFiresPreserves, MainOpensPreserves, WatchdogFiresPreserves,
     MainClosesPreserves, AuxTimerFiresPreserves, AuxOpensPreserves, AuxClosesPreserves
     DEF Next

LEMMA Inductive == Spec => []IInv
<1>1. IInv /\ [Next]_vars => IInv'
  BY NextPreserves
<1>. QED
  BY InitHolds, <1>1, PTL DEF Spec

\* Type correctness of the sockets and timers of a stream.
THEOREM TypeCorrect == Spec => []TypeOK
<1>1. IInv => TypeOK
  BY DEF IInv
<1>. QED
  BY Inductive, <1>1, PTL

\* connectOhlcvSocket, connectDepthSocketForVenue and disconnectSockets together
\* keep exactly one main socket or one timeout, through every cooldown.
THEOREM OneMain == Spec => []OneMainOrTimer
<1>1. IInv => OneMainOrTimer
  BY DEF IInv
<1>. QED
  BY Inductive, <1>1, PTL

-----------------------------------------------------------------------------
(* The only way to a second socket of a venue.                             *)

DepthIsTraced ==
    config # None => \A v \in Venue :
        depthOf'[v] \notin {depthOf[v], None, config.inst} =>
            \E w \in orphans \cup refreshes : w.inst = depthOf'[v] /\ w.venue = v

TracedStep ==
    /\ OneSocketPerVenue /\ ~OneSocketPerVenue' => OvertakenTimer
    /\ DepthIsTraced

\* Depth messages and refreshes are the only steps that set an entry of the book.
LEMMA NoDepthStep ==
    ASSUME IInv, [Next]_vars,
           ~MainMessage, \A v \in Venue : ~AuxMessage(v), ~OrphanMessage,
           ~SnapshotDepth, \A feed \in Feed : ~FallbackDepth(feed)
    PROVE  \A v \in Venue : depthOf'[v] \in {depthOf[v], None}
<1>. depthOf \in [Venue -> Instrument \cup {None}]
  BY DEF IInv, TypeOK
<1>1. CASE depthOf' = depthOf
  BY <1>1
<1>2. CASE depthOf' = [v \in Venue |-> None]
  BY <1>2
<1>3. CASE MainTimerFires
  BY <1>3 DEF MainTimerFires
<1>4. CASE MainCloses
  BY <1>4 DEF MainCloses
<1>5. ASSUME NEW v \in Venue, AuxCloses(v)
      PROVE  \A w \in Venue : depthOf'[w] \in {depthOf[w], None}
  BY <1>5 DEF AuxCloses
<1>. QED
  BY <1>1, <1>2, <1>3, <1>4, <1>5
     DEF Next, vars, Connect, Disconnect, MainOpens, WatchdogFires, AuxTimerFires,
         AuxOpens, OrphanCloses, CooldownEnds, DepthFallsBack

LEMMA DepthStep ==
    ASSUME IInv, [Next]_vars
    PROVE  DepthIsTraced
<1>. SUFFICES ASSUME config # None, NEW v \in Venue,
                     depthOf'[v] \notin {depthOf[v], None, config.inst}
              PROVE  \E w \in orphans \cup refreshes : w.inst = depthOf'[v] /\ w.venue = v
  BY DEF DepthIsTraced
<1>. depthOf \in [Venue -> Instrument \cup {None}]
  BY DEF IInv, TypeOK
<1>1. CASE MainMessage
  BY <1>1 DEF MainMessage, DepthMessage, IInv, HeldForConfig
<1>2. CASE \E u \in Venue : AuxMessage(u)
  BY <1>2 DEF AuxMessage, DepthMessage, IInv, HeldForConfig
<1>3. CASE OrphanMessage
  BY <1>3 DEF OrphanMessage, DepthMessage
<1>4. CASE SnapshotDepth
  BY <1>4 DEF SnapshotDepth, DepthMessage
<1>5. ASSUME NEW feed \in Feed, FallbackDepth(feed)
      PROVE  \E w \in orphans \cup refreshes : w.inst = depthOf'[v] /\ w.venue = v
  BY <1>5 DEF FallbackDepth
<1>. QED
  BY <1>1, <1>2, <1>3, <1>4, <1>5, NoDepthStep

LEMMA SocketsStep ==
    ASSUME IInv, [Next]_vars, OneSocketPerVenue, ~OneSocketPerVenue'
    PROVE  OvertakenTimer
<1>. TypeOK /\ orphans = {} /\ (config # None => aux[config.venue] = None)
  BY DEF IInv, OneSocketPerVenue
<1>1. ASSUME NEW feed \in Feed, Connect(feed) PROVE FALSE
  <2>1. feed.venue \in Venue /\ feed.venue \notin AuxVenues(feed)
    BY FeedsAreFeeds DEF AuxVenues
  <2>2. aux'[feed.venue] = None
    BY <1>1, <2>1 DEF Connect, NoSockets, OpenSockets
  <2>. QED
    BY <1>1, <2>2 DEF Connect, OneSocketPerVenue
<1>2. CASE MainTimerFires
  <2>1. config # None /\ main = None /\ config.venue \in Venue
    BY <1>2, FeedsAreFeeds DEF IInv, TypeOK, OneMainOrTimer, MainTimerFires
  <2>2. config.venue \notin AuxVenues(config)
    BY DEF AuxVenues
  <2>3. orphans' = {} /\ aux'[config.venue] = None /\ config' = config
    BY <1>2, <2>1, <2>2 DEF MainTimerFires, OrphanOfMain, OpenSockets
  <2>. QED
    BY <2>3 DEF OneSocketPerVenue
<1>3. ASSUME NEW v \in Venue, AuxTimerFires(v) PROVE OvertakenTimer
  <2>1. config # None
    BY <1>3 DEF AuxTimerFires, OneSocketPerVenue
  <2>2. aux[v] # None \/ v = config.venue
    <3>. SUFFICES ASSUME aux[v] = None, v # config.venue PROVE FALSE
      OBVIOUS
    <3>1. orphans' = {} /\ config' = config
      BY <1>3, <2>1 DEF AuxTimerFires, OrphanOfAux
    <3>2. aux' = [aux EXCEPT ![v] = [inst |-> config.inst, state |-> "connecting"]]
      BY <1>3, <2>1 DEF AuxTimerFires
    <3>3. config.venue \in Venue /\ aux[config.venue] = None
      BY <2>1, FeedsAreFeeds DEF TypeOK
    <3>4. aux'[config.venue] = None
      BY <3>2, <3>3 DEF TypeOK
    <3>. QED
      BY <3>1, <3>4 DEF OneSocketPerVenue
  <2>3. auxTimers'[v] < auxTimers[v] /\ config' = config
    BY <1>3, TimersArePossible DEF AuxTimerFires, TypeOK
  <2>. QED
    BY <2>2, <2>3 DEF OvertakenTimer
<1>4. ASSUME NEW v \in Venue, AuxOpens(v) PROVE FALSE
  BY <1>4, NoneIsNothing DEF AuxOpens, OneSocketPerVenue, TypeOK
<1>5. ASSUME NEW v \in Venue, AuxCloses(v) PROVE FALSE
  BY <1>5 DEF AuxCloses, OneSocketPerVenue, TypeOK
<1>6. CASE UNCHANGED <<orphans, config, aux>>
  BY <1>6 DEF OneSocketPerVenue
<1>7. CASE Disconnect
  BY <1>7 DEF Disconnect, OneSocketPerVenue
<1>8. CASE OrphanCloses
  BY <1>8 DEF OrphanCloses
<1>9. ASSUME NEW feed \in Feed, FallbackDepth(feed) PROVE UNCHANGED <<orphans, config, aux>>
  BY <1>9 DEF FallbackDepth, socketVars
<1>. QED
  BY <1>1, <1>2, <1>3, <1>4, <1>5, <1>6, <1>7, <1>8, <1>9
     DEF Next, vars, socketVars, MainOpens, WatchdogFires, MainCloses, AuxMessage, MainMessage,
         OrphanMessage, DepthMessage, SnapshotDepth, DepthFallsBack, CooldownEnds

\* Only a timeout of an auxiliary venue that was overtaken gives a venue a second
\* socket.  Only such a socket, or a refresh that waited for the fallback routes
\* while the chart was connected to something else, brings another instrument
\* into the book (marketDataBus.ts:2097-2099, after the await at 1994).
THEOREM StrayTraced == Spec => StraySocketsAreTraced
<1>1. IInv /\ [Next]_vars => [TracedStep]_vars
  BY DepthStep, SocketsStep DEF TracedStep
<1>. QED
  BY Inductive, <1>1, PTL DEF Spec, StraySocketsAreTraced, TracedStep, DepthIsTraced

-----------------------------------------------------------------------------
(* II. The gate: the sequence guard.                                       *)

GateRecord ==
    [queue : SUBSET Frame, expected : Nat, gap : BOOLEAN, pending : Frame \cup {Nothing},
     renderTimer : BOOLEAN, sequenceTimer : BOOLEAN]

\* A queue of frames with a sequence each, no sequence twice and none too many, and
\* a render timer exactly for a pending frame.
GateOK(g) ==
    /\ g \in GateRecord
    /\ IsFiniteSet(g.queue) /\ Cardinality(g.queue) <= MaxQueueDepth
    /\ \A f, h \in g.queue : f.sequence = h.sequence => f = h
    /\ \A f \in g.queue : f.sequence > 0
    /\ g.renderTimer = (g.pending # Nothing)

\* Frames have natural numbers as sequences.
LEMMA FrameFacts ==
    ASSUME NEW f \in Frame
    PROVE  /\ f.sequence \in Nat /\ f.sequence <= MaxSequence
           /\ f.turn \in Nat /\ f.turn >= 1 /\ f.turn <= MaxTurn
           /\ f.era \in Nat /\ f.era >= 1 /\ f.era <= MaxEra
           /\ f.key \in Key /\ f # Nothing /\ f # Reset
BY BoundsArePositive, NothingIsNoFrame DEF Frame

\* A set of natural numbers that is not empty has a smallest one.
LEMMA Smallest ==
    ASSUME NEW C \in SUBSET Nat, C # {}
    PROVE  \E n \in C : \A k \in C : n <= k
<1>1. PICK n \in C : \A k \in C : ~(<<k, n>> \in OpToRel(<, Nat))
  BY NatLessThanWellFounded, WFMin
<1>2. ASSUME NEW k \in C PROVE ~(k < n)
  BY <1>1 DEF OpToRel
<1>3. \A k \in C : n <= k
  BY <1>2
<1>. QED
  BY <1>3

\* A set of frames that is not empty has one of the lowest sequence.
LEMMA LowestFacts ==
    ASSUME NEW fs \in SUBSET Frame, fs # {}
    PROVE  Lowest(fs) \in fs /\ \A g \in fs : Lowest(fs).sequence <= g.sequence
<1>. DEFINE C == {f.sequence : f \in fs}
<1>1. C \in SUBSET Nat /\ C # {}
  BY FrameFacts
<1>. HIDE DEF C
<1>2. PICK n \in C : \A k \in C : n <= k
  BY <1>1, Smallest
<1>3. \E f \in fs : \A g \in fs : f.sequence <= g.sequence
  BY <1>2 DEF C
<1>. QED
  BY <1>3 DEF Lowest

\* The guard takes a frame in: it keeps the others, but for one of the same sequence
\* and, if it runs over, the lowest.
LEMMA EnqueueFacts ==
    ASSUME NEW g, GateOK(g), NEW frame \in Frame, frame.sequence > 0
    PROVE  LET e == Enqueue(g, frame)
               base == IF g.expected = 0 THEN frame.sequence ELSE g.expected
           IN  /\ GateOK(e) /\ e.pending = g.pending /\ e.sequenceTimer = g.sequenceTimer
               /\ e.queue \subseteq g.queue \cup {frame}
               /\ e.queue # {}
               /\ IF Overflows(g, frame)
                  THEN e.expected = base + 1
                  ELSE /\ e.expected = base /\ frame \in e.queue
                       /\ \A f \in g.queue : f \in e.queue \/ f.sequence = frame.sequence
<1>. DEFINE others == {f \in g.queue : f.sequence # frame.sequence}
            queue  == others \cup {frame}
            base   == IF g.expected = 0 THEN frame.sequence ELSE g.expected
            e      == Enqueue(g, frame)
            full   == Cardinality(queue) > MaxQueueDepth
<1>1. /\ g \in GateRecord /\ g.queue \subseteq Frame /\ IsFiniteSet(g.queue)
      /\ Cardinality(g.queue) <= MaxQueueDepth /\ MaxQueueDepth \in Nat
  BY BoundsArePositive DEF GateOK, GateRecord
<1>2. IsFiniteSet(others) /\ Cardinality(others) <= Cardinality(g.queue)
  BY <1>1, FS_Subset
<1>3. frame \notin others
  OBVIOUS
<1>4. /\ Cardinality(others) \in Nat /\ Cardinality(g.queue) \in Nat
      /\ IsFiniteSet(queue) /\ Cardinality(queue) = Cardinality(others) + 1
  BY <1>1, <1>2, <1>3, FS_AddElement, FS_CardinalityType
<1>5. queue \subseteq Frame /\ queue # {}
  BY <1>1
<1>6. Lowest(queue) \in queue
  BY <1>5, LowestFacts
<1>7. base \in Nat /\ base + 1 \in Nat
  BY <1>1, FrameFacts DEF GateRecord
<1>8. \A f, h \in queue : f.sequence = h.sequence => f = h
  BY DEF GateOK
<1>9. \A f \in queue : f.sequence > 0
  BY DEF GateOK
<1>10. Overflows(g, frame) <=> full
  <2>. DEFINE seqs == {f.sequence : f \in g.queue} \cup {frame.sequence}
  <2>1. Cardinality(seqs) = Cardinality(queue)
    <3>. DEFINE h == [f \in queue |-> f.sequence]
    <3>1. h \in Bijection(queue, seqs)
      <4>1. h \in [queue -> seqs]
        OBVIOUS
      <4>2. \A a, b \in queue : h[a] = h[b] => a = b
        BY <1>8
      <4>3. \A n \in seqs : \E f \in queue : h[f] = n
        OBVIOUS
      <4>. QED
        BY <4>1, <4>2, <4>3 DEF Bijection, Injection, Surjection, IsInjective
    <3>. QED
      BY <3>1, <1>4, FS_Bijection DEF ExistsBijection
  <2>. QED
    BY <2>1 DEF Overflows
<1>11. CASE full
  <2>1. e = [g EXCEPT !.queue = queue \ {Lowest(queue)}, !.expected = base + 1]
    BY <1>11 DEF Enqueue
  <2>. HIDE DEF queue
  <2>2. /\ IsFiniteSet(queue \ {Lowest(queue)})
        /\ Cardinality(queue \ {Lowest(queue)}) = Cardinality(queue) - 1
    BY <1>4, <1>6, FS_RemoveElement
  <2>3. Cardinality(queue \ {Lowest(queue)}) <= MaxQueueDepth
    BY <1>1, <1>2, <1>4, <2>2
  <2>4. queue \ {Lowest(queue)} # {}
    <3>1. Cardinality(queue) - 1 # 0
      BY <1>1, <1>4, <1>11, BoundsArePositive
    <3>. QED
      BY <3>1, <2>2, FS_EmptySet
  <2>. HIDE DEF base
  <2>5. /\ e \in GateRecord /\ e.queue = queue \ {Lowest(queue)} /\ e.expected = base + 1
        /\ e.pending = g.pending /\ e.renderTimer = g.renderTimer
        /\ e.sequenceTimer = g.sequenceTimer
    BY <2>1, <1>1, <1>5, <1>7 DEF GateRecord
  <2>6. GateOK(e)
    BY <2>2, <2>3, <2>5, <1>8, <1>9 DEF GateOK
  <2>7. e.queue \subseteq g.queue \cup {frame}
    BY <2>5 DEF queue
  <2>. QED
    BY <2>4, <2>5, <2>6, <2>7, <1>10, <1>11 DEF base
<1>12. CASE ~full
  <2>1. e = [g EXCEPT !.queue = queue, !.expected = base]
    BY <1>12 DEF Enqueue
  <2>2. Cardinality(queue) <= MaxQueueDepth
    BY <1>1, <1>4, <1>12
  <2>. HIDE DEF queue, base
  <2>3. /\ e \in GateRecord /\ e.queue = queue /\ e.expected = base
        /\ e.pending = g.pending /\ e.renderTimer = g.renderTimer
        /\ e.sequenceTimer = g.sequenceTimer
    BY <2>1, <1>1, <1>5, <1>7 DEF GateRecord
  <2>4. GateOK(e)
    BY <2>2, <2>3, <1>4, <1>8, <1>9 DEF GateOK
  <2>5. /\ e.queue \subseteq g.queue \cup {frame} /\ e.queue # {} /\ frame \in e.queue
        /\ \A f \in g.queue : f \in e.queue \/ f.sequence = frame.sequence
    BY <2>3 DEF queue
  <2>. QED
    BY <2>3, <2>4, <2>5, <1>10, <1>12 DEF base
<1>. QED
  BY <1>11, <1>12

\* Frames behind the expected sequence are dropped, and of a gap at most one sequence
\* is given up, which no frame of the queue has.
LEMMA PassedFacts ==
    ASSUME NEW g, GateOK(g), NEW graceOver
    PROVE  LET p == Passed(g, graceOver)
           IN  /\ GateOK(p) /\ p.pending = g.pending /\ p.sequenceTimer = g.sequenceTimer
               /\ p.queue = {f \in g.queue : f.sequence >= g.expected}
               /\ \/ p.expected = g.expected
                  \/ /\ p.expected = g.expected + 1 /\ p.queue # {}
                     /\ \A f \in p.queue : f.sequence >= p.expected
<1>. DEFINE queue == {f \in g.queue : f.sequence >= g.expected}
            p     == Passed(g, graceOver)
            gap   == queue # {} /\ Lowest(queue).sequence > g.expected
<1>1. /\ g \in GateRecord /\ g.queue \subseteq Frame /\ IsFiniteSet(g.queue)
      /\ Cardinality(g.queue) <= MaxQueueDepth /\ g.expected \in Nat
      /\ MaxQueueDepth \in Nat
  BY BoundsArePositive DEF GateOK, GateRecord
<1>2. queue \subseteq g.queue /\ queue \subseteq Frame
  BY <1>1
<1>3. IsFiniteSet(queue) /\ Cardinality(queue) <= MaxQueueDepth
  <2>1. IsFiniteSet(queue) /\ Cardinality(queue) <= Cardinality(g.queue)
    BY <1>1, <1>2, FS_Subset
  <2>2. Cardinality(queue) \in Nat /\ Cardinality(g.queue) \in Nat
    BY <1>1, <2>1, FS_CardinalityType
  <2>. QED
    BY <1>1, <2>1, <2>2
<1>. HIDE DEF queue
<1>4. CASE gap
  <2>. DEFINE n == IF g.gap /\ graceOver THEN g.expected + 1 ELSE g.expected
  <2>1. p = [g EXCEPT !.queue = queue, !.gap = TRUE, !.expected = n]
    BY <1>4 DEF Passed, queue
  <2>2. n \in Nat
    BY <1>1
  <2>. HIDE DEF n
  <2>3. /\ p \in GateRecord /\ p.queue = queue /\ p.expected = n
        /\ p.pending = g.pending /\ p.renderTimer = g.renderTimer
        /\ p.sequenceTimer = g.sequenceTimer
    BY <2>1, <2>2, <1>1, <1>2 DEF GateRecord
  <2>4. GateOK(p)
    BY <2>3, <1>2, <1>3 DEF GateOK
  <2>5. ASSUME NEW f \in queue PROVE f.sequence >= g.expected + 1
    <3>1. Lowest(queue) \in queue /\ Lowest(queue).sequence <= f.sequence
      BY <1>2, <1>4, LowestFacts
    <3>2. Lowest(queue).sequence \in Nat /\ f.sequence \in Nat
      BY <3>1, <1>2, FrameFacts
    <3>. QED
      BY <3>1, <3>2, <1>1, <1>4
  <2>. QED
    BY <2>3, <2>4, <2>5, <1>4 DEF n, queue
<1>5. CASE ~gap
  <2>1. p = [g EXCEPT !.queue = queue]
    BY <1>5 DEF Passed, queue
  <2>2. /\ p \in GateRecord /\ p.queue = queue /\ p.expected = g.expected
        /\ p.pending = g.pending /\ p.renderTimer = g.renderTimer
        /\ p.sequenceTimer = g.sequenceTimer
    BY <2>1, <1>1, <1>2 DEF GateRecord
  <2>3. GateOK(p)
    BY <2>2, <1>2, <1>3 DEF GateOK
  <2>. QED
    BY <2>2, <2>3 DEF queue
<1>. QED
  BY <1>4, <1>5

\* A frame that waits, or is pending, shows why all sequences below n are passed.
Leads(g, n) ==
    \/ \E f \in g.queue : f.sequence >= n
    \/ g.pending # Nothing /\ g.pending.sequence + 1 >= n

\* A poll leaves a pending frame in peace.  Otherwise the frame of the expected sequence
\* becomes pending, or a wake-up is set for what waits; what is behind is dropped.
LEMMA AdvanceFacts ==
    ASSUME NEW g, GateOK(g), NEW graceOver
    PROVE  LET a == Advance(g, graceOver)
           IN  /\ GateOK(a) /\ a.expected >= g.expected
               /\ g.pending # Nothing => a = g
               /\ a.queue \subseteq g.queue
               /\ \A f \in g.queue :
                     f \in a.queue \/ f = a.pending \/ f.sequence < a.expected
               /\ \/ a.pending = g.pending
                  \/ /\ a.pending \in g.queue /\ a.pending.sequence >= g.expected
                     /\ a.expected = a.pending.sequence + 1
                     /\ \A f \in a.queue : a.pending.sequence < f.sequence
               /\ \/ a.expected = g.expected
                  \/ /\ a.expected <= MaxSequence + 1 /\ g.queue # {}
                     /\ Leads(a, a.expected)
               /\ Leads(g, g.expected) => Leads(a, a.expected)
               /\ a.queue # {} => a.pending # Nothing \/ a.sequenceTimer
<1>. DEFINE a == Advance(g, graceOver)
            p == Passed(g, graceOver)
<1>1. /\ g \in GateRecord /\ g.queue \subseteq Frame /\ g.expected \in Nat
      /\ MaxSequence \in Nat
  BY BoundsArePositive DEF GateOK, GateRecord
<1>2. CASE g.pending # Nothing
  <2>1. a = g
    BY <1>2 DEF Advance
  <2>. QED
    BY <2>1, <1>1, <1>2
<1>3. CASE g.pending = Nothing
  <2>1. /\ GateOK(p) /\ p.pending = Nothing
        /\ p.queue = {f \in g.queue : f.sequence >= g.expected}
        /\ \/ p.expected = g.expected
           \/ /\ p.expected = g.expected + 1 /\ p.queue # {}
              /\ \A f \in p.queue : f.sequence >= p.expected
    BY <1>3, PassedFacts
  <2>. HIDE DEF p
  <2>2. /\ p \in GateRecord /\ p.queue \subseteq Frame /\ p.expected \in Nat
        /\ IsFiniteSet(p.queue) /\ Cardinality(p.queue) <= MaxQueueDepth
        /\ MaxQueueDepth \in Nat /\ p.renderTimer = FALSE
    BY <2>1, BoundsArePositive DEF GateOK, GateRecord
  <2>3. p.queue \subseteq g.queue /\ p.expected >= g.expected
    BY <2>1, <1>1
  <2>4. \A f \in g.queue : f \in p.queue \/ f.sequence < p.expected
    <3>1. ASSUME NEW f \in g.queue, f \notin p.queue PROVE f.sequence < p.expected
      <4>1. f.sequence \in Nat
        BY <1>1, FrameFacts
      <4>2. f.sequence < g.expected
        BY <4>1, <3>1, <2>1, <1>1
      <4>. QED
        BY <4>1, <4>2, <2>2, <2>3, <1>1
    <3>. QED
      BY <3>1
  <2>5. \A f \in p.queue : f.sequence \in Nat /\ f.sequence <= MaxSequence
    BY <2>2, FrameFacts
  <2>6. p.expected = g.expected \/ (p.expected <= MaxSequence /\ p.queue # {} /\ Leads(p, p.expected))
    <3>1. CASE p.expected # g.expected
      <4>1. PICK f \in p.queue : f.sequence >= p.expected
        BY <3>1, <2>1
      <4>2. f.sequence \in Nat /\ f.sequence <= MaxSequence /\ p.expected \in Nat
        BY <2>2, <2>5
      <4>3. p.expected <= MaxSequence
        BY <4>1, <4>2, <1>1
      <4>. QED
        BY <4>1, <4>3 DEF Leads
    <3>. QED
      BY <3>1
  <2>10. Leads(g, g.expected) => Leads(p, p.expected)
    <3>1. CASE p.expected = g.expected
      BY <3>1, <1>3, <2>1, <2>4 DEF Leads
    <3>. QED
      BY <3>1, <2>6
  <2>7. CASE p.queue = {}
    <3>1. a = p
      BY <1>3, <2>7 DEF Advance, p
    <3>2. a.expected = g.expected
      BY <3>1, <2>1, <2>7
    <3>3. Leads(g, g.expected) => Leads(a, a.expected)
      BY <3>1, <2>10
    <3>. QED
      BY <3>1, <3>2, <3>3, <1>1, <1>3, <2>1, <2>3, <2>4, <2>7
  <2>8. CASE p.queue # {} /\ Lowest(p.queue).sequence = p.expected
    <3>. DEFINE f == Lowest(p.queue)
    <3>1. f \in p.queue
      BY <2>2, <2>8, LowestFacts
    <3>2. f \in Frame /\ f # Nothing /\ f.sequence \in Nat /\ f.sequence <= MaxSequence
      BY <3>1, <2>2, FrameFacts
    <3>3. a = [p EXCEPT !.queue = p.queue \ {f}, !.expected = p.expected + 1, !.gap = FALSE,
                        !.pending = f, !.renderTimer = TRUE]
      BY <1>3, <2>8 DEF Advance, p
    <3>4. f.sequence = p.expected
      BY <2>8
    <3>. HIDE DEF f
    <3>5. /\ a \in GateRecord /\ a.queue = p.queue \ {f} /\ a.expected = p.expected + 1
          /\ a.pending = f /\ a.renderTimer = TRUE
      <4>1. /\ p.queue \ {f} \in SUBSET Frame /\ p.expected + 1 \in Nat
            /\ f \in Frame \cup {Nothing} /\ FALSE \in BOOLEAN /\ TRUE \in BOOLEAN
        BY <3>2, <2>2
      <4>2. p \in GateRecord
        BY <2>2
      <4>. DEFINE q == p.queue \ {f}
                  n == p.expected + 1
      <4>3. a = [p EXCEPT !.queue = q, !.expected = n, !.gap = FALSE,
                          !.pending = f, !.renderTimer = TRUE]
        BY <3>3
      <4>4. q \in SUBSET Frame /\ n \in Nat
        BY <4>1
      <4>. HIDE DEF q, n
      <4>5. /\ a \in GateRecord /\ a.queue = q /\ a.expected = n
            /\ a.pending = f /\ a.renderTimer = TRUE
        BY <4>1, <4>2, <4>3, <4>4 DEF GateRecord
      <4>. QED
        BY <4>5 DEF q, n
    <3>6. IsFiniteSet(a.queue) /\ Cardinality(a.queue) <= MaxQueueDepth
      <4>1. a.queue \subseteq p.queue
        BY <3>5
      <4>2. IsFiniteSet(a.queue) /\ Cardinality(a.queue) <= Cardinality(p.queue)
        BY <4>1, <2>2, FS_Subset
      <4>3. Cardinality(a.queue) \in Nat /\ Cardinality(p.queue) \in Nat
        BY <4>2, <2>2, FS_CardinalityType
      <4>. QED
        BY <4>2, <4>3, <2>2
    <3>7. GateOK(a)
      BY <3>2, <3>5, <3>6, <2>1 DEF GateOK
    <3>8. a.expected >= g.expected /\ a.expected <= MaxSequence + 1
      BY <3>2, <3>4, <3>5, <2>2, <2>3, <1>1
    <3>9. a.queue \subseteq g.queue /\ f \in g.queue
      BY <3>1, <3>5, <2>3
    <3>10. ASSUME NEW h \in g.queue
           PROVE  h \in a.queue \/ h = a.pending \/ h.sequence < a.expected
      <4>1. CASE h \in p.queue
        BY <4>1, <3>5
      <4>2. CASE h.sequence < p.expected
        <5>1. h.sequence \in Nat
          BY <1>1, FrameFacts
        <5>. QED
          BY <5>1, <4>2, <3>5, <2>2
      <4>. QED
        BY <4>1, <4>2, <2>4
    <3>11. a.pending.sequence >= g.expected /\ a.expected = a.pending.sequence + 1
      BY <3>4, <3>5, <2>2, <2>3, <1>1
    <3>12. Leads(a, a.expected)
      BY <3>2, <3>5, <3>11 DEF Leads
    <3>13. ASSUME NEW h \in a.queue PROVE a.pending.sequence < h.sequence
      <4>1. h \in p.queue /\ h # f
        BY <3>5
      <4>2. f.sequence <= h.sequence
        BY <4>1, <2>2, <2>8, LowestFacts DEF f
      <4>3. f.sequence # h.sequence
        BY <4>1, <3>1, <2>1 DEF GateOK
      <4>4. h.sequence \in Nat
        BY <4>1, <2>5
      <4>. QED
        BY <4>2, <4>3, <4>4, <3>2, <3>5
    <3>. QED
      BY <3>2, <3>5, <3>7, <3>8, <3>9, <3>10, <3>11, <3>12, <3>13, <1>3
  <2>9. CASE p.queue # {} /\ Lowest(p.queue).sequence # p.expected
    <3>1. a = [p EXCEPT !.sequenceTimer = TRUE]
      BY <1>3, <2>9 DEF Advance, p
    <3>2. /\ a \in GateRecord /\ a.queue = p.queue /\ a.expected = p.expected
          /\ a.pending = p.pending /\ a.renderTimer = p.renderTimer /\ a.sequenceTimer = TRUE
      BY <3>1, <2>2 DEF GateRecord
    <3>3. GateOK(a)
      BY <3>2, <2>1 DEF GateOK
    <3>4. \/ a.expected = g.expected
          \/ a.expected <= MaxSequence + 1 /\ g.queue # {} /\ Leads(a, a.expected)
      <4>1. p.expected <= MaxSequence => a.expected <= MaxSequence + 1
        BY <3>2, <2>2, <1>1
      <4>. QED
        BY <4>1, <3>2, <2>3, <2>6 DEF Leads
    <3>5. Leads(g, g.expected) => Leads(a, a.expected)
      BY <3>2, <2>10 DEF Leads
    <3>. QED
      BY <3>2, <3>3, <3>4, <3>5, <1>3, <2>1, <2>3, <2>4
  <2>. QED
    BY <2>7, <2>8, <2>9
<1>. QED
  BY <1>2, <1>3

-----------------------------------------------------------------------------
(* The stream: what is posted to the worker and, after it, the frame that  *)
(* would be posted next.  Without a worker that frame is the whole stream. *)

\* The era of the frames to come; after a disconnect it has not begun.
Epoch == IF configKey = Nothing THEN era + 1 ELSE era

\* The era whose frames came in the order of their sequences so far, if any.
Tidy == IF jumbled THEN 0 ELSE Epoch

NextFrame == [sequence |-> lastDepthSequence, turn |-> turn + 1, era |-> Epoch]

Stream == Append(toWorker, NextFrame)

Frames(u) == {i \in 1..Len(u) : i = Len(u) \/ u[i] # Reset}

IsStream(u) ==
    /\ Len(u) \in Nat /\ Len(u) >= 1
    /\ \A i \in Frames(u) : /\ u[i].sequence \in Nat /\ u[i].turn \in Nat
                            /\ u[i].turn >= 1 /\ u[i].era \in Nat /\ u[i].era >= 1
                            /\ i < Len(u) => u[i] \in Frame

\* A reset lies between two places of the stream; the gate is at place 0.
Cut(u, i, j) == \E k \in 1..Len(u) : i < k /\ k < j /\ u[k] = Reset

\* x was made before y.  No frame without a sequence follows one with a sequence in the
\* same era, and in era t sequences do not go down.
Comes(x, y, t) ==
    /\ x.turn < y.turn /\ x.era <= y.era
    /\ x.era = y.era /\ y.sequence = 0 => x.sequence = 0
    /\ x.era = t /\ y.era = t => x.sequence <= y.sequence

\* x is at place i of the stream, or has left it there.  A reset ends an era.
Ahead(x, i, u, t) ==
    \A j \in Frames(u) : i < j =>
        /\ Comes(x, u[j], t)
        /\ x.era = u[j].era => ~Cut(u, i, j)

\* Only a reset ends an era.
SameEra(x, i, u) ==
    \A j \in Frames(u) : i < j /\ ~Cut(u, i, j) => x.era = u[j].era

IsMade(x) == x.sequence \in Nat /\ x.turn \in Nat /\ x.era \in Nat

\* A frame is posted: it has the place of the one that was expected.
Posted(u, w, t, s) ==
    LET n == Len(u) IN
    /\ Len(w) = n + 1
    /\ \A i \in 1..(n - 1) : w[i] = u[i]
    /\ w[n] # Reset
    /\ w[n].turn = u[n].turn /\ w[n].turn < w[n + 1].turn
    /\ w[n].era = u[n].era /\ w[n + 1].era = u[n].era
    /\ w[n + 1].sequence = w[n].sequence
    /\ w[n].sequence = 0 => u[n].sequence = 0
    /\ s = 0 \/ (s = t /\ (s = u[n].era => u[n].sequence <= w[n].sequence))

\* A reset is posted, and the next frame will be of a later era.
ResetPosted(u, w, s) ==
    LET n == Len(u) IN
    /\ Len(w) = n + 1
    /\ \A i \in 1..(n - 1) : w[i] = u[i]
    /\ w[n] = Reset
    /\ w[n + 1].turn = u[n].turn /\ w[n + 1].era = s

\* A frame is made that does not go through the gate, or depth comes for which there
\* is no frame.
Passes(u, w, t, s) ==
    LET n == Len(u) IN
    /\ Len(w) = n
    /\ \A i \in 1..(n - 1) : w[i] = u[i]
    /\ w[n].turn > u[n].turn /\ w[n].era = u[n].era
    /\ w[n].sequence = 0 => u[n].sequence = 0
    /\ s = 0 \/ (s = t /\ (s = u[n].era => u[n].sequence <= w[n].sequence))

\* The worker takes the first message.
Taken(u, w) ==
    /\ Len(u) > 1 /\ Len(w) = Len(u) - 1
    /\ \A i \in 1..Len(w) : w[i] = u[i + 1]

LEMMA StreamFacts ==
    ASSUME NEW u, IsStream(u), NEW j \in Frames(u)
    PROVE  /\ u[j].sequence \in Nat /\ u[j].turn \in Nat /\ u[j].turn >= 1
           /\ u[j].era \in Nat /\ u[j].era >= 1 /\ IsMade(u[j])
           /\ j \in Nat /\ 0 < j /\ j <= Len(u)
BY DEF IsStream, Frames, IsMade

LEMMA PostedKeeps ==
    ASSUME NEW u, NEW w, NEW t \in Nat, NEW s \in Nat, IsStream(u), IsStream(w),
           Posted(u, w, t, s)
    PROVE  /\ \A x : \A i \in 0..(Len(u) - 1) :
                 IsMade(x) /\ Ahead(x, i, u, t) => Ahead(x, i, w, s)
           /\ \A x : \A i \in 0..(Len(u) - 1) : SameEra(x, i, u) => SameEra(x, i, w)
           /\ Ahead(w[Len(u)], Len(u), w, s) /\ SameEra(w[Len(u)], Len(u), w)
           /\ Ahead(w[Len(w)], Len(w), w, s) /\ SameEra(w[Len(w)], Len(w), w)
           /\ Frames(w) = Frames(u) \cup {Len(w)}
           /\ \A j \in Frames(u) : Cut(w, 0, j) <=> Cut(u, 0, j)
           /\ Cut(w, 0, Len(w)) <=> Cut(u, 0, Len(u))
<1>. DEFINE n == Len(u)
<1>1. n \in Nat /\ n >= 1 /\ Len(w) = n + 1
  BY DEF IsStream, Posted
<1>. HIDE DEF n
<1>2. Frames(w) = Frames(u) \cup {n + 1} /\ n \in Frames(u) /\ n + 1 \in Frames(w)
  BY <1>1 DEF Frames, Posted, n
<1>3. ASSUME NEW i \in 0..(n - 1), NEW j \in Frames(u), i < j
      PROVE  Cut(w, i, j) <=> Cut(u, i, j)
  <2>1. j \in 1..n
    BY <1>1 DEF Frames, n
  <2>2. \A k \in 1..(n + 1) : k < j => k \in 1..n /\ w[k] = u[k]
    <3>1. \A k \in 1..(n - 1) : w[k] = u[k]
      BY DEF Posted, n
    <3>. QED
      BY <3>1, <2>1, <1>1
  <2>3. Cut(w, i, j) <=> \E k \in 1..(n + 1) : i < k /\ k < j /\ w[k] = Reset
    BY <1>1 DEF Cut
  <2>4. Cut(u, i, j) <=> \E k \in 1..n : i < k /\ k < j /\ u[k] = Reset
    BY DEF Cut, n
  <2>. QED
    BY <2>2, <2>3, <2>4, <1>1
<1>4. ASSUME NEW i \in 0..(n - 1)
      PROVE  Cut(w, i, n + 1) <=> Cut(u, i, n)
  <2>1. \A k \in 1..(n - 1) : w[k] = u[k]
    BY DEF Posted, n
  <2>2. w[n] # Reset
    BY <1>1 DEF Posted, n, IsStream
  <2>. QED
    BY <1>1, <2>1, <2>2, SMTT(30) DEF Cut, n
<1>5. /\ w[n].turn = u[n].turn /\ w[n].turn < w[n + 1].turn
      /\ w[n].era = u[n].era /\ w[n + 1].era = u[n].era
      /\ w[n + 1].sequence = w[n].sequence
      /\ w[n].sequence = 0 => u[n].sequence = 0
      /\ s = 0 \/ (s = t /\ (s = u[n].era => u[n].sequence <= w[n].sequence))
      /\ \A j \in 1..(n - 1) : w[j] = u[j]
  BY <1>1 DEF Posted, n
<1>6. /\ IsMade(u[n]) /\ IsMade(w[n]) /\ IsMade(w[n + 1])
      /\ \A j \in Frames(u) : IsMade(u[j])
  BY <1>1, <1>2 DEF IsStream, IsMade, Frames
<1>7. ASSUME NEW i \in 0..(n - 1), NEW x, IsMade(x), Ahead(x, i, u, t)
      PROVE  Ahead(x, i, w, s)
  <2>1. ASSUME NEW j \in Frames(u), i < j
        PROVE  Comes(x, w[j], s) /\ (x.era = w[j].era => ~Cut(w, i, j))
    <3>1. Comes(x, u[j], t) /\ (x.era = u[j].era => ~Cut(u, i, j))
      BY <1>7, <2>1 DEF Ahead
    <3>2. CASE j # n
      <4>1. w[j] = u[j]
        BY <1>1, <1>5, <3>2 DEF Frames, n
      <4>2. Comes(x, w[j], s)
        <5>1. CASE s = t
          BY <5>1, <3>1, <4>1
        <5>2. CASE s = 0 /\ s # t
          <6>1. u[j] \in Frame
            BY <1>1, <3>2 DEF IsStream, Frames, n
          <6>2. u[j].era \in Nat /\ u[j].era >= 1
            BY <6>1, FrameFacts
          <6>. QED
            BY <5>2, <6>2, <3>1, <4>1 DEF Comes
        <5>. QED
          BY <5>1, <5>2, <1>5
      <4>. QED
        BY <4>1, <4>2, <3>1, <1>3, <2>1
    <3>3. CASE j = n
      <4>1. Comes(x, w[n], s)
        <5>1. Comes(x, u[n], t)
          BY <3>1, <3>3
        <5>2. /\ x.turn < w[n].turn /\ x.era <= w[n].era
              /\ x.era = w[n].era /\ w[n].sequence = 0 => x.sequence = 0
          BY <5>1, <1>5 DEF Comes
        <5>3. x.era = s /\ w[n].era = s => x.sequence <= w[n].sequence
          <6>1. CASE s = t /\ (s = u[n].era => u[n].sequence <= w[n].sequence)
            BY <6>1, <5>1, <1>5, <1>6, <1>7 DEF Comes, IsMade
          <6>2. CASE s = 0
            <7>1. w[n].era # 0
              BY <1>1, <1>2, <1>5, <1>6 DEF IsStream, Frames, n
            <7>. QED
              BY <7>1, <6>2
          <6>. QED
            BY <6>1, <6>2, <1>5
        <5>. QED
          BY <5>2, <5>3 DEF Comes
      <4>. QED
        BY <4>1, <3>1, <3>3, <1>3, <1>5, <2>1
    <3>. QED
      BY <3>2, <3>3
  <2>2. Comes(x, w[n + 1], s) /\ (x.era = w[n + 1].era => ~Cut(w, i, n + 1))
    <3>1. Comes(x, w[n], s) /\ (x.era = w[n].era => ~Cut(w, i, n))
      <4>1. n \in Frames(u) /\ i < n
        BY <1>1, <1>2
      <4>. QED
        BY <2>1, <4>1
    <3>2. Comes(x, w[n + 1], s)
      BY <3>1, <1>5, <1>6, <1>7 DEF Comes, IsMade
    <3>. QED
      <4>1. Cut(w, i, n) <=> Cut(u, i, n)
        <5>1. n \in Frames(u) /\ i < n
          BY <1>1, <1>2
        <5>. QED
          BY <5>1, <1>3
      <4>2. Cut(w, i, n + 1) <=> Cut(u, i, n)
        BY <1>4
      <4>. QED
        BY <3>1, <3>2, <4>1, <4>2, <1>5
  <2>. QED
    BY <2>1, <2>2, <1>2 DEF Ahead
<1>8. ASSUME NEW i \in 0..(n - 1), NEW x, SameEra(x, i, u)
      PROVE  SameEra(x, i, w)
  <2>1. ASSUME NEW j \in Frames(u), i < j, ~Cut(w, i, j)
        PROVE  x.era = w[j].era
    <3>1. x.era = u[j].era
      BY <1>3, <1>8, <2>1 DEF SameEra
    <3>2. w[j].era = u[j].era
      BY <1>1, <1>5 DEF Frames, n
    <3>. QED
      BY <3>1, <3>2
  <2>2. ASSUME ~Cut(w, i, n + 1) PROVE x.era = w[n + 1].era
    <3>1. n \in Frames(u) /\ i < n
      BY <1>1, <1>2
    <3>2. ~Cut(w, i, n)
      BY <3>1, <2>2, <1>3, <1>4
    <3>3. x.era = w[n].era
      BY <3>1, <3>2, <2>1
    <3>. QED
      BY <3>3, <1>5
  <2>. QED
    BY <2>1, <2>2, <1>2 DEF SameEra
<1>9. ASSUME NEW j \in Frames(w), n < j
      PROVE  j = n + 1 /\ ~Cut(w, n, j)
  BY <1>1, <1>9 DEF Frames, Cut
<1>10. Ahead(w[n], n, w, s) /\ SameEra(w[n], n, w)
  <2>1. Comes(w[n], w[n + 1], s)
    BY <1>5, <1>6 DEF Comes, IsMade
  <2>. QED
    BY <2>1, <1>5, <1>9 DEF Ahead, SameEra
<1>11. Ahead(w[n + 1], n + 1, w, s) /\ SameEra(w[n + 1], n + 1, w)
  BY <1>1 DEF Ahead, SameEra, Frames
<1>12. /\ \A j \in Frames(u) : Cut(w, 0, j) <=> Cut(u, 0, j)
       /\ Cut(w, 0, n + 1) <=> Cut(u, 0, n)
  <2>1. 0 \in 0..(n - 1) /\ \A j \in Frames(u) : 0 < j
    BY <1>1 DEF Frames
  <2>. QED
    BY <2>1, <1>3, <1>4
<1>. QED
  BY <1>1, <1>2, <1>7, <1>8, <1>10, <1>11, <1>12 DEF n

LEMMA ResetKeeps ==
    ASSUME NEW u, NEW w, NEW t \in Nat, NEW s \in Nat, IsStream(u), IsStream(w),
           ResetPosted(u, w, s)
    PROVE  /\ \A x : \A i \in 0..(Len(u) - 1) :
                 IsMade(x) /\ x.era < s /\ Ahead(x, i, u, t) => Ahead(x, i, w, s)
           /\ \A x : \A i \in 0..(Len(u) - 1) : SameEra(x, i, u) => SameEra(x, i, w)
           /\ Ahead(w[Len(w)], Len(w), w, s) /\ SameEra(w[Len(w)], Len(w), w)
           /\ Frames(w) = (Frames(u) \ {Len(u)}) \cup {Len(w)}
           /\ \A j \in Frames(u) : Cut(w, 0, j) <=> Cut(u, 0, j)
           /\ Cut(w, 0, Len(w))
<1>. DEFINE n == Len(u)
<1>1. n \in Nat /\ n >= 1 /\ Len(w) = n + 1
  BY DEF IsStream, ResetPosted
<1>. HIDE DEF n
<1>2. Frames(w) = (Frames(u) \ {n}) \cup {n + 1} /\ n \in Frames(u)
  BY <1>1 DEF Frames, ResetPosted, n
<1>3. ASSUME NEW i \in 0..(n - 1), NEW j \in Frames(u), i < j
      PROVE  Cut(w, i, j) <=> Cut(u, i, j)
  <2>1. j \in 1..n
    BY <1>1 DEF Frames, n
  <2>2. \A k \in 1..(n + 1) : k < j => k \in 1..n /\ w[k] = u[k]
    <3>1. \A k \in 1..(n - 1) : w[k] = u[k]
      BY DEF ResetPosted, n
    <3>. QED
      BY <3>1, <2>1, <1>1
  <2>3. Cut(w, i, j) <=> \E k \in 1..(n + 1) : i < k /\ k < j /\ w[k] = Reset
    BY <1>1 DEF Cut
  <2>4. Cut(u, i, j) <=> \E k \in 1..n : i < k /\ k < j /\ u[k] = Reset
    BY DEF Cut, n
  <2>. QED
    BY <2>2, <2>3, <2>4, <1>1
<1>4. ASSUME NEW i \in 0..(n - 1)
      PROVE  Cut(w, i, n + 1)
  BY <1>1 DEF Cut, ResetPosted, n
<1>5. /\ w[n + 1].turn = u[n].turn /\ w[n + 1].era = s
      /\ \A j \in 1..(n - 1) : w[j] = u[j]
  BY <1>1 DEF ResetPosted, n
<1>6. \A j \in Frames(u) \ {n} : j \in 1..(n - 1)
  BY <1>1 DEF Frames, n
<1>7. ASSUME NEW i \in 0..(n - 1), NEW x, IsMade(x), x.era < s, Ahead(x, i, u, t)
      PROVE  Ahead(x, i, w, s)
  <2>1. ASSUME NEW j \in Frames(u) \ {n}, i < j
        PROVE  Comes(x, w[j], s) /\ (x.era = w[j].era => ~Cut(w, i, j))
    <3>1. Comes(x, u[j], t) /\ (x.era = u[j].era => ~Cut(u, i, j)) /\ w[j] = u[j]
      BY <1>5, <1>6, <1>7, <2>1 DEF Ahead
    <3>2. Comes(x, w[j], s)
      BY <3>1, <1>7 DEF Comes, IsMade
    <3>. QED
      BY <3>1, <3>2, <1>3, <2>1
  <2>2. Comes(x, w[n + 1], s) /\ x.era # w[n + 1].era
    <3>1. Comes(x, u[n], t)
      BY <1>1, <1>2, <1>7 DEF Ahead
    <3>. QED
      BY <3>1, <1>5, <1>7 DEF Comes, IsMade
  <2>. QED
    BY <2>1, <2>2, <1>2 DEF Ahead
<1>8. ASSUME NEW i \in 0..(n - 1), NEW x, SameEra(x, i, u)
      PROVE  SameEra(x, i, w)
  <2>1. ASSUME NEW j \in Frames(u) \ {n}, i < j, ~Cut(w, i, j)
        PROVE  x.era = w[j].era
    BY <1>3, <1>5, <1>6, <1>8, <2>1 DEF SameEra
  <2>. QED
    BY <2>1, <1>2, <1>4 DEF SameEra
<1>9. Ahead(w[n + 1], n + 1, w, s) /\ SameEra(w[n + 1], n + 1, w)
  BY <1>1 DEF Ahead, SameEra, Frames
<1>10. \A j \in Frames(u) : Cut(w, 0, j) <=> Cut(u, 0, j)
  <2>1. 0 \in 0..(n - 1) /\ \A j \in Frames(u) : 0 < j
    BY <1>1 DEF Frames
  <2>. QED
    BY <2>1, <1>3
<1>. QED
  <2>1. Cut(w, 0, n + 1)
    BY <1>1, <1>4
  <2>. QED
    BY <2>1, <1>1, <1>2, <1>7, <1>8, <1>9, <1>10 DEF n

LEMMA PassesKeeps ==
    ASSUME NEW u, NEW w, NEW t \in Nat, NEW s \in Nat, IsStream(u), IsStream(w),
           Passes(u, w, t, s)
    PROVE  /\ \A x : \A i \in 0..(Len(u) - 1) :
                 IsMade(x) /\ Ahead(x, i, u, t) => Ahead(x, i, w, s)
           /\ \A x : \A i \in 0..(Len(u) - 1) : SameEra(x, i, u) => SameEra(x, i, w)
           /\ Ahead(w[Len(w)], Len(w), w, s) /\ SameEra(w[Len(w)], Len(w), w)
           /\ Frames(w) = Frames(u)
           /\ \A j \in Frames(u) : Cut(w, 0, j) <=> Cut(u, 0, j)
<1>. DEFINE n == Len(u)
<1>1. n \in Nat /\ n >= 1 /\ Len(w) = n
  BY DEF IsStream, Passes
<1>. HIDE DEF n
<1>2. Frames(w) = Frames(u) /\ n \in Frames(u)
  BY <1>1 DEF Frames, Passes, n
<1>3. ASSUME NEW i \in 0..(n - 1), NEW j \in Frames(u), i < j
      PROVE  Cut(w, i, j) <=> Cut(u, i, j)
  <2>1. j \in 1..n
    BY <1>1 DEF Frames, n
  <2>2. \A k \in 1..n : k < j => w[k] = u[k]
    <3>1. \A k \in 1..(n - 1) : w[k] = u[k]
      BY DEF Passes, n
    <3>. QED
      BY <3>1, <2>1, <1>1
  <2>3. Cut(w, i, j) <=> \E k \in 1..n : i < k /\ k < j /\ w[k] = Reset
    BY <1>1 DEF Cut
  <2>4. Cut(u, i, j) <=> \E k \in 1..n : i < k /\ k < j /\ u[k] = Reset
    BY DEF Cut, n
  <2>. QED
    BY <2>2, <2>3, <2>4
<1>4. /\ w[n].turn > u[n].turn /\ w[n].era = u[n].era
      /\ w[n].sequence = 0 => u[n].sequence = 0
      /\ s = 0 \/ (s = t /\ (s = u[n].era => u[n].sequence <= w[n].sequence))
      /\ \A j \in 1..(n - 1) : w[j] = u[j]
  BY <1>1 DEF Passes, n
<1>5. IsMade(w[n]) /\ IsMade(u[n])
  BY <1>1, <1>2 DEF IsStream, IsMade
<1>6. \A j \in Frames(u) : j = n \/ j \in 1..(n - 1)
  BY <1>1 DEF Frames, n
<1>7. ASSUME NEW i \in 0..(n - 1), NEW x, IsMade(x), Ahead(x, i, u, t)
      PROVE  Ahead(x, i, w, s)
  <2>1. ASSUME NEW j \in Frames(u), i < j
        PROVE  Comes(x, w[j], s) /\ (x.era = w[j].era => ~Cut(w, i, j))
    <3>1. Comes(x, u[j], t) /\ (x.era = u[j].era => ~Cut(u, i, j))
      BY <1>7, <2>1 DEF Ahead
    <3>2. IsMade(w[j]) /\ IsMade(u[j]) /\ w[j].era >= 1 /\ w[j].era = u[j].era
      BY <1>2, <1>4, <1>6, StreamFacts
    <3>3. /\ w[j].turn >= u[j].turn
          /\ w[j].sequence = 0 => u[j].sequence = 0
          /\ s = 0 \/ (s = t /\ (s = u[j].era => u[j].sequence <= w[j].sequence))
      <4>1. CASE j = n
        BY <4>1, <1>4, <1>5 DEF IsMade
      <4>2. CASE j # n
        <5>1. w[j] = u[j]
          BY <4>2, <1>4, <1>6
        <5>. QED
          BY <5>1, <3>2, <1>4 DEF IsMade
      <4>. QED
        BY <4>1, <4>2
    <3>4. Comes(x, w[j], s)
      BY <3>1, <3>2, <3>3, <1>7 DEF Comes, IsMade
    <3>. QED
      BY <3>1, <3>2, <3>4, <1>3, <2>1
  <2>. QED
    BY <2>1, <1>2 DEF Ahead
<1>8. ASSUME NEW i \in 0..(n - 1), NEW x, SameEra(x, i, u)
      PROVE  SameEra(x, i, w)
  <2>1. \A j \in Frames(u) : w[j].era = u[j].era
    BY <1>4, <1>6
  <2>. QED
    BY <2>1, <1>2, <1>3, <1>8 DEF SameEra
<1>9. Ahead(w[n], n, w, s) /\ SameEra(w[n], n, w)
  BY <1>1 DEF Ahead, SameEra, Frames
<1>10. \A j \in Frames(u) : Cut(w, 0, j) <=> Cut(u, 0, j)
  <2>1. 0 \in 0..(n - 1) /\ \A j \in Frames(u) : 0 < j
    BY <1>1 DEF Frames
  <2>. QED
    BY <2>1, <1>3
<1>. QED
  BY <1>1, <1>2, <1>7, <1>8, <1>9, <1>10 DEF n

\* What was behind the first message is one place nearer, and so is the first
\* message; what was ahead of it stays ahead, of a reset only if it is of an
\* earlier era than everything behind.
LEMMA TakenKeeps ==
    ASSUME NEW u, NEW w, NEW t \in Nat, IsStream(u), IsStream(w), Taken(u, w)
    PROVE  /\ \A x : \A i \in 0..(Len(u) - 1) :
                 /\ Ahead(x, i + 1, u, t) => Ahead(x, i, w, t)
                 /\ SameEra(x, i + 1, u) => SameEra(x, i, w)
           /\ \A x : Ahead(x, 0, u, t) => Ahead(x, 0, w, t)
           /\ u[1] # Reset => \A x : SameEra(x, 0, u) => SameEra(x, 0, w)
           /\ \A j \in 1..Len(w) : j \in Frames(w) <=> j + 1 \in Frames(u)
           /\ \A j \in Frames(w) : /\ w[j] = u[j + 1]
                                   /\ u[1] # Reset => (Cut(w, 0, j) <=> Cut(u, 0, j + 1))
<1>. DEFINE n == Len(w)
<1>1. n \in Nat /\ n >= 1 /\ Len(u) = n + 1
  BY DEF IsStream, Taken
<1>2. \A j \in 1..n : w[j] = u[j + 1]
  BY DEF Taken
<1>. HIDE DEF n
<1>3. \A j \in 1..n : j \in Frames(w) <=> j + 1 \in Frames(u)
  BY <1>1, <1>2 DEF Frames, n
<1>4. \A j \in Frames(w) : j \in 1..n /\ w[j] = u[j + 1] /\ j + 1 \in Frames(u)
  BY <1>1, <1>2, <1>3 DEF Frames, n
<1>5. ASSUME NEW i \in 0..n, NEW j \in Frames(w)
      PROVE  Cut(w, i, j) <=> Cut(u, i + 1, j + 1)
  <2>1. ASSUME Cut(w, i, j) PROVE Cut(u, i + 1, j + 1)
    <3>1. PICK k \in 1..n : i < k /\ k < j /\ w[k] = Reset
      BY <1>1, <2>1 DEF Cut, n
    <3>2. k + 1 \in 1..Len(u) /\ u[k + 1] = Reset /\ i + 1 < k + 1 /\ k + 1 < j + 1
      BY <3>1, <1>1, <1>2, <1>4
    <3>. QED
      BY <3>2 DEF Cut
  <2>2. ASSUME Cut(u, i + 1, j + 1) PROVE Cut(w, i, j)
    <3>1. PICK k \in 1..(n + 1) : i + 1 < k /\ k < j + 1 /\ u[k] = Reset
      BY <1>1, <2>2 DEF Cut
    <3>2. k - 1 \in 1..n /\ w[k - 1] = u[(k - 1) + 1] /\ i < k - 1 /\ k - 1 < j
      BY <3>1, <1>1, <1>2, <1>4
    <3>3. (k - 1) + 1 = k
      BY <3>1
    <3>. QED
      BY <3>1, <3>2, <3>3 DEF Cut, n
  <2>. QED
    BY <2>1, <2>2
<1>6. ASSUME NEW i \in 0..n, NEW x
      PROVE  /\ Ahead(x, i + 1, u, t) => Ahead(x, i, w, t)
             /\ SameEra(x, i + 1, u) => SameEra(x, i, w)
  BY <1>1, <1>4, <1>5, SMTT(30) DEF Ahead, SameEra
<1>7. ASSUME NEW j \in Frames(w)
      PROVE  /\ Cut(w, 0, j) => Cut(u, 0, j + 1)
             /\ u[1] # Reset => (Cut(w, 0, j) <=> Cut(u, 0, j + 1))
  <2>1. Cut(w, 0, j) <=> Cut(u, 1, j + 1)
    BY <1>1, <1>5
  <2>2. Cut(u, 1, j + 1) => Cut(u, 0, j + 1)
    BY <1>1 DEF Cut
  <2>3. u[1] # Reset /\ Cut(u, 0, j + 1) => Cut(u, 1, j + 1)
    BY <1>1 DEF Cut
  <2>. QED
    BY <2>1, <2>2, <2>3
<1>8. ASSUME NEW x, Ahead(x, 0, u, t) PROVE Ahead(x, 0, w, t)
  BY <1>1, <1>4, <1>7, <1>8 DEF Ahead
<1>9. ASSUME u[1] # Reset, NEW x, SameEra(x, 0, u) PROVE SameEra(x, 0, w)
  BY <1>1, <1>4, <1>7, <1>9 DEF SameEra
<1>. QED
  BY <1>1, <1>3, <1>4, <1>6, <1>7, <1>8, <1>9 DEF n

-----------------------------------------------------------------------------
(* The gate at the head of the stream.                                     *)

InGate(g) == g.queue \cup (IF g.pending = Nothing THEN {} ELSE {g.pending})

\* The release as if it had been made before all frames.
Late(r) == [sequence |-> r.sequence, turn |-> 0, era |-> r.era]

InLine(u, t) == \A i \in Frames(u) : Ahead(u[i], i, u, t) /\ SameEra(u[i], i, u)

GateFirst(g, u, t) == \A f \in InGate(g) : Ahead(f, 0, u, t) /\ SameEra(f, 0, u)

\* The frames of the gate are of one era.  While sequences do not go down, the pending
\* frame is the oldest, and the queue is in the order in which frames were made.
GateTidy(g, t) ==
    /\ \A f, h \in InGate(g) : f.era = h.era
    /\ g.expected = 0 => g.queue = {}
    /\ g.pending # Nothing /\ g.pending.sequence > 0 => g.expected > g.pending.sequence
    /\ \A f, h \in g.queue : f.era = t /\ f.sequence < h.sequence => f.turn < h.turn
    /\ \A f \in g.queue : g.pending # Nothing /\ f.era = t => g.pending.turn < f.turn

\* What is expected next is above MaxSequence by the frames the guard lost at most, and
\* once it is known, all frames up to the next reset have a sequence.
Expects(g, u) ==
    \A j \in Frames(u) :
        /\ g.expected <= MaxSequence + u[j].turn
        /\ g.expected > 0 /\ ~Cut(u, 0, j) => u[j].sequence > 0

GateInv(g, u, t) ==
    /\ GateOK(g) /\ IsStream(u) /\ t \in Nat
    /\ InLine(u, t) /\ GateFirst(g, u, t) /\ GateTidy(g, t) /\ Expects(g, u)

\* All frames to come are of a later era.
Past(e, g, u) == (\A f \in InGate(g) : e < f.era) /\ (\A j \in Frames(u) : e < u[j].era)

InSequence(g, r) ==
    g.pending # Nothing /\ g.pending.era = r.era =>
        g.pending.sequence > r.sequence \/ (g.pending.sequence = 0 /\ r.sequence = 0)

\* The guard expects more than what it released in this era.
ReleaseFirst(r, g, u, t) ==
    r # Nothing =>
        /\ Ahead(Late(r), 0, u, t)
        /\ \A f \in InGate(g) : r.era <= f.era
        /\ r.sequence > 0 => g.expected > r.sequence \/ Past(r.era, g, u)
        /\ InSequence(g, r)

LEMMA GateFacts ==
    ASSUME NEW g, GateOK(g)
    PROVE  /\ InGate(g) \subseteq Frame /\ g.queue \subseteq Frame /\ g.expected \in Nat
           /\ g.queue \subseteq InGate(g)
           /\ g.pending # Nothing => g.pending \in InGate(g)
           /\ \A f \in InGate(g) : /\ f.sequence \in Nat /\ f.turn \in Nat /\ f.era \in Nat
                                   /\ f.sequence <= MaxSequence /\ f.era >= 1 /\ IsMade(f)
           /\ \A f \in g.queue : f.sequence > 0
<1>1. /\ InGate(g) \subseteq Frame /\ g.queue \subseteq Frame /\ g.expected \in Nat
      /\ g.queue \subseteq InGate(g)
      /\ g.pending # Nothing => g.pending \in InGate(g)
      /\ \A f \in g.queue : f.sequence > 0
  BY DEF GateOK, GateRecord, InGate
<1>. QED
  BY <1>1, FrameFacts DEF IsMade

\* A poll keeps the order of the gate and of what it releases.
LEMMA PollKeeps ==
    ASSUME NEW g, NEW u, NEW t, GateInv(g, u, t), NEW graceOver, NEW r \in Release \cup {Nothing},
           ReleaseFirst(r, g, u, t)
    PROVE  LET a == Advance(g, graceOver)
           IN  /\ GateInv(a, u, t) /\ ReleaseFirst(r, a, u, t)
               /\ InGate(a) \subseteq InGate(g)
<1>. DEFINE a == Advance(g, graceOver)
<1>1. /\ GateOK(a) /\ a.expected >= g.expected
      /\ a.queue \subseteq g.queue
      /\ \/ a.pending = g.pending
         \/ /\ a.pending \in g.queue /\ a.pending.sequence >= g.expected
            /\ a.expected = a.pending.sequence + 1
            /\ \A f \in a.queue : a.pending.sequence < f.sequence
      /\ \/ a.expected = g.expected
         \/ a.expected <= MaxSequence + 1 /\ g.queue # {}
  BY AdvanceFacts DEF GateInv
<1>2. /\ g.expected \in Nat /\ a.expected \in Nat /\ g.queue \subseteq InGate(g)
      /\ g.pending # Nothing => g.pending \in InGate(g)
      /\ \A f \in InGate(g) : f.sequence \in Nat /\ f.turn \in Nat /\ f.era \in Nat
      /\ \A f \in g.queue : f.sequence > 0
  <2>1. GateOK(g) /\ GateOK(a)
    BY <1>1 DEF GateInv
  <2>. HIDE DEF a
  <2>2. a.expected \in Nat
    BY <2>1, GateFacts
  <2>. QED
    BY <2>1, <2>2, GateFacts
<1>. HIDE DEF a
<1>3. InGate(a) \subseteq InGate(g)
  BY <1>1, <1>2 DEF InGate
<1>4. GateFirst(a, u, t)
  BY <1>3 DEF GateInv, GateFirst
<1>5. GateTidy(a, t)
  <2>1. \A f, h \in InGate(a) : f.era = h.era
    BY <1>3 DEF GateInv, GateTidy
  <2>2. a.expected = 0 => a.queue = {}
    BY <1>1, <1>2 DEF GateInv, GateTidy
  <2>3. a.pending # Nothing /\ a.pending.sequence > 0 => a.expected > a.pending.sequence
    <3>1. CASE a.pending = g.pending
      BY <3>1, <1>1, <1>2 DEF GateInv, GateTidy
    <3>2. CASE a.pending \in g.queue /\ a.expected = a.pending.sequence + 1
      BY <3>2, <1>2
    <3>. QED
      BY <3>1, <3>2, <1>1
  <2>4. \A f, h \in a.queue : f.era = t /\ f.sequence < h.sequence => f.turn < h.turn
    BY <1>1 DEF GateInv, GateTidy
  <2>5. ASSUME NEW f \in a.queue, a.pending # Nothing, f.era = t
        PROVE  a.pending.turn < f.turn
    <3>1. CASE a.pending = g.pending
      BY <3>1, <2>5, <1>1 DEF GateInv, GateTidy
    <3>2. CASE a.pending \in g.queue /\ a.pending.sequence < f.sequence
      <4>1. a.pending.era = t
        BY <3>2, <2>5, <1>1, <1>2 DEF GateInv, GateTidy
      <4>. QED
        BY <3>2, <4>1, <2>5, <1>1 DEF GateInv, GateTidy
    <3>. QED
      BY <3>1, <3>2, <1>1
  <2>. QED
    BY <2>1, <2>2, <2>3, <2>4, <2>5 DEF GateTidy
<1>6. Expects(a, u)
  <2>1. ASSUME NEW j \in Frames(u) PROVE a.expected <= MaxSequence + u[j].turn
    <3>1. u[j].turn \in Nat /\ u[j].turn >= 1 /\ MaxSequence \in Nat
      BY StreamFacts, BoundsArePositive DEF GateInv
    <3>2. g.expected <= MaxSequence + u[j].turn
      BY DEF GateInv, Expects
    <3>. QED
      BY <3>1, <3>2, <1>1, <1>2
  <2>2. ASSUME NEW j \in Frames(u), a.expected > 0, ~Cut(u, 0, j) PROVE u[j].sequence > 0
    <3>1. g.expected > 0
      BY <2>2, <1>1, <1>2 DEF GateInv, GateTidy
    <3>. QED
      BY <3>1, <2>2 DEF GateInv, Expects
  <2>. QED
    BY <2>1, <2>2 DEF Expects
<1>7. ReleaseFirst(r, a, u, t)
  <2>. SUFFICES ASSUME r # Nothing
                PROVE  /\ Ahead(Late(r), 0, u, t)
                       /\ \A f \in InGate(a) : r.era <= f.era
                       /\ r.sequence > 0 => a.expected > r.sequence \/ Past(r.era, a, u)
                       /\ InSequence(a, r)
    BY DEF ReleaseFirst
  <2>1. /\ Ahead(Late(r), 0, u, t)
        /\ \A f \in InGate(g) : r.era <= f.era
        /\ r.sequence > 0 => g.expected > r.sequence \/ Past(r.era, g, u)
        /\ InSequence(g, r)
    BY DEF ReleaseFirst
  <2>2. r.sequence \in Nat /\ r.era \in Nat
    BY BoundsArePositive DEF Release
  <2>3. Past(r.era, g, u) => Past(r.era, a, u)
    BY <1>3 DEF Past
  <2>4. r.sequence > 0 => a.expected > r.sequence \/ Past(r.era, a, u)
    BY <2>1, <2>2, <2>3, <1>1, <1>2
  <2>5. InSequence(a, r)
    <3>1. CASE a.pending = g.pending
      BY <3>1, <2>1 DEF InSequence
    <3>2. CASE a.pending \in g.queue /\ a.pending.sequence >= g.expected
      <4>1. a.pending.sequence \in Nat /\ a.pending.sequence > 0 /\ a.pending \in InGate(g)
        BY <3>2, <1>2
      <4>2. Past(r.era, g, u) => r.era < a.pending.era
        BY <4>1 DEF Past
      <4>3. a.pending.era \in Nat
        BY <4>1, <1>2
      <4>. QED
        BY <3>2, <4>1, <4>2, <4>3, <2>1, <2>2, <1>2 DEF InSequence
    <3>. QED
      BY <3>1, <3>2, <1>1
  <2>. QED
    BY <2>1, <2>4, <2>5, <1>3
<1>. QED
  BY <1>1, <1>3, <1>4, <1>5, <1>6, <1>7 DEF GateInv, a

\* y stands where x stands.
Alike(x, y) == x.sequence = y.sequence /\ x.turn = y.turn /\ x.era = y.era

LEMMA AlikeKeeps ==
    ASSUME NEW x, NEW y, Alike(x, y), NEW u, NEW t, NEW i
    PROVE  /\ Ahead(y, i, u, t) => Ahead(x, i, u, t)
           /\ SameEra(y, i, u) => SameEra(x, i, u)
BY DEF Alike, Ahead, SameEra, Comes

LEMMA TakenPlaces ==
    ASSUME NEW u, NEW w, IsStream(u), IsStream(w), Taken(u, w), NEW j \in Frames(w)
    PROVE  w[j] = u[j + 1] /\ j + 1 \in Frames(u)
BY DEF IsStream, Taken, Frames

\* The first message is a frame: what is ahead of it, and what it is ahead of.
LEMMA HeadFacts ==
    ASSUME NEW g, NEW u, NEW w, NEW t, GateInv(g, u, t), IsStream(w), Taken(u, w), u[1] # Reset
    PROVE  /\ u[1] \in Frame /\ 1 \in Frames(u) /\ ~Cut(u, 0, 1)
           /\ \A f \in InGate(g) : Comes(f, u[1], t) /\ f.era = u[1].era
           /\ Ahead(u[1], 0, w, t) /\ SameEra(u[1], 0, w)
           /\ \A j \in Frames(w) : Comes(u[1], w[j], t) /\ w[j] = u[j + 1] /\ j + 1 \in Frames(u)
           /\ InLine(w, t) /\ GateFirst(g, w, t)
           /\ \A x : Ahead(x, 0, u, t) => Ahead(x, 0, w, t) /\ Comes(x, u[1], t)
<1>1. IsStream(u) /\ t \in Nat /\ Len(u) \in Nat /\ Len(u) > 1 /\ InLine(u, t) /\ GateFirst(g, u, t)
  BY DEF GateInv, IsStream, Taken
<1>2. 1 \in Frames(u) /\ u[1] \in Frame /\ ~Cut(u, 0, 1)
  BY <1>1 DEF Frames, IsStream, Cut
<1>3. /\ \A x : \A i \in 0..(Len(u) - 1) :
            /\ Ahead(x, i + 1, u, t) => Ahead(x, i, w, t)
            /\ SameEra(x, i + 1, u) => SameEra(x, i, w)
      /\ \A x : Ahead(x, 0, u, t) => Ahead(x, 0, w, t)
      /\ \A x : SameEra(x, 0, u) => SameEra(x, 0, w)
      /\ \A j \in 1..Len(w) : j \in Frames(w) <=> j + 1 \in Frames(u)
      /\ \A j \in Frames(w) : w[j] = u[j + 1]
  BY <1>1, TakenKeeps
<1>4. Ahead(u[1], 1, u, t) /\ SameEra(u[1], 1, u)
  BY <1>1, <1>2 DEF InLine
<1>5. Ahead(u[1], 0, w, t) /\ SameEra(u[1], 0, w)
  <2>1. 0 \in 0..(Len(u) - 1) /\ 0 + 1 = 1
    BY <1>1
  <2>2. Ahead(u[1], 0 + 1, u, t) /\ SameEra(u[1], 0 + 1, u)
    BY <1>4, <2>1
  <2>. QED
    BY <2>1, <2>2, <1>3
<1>6. \A f \in InGate(g) : Comes(f, u[1], t) /\ f.era = u[1].era
  BY <1>1, <1>2 DEF GateFirst, Ahead, SameEra
<1>7. ASSUME NEW j \in Frames(w)
      PROVE  /\ Comes(u[1], w[j], t) /\ w[j] = u[j + 1] /\ j + 1 \in Frames(u)
             /\ j \in 1..Len(w) /\ j \in Nat /\ j > 0
  <2>1. j \in 1..Len(w) /\ j \in Nat /\ j > 0
    BY DEF Frames, IsStream
  <2>. QED
    BY <2>1, <1>3, <1>5 DEF Ahead
<1>8. InLine(w, t)
  <2>1. ASSUME NEW j \in Frames(w) PROVE Ahead(w[j], j, w, t) /\ SameEra(w[j], j, w)
    <3>1. j \in 0..(Len(u) - 1)
      BY <1>1, <1>7 DEF Taken
    <3>2. Ahead(u[j + 1], j + 1, u, t) /\ SameEra(u[j + 1], j + 1, u)
      BY <1>1, <1>7 DEF InLine
    <3>3. Ahead(u[j + 1], j, w, t) /\ SameEra(u[j + 1], j, w)
      BY <3>1, <3>2, <1>3
    <3>. QED
      BY <3>3, <1>7
  <2>. QED
    BY <2>1 DEF InLine
<1>9. GateFirst(g, w, t)
  BY <1>1, <1>3 DEF GateFirst
<1>10. \A x : Ahead(x, 0, u, t) => Comes(x, u[1], t)
  BY <1>2 DEF Ahead
<1>. QED
  BY <1>2, <1>3, <1>5, <1>6, <1>7, <1>8, <1>9, <1>10

\* What the guard expects after the first message has room for one loss more.
LEMMA ExpectsNext ==
    ASSUME NEW g, NEW u, NEW w, NEW t, GateInv(g, u, t), IsStream(w), Taken(u, w), u[1] # Reset,
           NEW e, e.expected \in Nat,
           \/ e.expected <= g.expected + 1
           \/ e.expected <= MaxSequence + 1,
           e.expected > 0 => g.expected > 0 \/ u[1].sequence > 0
    PROVE  Expects(e, w)
<1>1. MaxSequence \in Nat /\ g.expected \in Nat
  BY GateFacts, BoundsArePositive DEF GateInv
<1>2. IsStream(u) /\ InLine(u, t) /\ Expects(g, u) /\ GateFirst(g, u, t) /\ t \in Nat
  BY DEF GateInv
<1>3. /\ 1 \in Frames(u) /\ ~Cut(u, 0, 1)
      /\ \A j \in Frames(w) : Comes(u[1], w[j], t) /\ w[j] = u[j + 1] /\ j + 1 \in Frames(u)
      /\ SameEra(u[1], 0, w)
  BY HeadFacts
<1>4. ASSUME NEW j \in Frames(w) PROVE e.expected <= MaxSequence + w[j].turn
  <2>1. /\ u[1].turn \in Nat /\ u[1].turn >= 1 /\ w[j].turn \in Nat
        /\ u[1].turn < w[j].turn
    BY <1>2, <1>3, StreamFacts DEF Comes
  <2>2. g.expected <= MaxSequence + u[1].turn
    BY <1>2, <1>3 DEF Expects
  <2>. QED
    BY <2>1, <2>2, <1>1
<1>5. ASSUME NEW j \in Frames(w), e.expected > 0, ~Cut(w, 0, j) PROVE w[j].sequence > 0
  <2>1. u[1].sequence > 0
    BY <1>2, <1>3, <1>5 DEF Expects
  <2>2. u[1].era = w[j].era
    <3>1. 0 < j
      BY StreamFacts
    <3>. QED
      BY <3>1, <1>3, <1>5 DEF SameEra
  <2>3. w[j].sequence \in Nat /\ u[1].sequence \in Nat
    BY <1>2, <1>3, StreamFacts
  <2>. QED
    BY <2>1, <2>2, <2>3, <1>3 DEF Comes
<1>. QED
  BY <1>4, <1>5 DEF Expects

\* The guard takes a frame with a sequence in.
LEMMA EnqueueKeeps ==
    ASSUME NEW g, NEW u, NEW w, NEW t, GateInv(g, u, t), IsStream(w), Taken(u, w), u[1] # Reset,
           NEW r \in Release \cup {Nothing}, ReleaseFirst(r, g, u, t), u[1].sequence > 0
    PROVE  LET e == Enqueue(g, u[1])
           IN  /\ GateInv(e, w, t) /\ ReleaseFirst(r, e, w, t)
               /\ InGate(e) \subseteq InGate(g) \cup {u[1]}
<1>. DEFINE f1   == u[1]
            e    == Enqueue(g, f1)
            base == IF g.expected = 0 THEN f1.sequence ELSE g.expected
<1>1. /\ f1 \in Frame /\ f1 # Nothing /\ ~Cut(u, 0, 1) /\ 1 \in Frames(u)
      /\ \A f \in InGate(g) : Comes(f, f1, t) /\ f.era = f1.era
      /\ Ahead(f1, 0, w, t) /\ SameEra(f1, 0, w)
      /\ InLine(w, t) /\ GateFirst(g, w, t)
      /\ \A x : Ahead(x, 0, u, t) => Ahead(x, 0, w, t) /\ Comes(x, f1, t)
      /\ \A j \in Frames(w) : w[j] = u[j + 1] /\ j + 1 \in Frames(u)
  <2>1. f1 \in Frame
    BY HeadFacts
  <2>2. f1 # Nothing
    BY <2>1, FrameFacts
  <2>3. /\ f1 \in Frame /\ 1 \in Frames(u) /\ ~Cut(u, 0, 1)
        /\ \A f \in InGate(g) : Comes(f, f1, t) /\ f.era = f1.era
        /\ Ahead(f1, 0, w, t) /\ SameEra(f1, 0, w)
    BY HeadFacts
  <2>4. \A j \in Frames(w) : w[j] = u[j + 1] /\ j + 1 \in Frames(u)
    BY TakenPlaces DEF GateInv
  <2>5. InLine(w, t) /\ GateFirst(g, w, t)
    BY HeadFacts
  <2>6. \A x : Ahead(x, 0, u, t) => Ahead(x, 0, w, t) /\ Comes(x, f1, t)
    BY HeadFacts
  <2>. QED
    BY <2>2, <2>3, <2>4, <2>5, <2>6
<1>2. /\ GateOK(e) /\ e.pending = g.pending
      /\ e.queue \subseteq g.queue \cup {f1}
      /\ e.expected = base \/ e.expected = base + 1
  BY <1>1, EnqueueFacts DEF GateInv
<1>3. /\ g.expected \in Nat /\ f1.sequence \in Nat /\ f1.sequence <= MaxSequence
      /\ f1.turn \in Nat /\ f1.era \in Nat
  BY <1>1, GateFacts, FrameFacts DEF GateInv
<1>4. /\ g.queue \subseteq InGate(g)
      /\ g.pending # Nothing => g.pending \in InGate(g)
      /\ \A f \in InGate(g) : f.sequence \in Nat /\ f.turn \in Nat /\ f.era \in Nat
  BY GateFacts DEF GateInv
<1>5. base \in Nat /\ base > 0 /\ base >= g.expected
  BY <1>3
<1>6. /\ e.expected \in Nat /\ e.expected > 0 /\ e.expected >= g.expected
      /\ e.expected <= g.expected + 1 \/ e.expected <= MaxSequence + 1
  BY <1>2, <1>3, <1>5, BoundsArePositive
<1>. HIDE DEF e, f1, base
<1>7. InGate(e) \subseteq InGate(g) \cup {f1}
  BY <1>2, <1>4 DEF InGate
<1>8. GateFirst(e, w, t)
  BY <1>1, <1>7 DEF GateFirst
<1>9. GateTidy(e, t)
  <2>1. \A f, h \in InGate(e) : f.era = h.era
    BY <1>1, <1>7
  <2>2. e.pending # Nothing /\ e.pending.sequence > 0 => e.expected > e.pending.sequence
    BY <1>2, <1>3, <1>4, <1>6 DEF GateInv, GateTidy
  <2>3. ASSUME NEW f \in e.queue, NEW h \in e.queue, f.era = t, f.sequence < h.sequence
        PROVE  f.turn < h.turn
    <3>1. CASE f \in g.queue /\ h \in g.queue
      BY <3>1, <2>3 DEF GateInv, GateTidy
    <3>2. CASE f \in g.queue /\ h = f1
      BY <3>2, <1>1, <1>4 DEF Comes
    <3>3. CASE f = f1 /\ h \in g.queue
      <4>1. h.sequence <= f.sequence
        BY <3>3, <2>3, <1>1, <1>4 DEF Comes
      <4>. QED
        BY <4>1, <2>3, <3>3, <1>3, <1>4
    <3>4. CASE f = f1 /\ h = f1
      BY <3>4, <2>3, <1>3
    <3>. QED
      BY <3>1, <3>2, <3>3, <3>4, <1>2
  <2>4. ASSUME NEW f \in e.queue, e.pending # Nothing, f.era = t PROVE e.pending.turn < f.turn
    <3>1. CASE f \in g.queue
      BY <3>1, <2>4, <1>2 DEF GateInv, GateTidy
    <3>2. CASE f = f1
      BY <3>2, <2>4, <1>1, <1>2, <1>4 DEF Comes
    <3>. QED
      BY <3>1, <3>2, <1>2
  <2>. QED
    BY <2>1, <2>2, <2>3, <2>4, <1>6 DEF GateTidy
<1>10. Expects(e, w)
  BY <1>6, ExpectsNext DEF f1
<1>11. ReleaseFirst(r, e, w, t)
  <2>. SUFFICES ASSUME r # Nothing
                PROVE  /\ Ahead(Late(r), 0, w, t)
                       /\ \A f \in InGate(e) : r.era <= f.era
                       /\ r.sequence > 0 => e.expected > r.sequence \/ Past(r.era, e, w)
                       /\ InSequence(e, r)
    BY DEF ReleaseFirst
  <2>1. /\ Ahead(Late(r), 0, u, t)
        /\ \A f \in InGate(g) : r.era <= f.era
        /\ r.sequence > 0 => g.expected > r.sequence \/ Past(r.era, g, u)
        /\ InSequence(g, r)
    BY DEF ReleaseFirst
  <2>2. r.sequence \in Nat /\ r.era \in Nat
    BY BoundsArePositive DEF Release
  <2>3. Ahead(Late(r), 0, w, t) /\ r.era <= f1.era
    BY <2>1, <1>1 DEF Comes, Late
  <2>4. Past(r.era, g, u) => Past(r.era, e, w)
    <3>1. Past(r.era, g, u) => r.era < f1.era
      BY <1>1 DEF Past, f1
    <3>. QED
      BY <3>1, <1>1, <1>7 DEF Past
  <2>5. r.sequence > 0 => e.expected > r.sequence \/ Past(r.era, e, w)
    BY <2>1, <2>2, <2>4, <1>3, <1>6
  <2>6. InSequence(e, r)
    BY <2>1, <1>2 DEF InSequence
  <2>. QED
    BY <2>1, <2>3, <2>5, <2>6, <1>7
<1>. QED
  BY <1>1, <1>2, <1>7, <1>8, <1>9, <1>10, <1>11 DEF GateInv, e, f1

\* A frame without a sequence finds no frame waiting in the queue.
LEMMA UnsequencedKeeps ==
    ASSUME NEW g, NEW u, NEW w, NEW t, GateInv(g, u, t), IsStream(w), Taken(u, w), u[1] # Reset,
           NEW r \in Release \cup {Nothing}, ReleaseFirst(r, g, u, t), u[1].sequence = 0
    PROVE  LET q == QueueUnsequenced(g, u[1])
           IN  /\ GateInv(q, w, t) /\ ReleaseFirst(r, q, w, t)
               /\ q.queue = {} /\ q.pending \in Frame /\ Alike(q.pending, u[1])
               /\ q.expected = g.expected
               /\ q.pending.key = u[1].key \/ (g.pending # Nothing /\ q.pending.key = g.pending.key)
<1>. DEFINE f1 == u[1]
            q  == QueueUnsequenced(g, f1)
            m  == IF g.pending # Nothing /\ g.pending.key = f1.key
                  THEN [g.pending EXCEPT !.turn = f1.turn] ELSE f1
<1>1. /\ f1 \in Frame /\ f1 # Nothing /\ ~Cut(u, 0, 1) /\ 1 \in Frames(u)
      /\ \A f \in InGate(g) : Comes(f, f1, t) /\ f.era = f1.era
      /\ Ahead(f1, 0, w, t) /\ SameEra(f1, 0, w)
      /\ InLine(w, t) /\ GateFirst(g, w, t)
      /\ \A x : Ahead(x, 0, u, t) => Ahead(x, 0, w, t) /\ Comes(x, f1, t)
      /\ \A j \in Frames(w) : w[j] = u[j + 1] /\ j + 1 \in Frames(u)
  <2>1. f1 \in Frame
    BY HeadFacts
  <2>2. f1 # Nothing
    BY <2>1, FrameFacts
  <2>3. /\ f1 \in Frame /\ 1 \in Frames(u) /\ ~Cut(u, 0, 1)
        /\ \A f \in InGate(g) : Comes(f, f1, t) /\ f.era = f1.era
        /\ Ahead(f1, 0, w, t) /\ SameEra(f1, 0, w)
    BY HeadFacts, ZenonT(30)
  <2>4. \A j \in Frames(w) : w[j] = u[j + 1] /\ j + 1 \in Frames(u)
    BY TakenPlaces DEF GateInv
  <2>5. InLine(w, t) /\ GateFirst(g, w, t)
    BY HeadFacts
  <2>6. \A x : Ahead(x, 0, u, t) => Ahead(x, 0, w, t) /\ Comes(x, f1, t)
    BY HeadFacts
  <2>. QED
    BY <2>2, <2>3, <2>4, <2>5, <2>6
<1>2. /\ g \in GateRecord /\ g.expected \in Nat /\ IsFiniteSet(g.queue)
      /\ g.pending # Nothing => g.pending \in InGate(g) /\ g.pending \in Frame
      /\ \A f \in InGate(g) : f.sequence \in Nat /\ f.turn \in Nat /\ f.era \in Nat
  BY GateFacts DEF GateInv, GateOK
<1>3. g.expected = 0 /\ g.queue = {}
  <2>1. ~(g.expected > 0)
    BY <1>1 DEF GateInv, Expects
  <2>. QED
    BY <2>1, <1>2 DEF GateInv, GateTidy
<1>4. g.pending # Nothing => g.pending.sequence = 0
  BY <1>2, <1>3 DEF GateInv, GateTidy
<1>5. m \in Frame /\ Alike(m, f1) /\ m # Nothing
  <2>1. CASE g.pending # Nothing /\ g.pending.key = f1.key
    <3>1. m = [g.pending EXCEPT !.turn = f1.turn]
      BY <2>1
    <3>2. f1.turn \in 1..MaxTurn
      BY <1>1 DEF Frame
    <3>3. /\ m \in Frame /\ m.sequence = g.pending.sequence /\ m.turn = f1.turn
          /\ m.era = g.pending.era
      BY <3>1, <3>2, <2>1, <1>2 DEF Frame
    <3>. QED
      BY <3>3, <2>1, <1>1, <1>2, <1>4, FrameFacts DEF Alike
  <2>2. CASE ~(g.pending # Nothing /\ g.pending.key = f1.key)
    BY <2>2, <1>1 DEF Alike
  <2>. QED
    BY <2>1, <2>2
<1>6. m.key = f1.key
  BY <1>2, <1>1 DEF Frame
<1>7. q = [g EXCEPT !.pending = m, !.renderTimer = TRUE]
  BY DEF QueueUnsequenced
<1>. HIDE DEF m, q, f1
<1>8. /\ q \in GateRecord /\ q.queue = {} /\ q.pending = m /\ q.renderTimer = TRUE
      /\ q.expected = 0
  <2>1. /\ q \in GateRecord /\ q.queue = g.queue /\ q.pending = m /\ q.renderTimer = TRUE
        /\ q.expected = g.expected
    BY <1>2, <1>5, <1>7 DEF GateRecord
  <2>. QED
    BY <2>1, <1>3
<1>9. GateOK(q)
  <2>1. Cardinality(q.queue) <= MaxQueueDepth /\ IsFiniteSet(q.queue)
    BY <1>8, FS_EmptySet, BoundsArePositive
  <2>. QED
    BY <2>1, <1>5, <1>8 DEF GateOK
<1>10. InGate(q) = {m}
  BY <1>5, <1>8 DEF InGate
<1>11. GateFirst(q, w, t)
  BY <1>1, <1>5, <1>10, AlikeKeeps DEF GateFirst
<1>12. GateTidy(q, t)
  <2>1. m.sequence = 0
    BY <1>5 DEF Alike, f1
  <2>. QED
    BY <2>1, <1>8, <1>10 DEF GateTidy
<1>13. Expects(q, w)
  BY <1>2, <1>8, ExpectsNext
<1>14. ReleaseFirst(r, q, w, t)
  <2>. SUFFICES ASSUME r # Nothing
                PROVE  /\ Ahead(Late(r), 0, w, t)
                       /\ \A f \in InGate(q) : r.era <= f.era
                       /\ r.sequence > 0 => q.expected > r.sequence \/ Past(r.era, q, w)
                       /\ InSequence(q, r)
    BY DEF ReleaseFirst
  <2>1. /\ Ahead(Late(r), 0, u, t)
        /\ r.sequence > 0 => g.expected > r.sequence \/ Past(r.era, g, u)
    BY DEF ReleaseFirst
  <2>2. r.sequence \in Nat /\ r.era \in Nat
    BY BoundsArePositive DEF Release
  <2>3. Ahead(Late(r), 0, w, t) /\ Comes(Late(r), f1, t)
    BY <2>1, <1>1
  <2>4. r.era <= f1.era /\ (r.era = f1.era => r.sequence = 0)
    BY <2>3 DEF Comes, Late, f1
  <2>5. Past(r.era, g, u) => Past(r.era, q, w)
    <3>1. Past(r.era, g, u) => r.era < f1.era
      BY <1>1 DEF Past, f1
    <3>. QED
      BY <3>1, <1>1, <1>5, <1>10 DEF Past, Alike
  <2>6. r.sequence > 0 => q.expected > r.sequence \/ Past(r.era, q, w)
    BY <2>1, <2>5, <1>3, <1>8
  <2>7. InSequence(q, r)
    BY <2>4, <1>5, <1>8 DEF InSequence, Alike, f1
  <2>. QED
    BY <2>3, <2>4, <2>6, <2>7, <1>5, <1>10 DEF Alike
<1>. QED
  BY <1>1, <1>3, <1>5, <1>6, <1>8, <1>9, <1>11, <1>12, <1>13, <1>14 DEF GateInv, q, f1

\* The next message is a frame: the gate takes it.
LEMMA TakeKeeps ==
    ASSUME NEW g, NEW u, NEW w, NEW t, GateInv(g, u, t), IsStream(w), Taken(u, w), u[1] # Reset,
           NEW r \in Release \cup {Nothing}, ReleaseFirst(r, g, u, t), NEW graceOver
    PROVE  LET q == QueueFrame(g, u[1], graceOver)
           IN  /\ GateInv(q, w, t) /\ ReleaseFirst(r, q, w, t)
               /\ \A f \in InGate(q) :
                     \/ f \in InGate(g) \cup {u[1]}
                     \/ /\ f \in Frame /\ Alike(f, u[1])
                        /\ g.pending # Nothing /\ f.key = g.pending.key
<1>. DEFINE q == QueueFrame(g, u[1], graceOver)
            x == QueueUnsequenced(g, u[1])
            e == Enqueue(g, u[1])
<1>1. u[1] \in Frame
  BY HeadFacts
<1>2. CASE u[1].sequence = 0
  <2>1. q = x
    BY <1>2 DEF QueueFrame
  <2>2. /\ GateInv(x, w, t) /\ ReleaseFirst(r, x, w, t)
        /\ x.queue = {} /\ x.pending \in Frame /\ Alike(x.pending, u[1])
        /\ x.pending.key = u[1].key \/ (g.pending # Nothing /\ x.pending.key = g.pending.key)
    BY <1>2, UnsequencedKeeps
  <2>3. x.pending = u[1] \/ (g.pending # Nothing /\ x.pending.key = g.pending.key)
    <3>1. CASE g.pending # Nothing /\ g.pending.key = u[1].key
      BY <3>1, <2>2
    <3>2. CASE ~(g.pending # Nothing /\ g.pending.key = u[1].key)
      <4>1. g \in GateRecord
        BY DEF GateInv, GateOK
      <4>2. x = [g EXCEPT !.pending = u[1], !.renderTimer = TRUE]
        BY <3>2 DEF QueueUnsequenced
      <4>. QED
        BY <4>1, <4>2 DEF GateRecord
    <3>. QED
      BY <3>1, <3>2
  <2>4. InGate(x) \subseteq {x.pending}
    BY <2>2 DEF InGate
  <2>. QED
    BY <2>1, <2>2, <2>3, <2>4
<1>3. CASE u[1].sequence # 0
  <2>1. u[1].sequence > 0
    BY <1>1, <1>3, FrameFacts
  <2>2. q = Advance(e, graceOver)
    BY <1>3 DEF QueueFrame
  <2>3. /\ GateInv(e, w, t) /\ ReleaseFirst(r, e, w, t)
        /\ InGate(e) \subseteq InGate(g) \cup {u[1]}
    BY <2>1, EnqueueKeeps
  <2>. HIDE DEF e, q
  <2>4. /\ GateInv(q, w, t) /\ ReleaseFirst(r, q, w, t)
        /\ InGate(q) \subseteq InGate(e)
    BY <2>2, <2>3, PollKeeps
  <2>. QED
    BY <2>3, <2>4 DEF q
<1>. QED
  BY <1>2, <1>3

LEMMA EmptyGateFacts ==
    /\ GateOK(EmptyGate) /\ InGate(EmptyGate) = {} /\ EmptyGate.expected = 0
    /\ EmptyGate.queue = {} /\ EmptyGate.pending = Nothing
<1>1. /\ EmptyGate.expected = 0 /\ EmptyGate.queue = {} /\ EmptyGate.pending = Nothing
      /\ EmptyGate.renderTimer = FALSE
  BY DEF EmptyGate
<1>2. EmptyGate \in GateRecord
  BY DEF EmptyGate, GateRecord
<1>3. IsFiniteSet({}) /\ Cardinality({}) = 0 /\ MaxQueueDepth \in Nat
  BY FS_EmptySet, BoundsArePositive
<1>4. GateOK(EmptyGate)
  <2>1. EmptyGate.renderTimer = (EmptyGate.pending # Nothing)
    BY <1>1, Zenon
  <2>2. IsFiniteSet(EmptyGate.queue) /\ Cardinality(EmptyGate.queue) <= MaxQueueDepth
    BY <1>1, <1>3
  <2>. QED
    BY <1>1, <1>2, <2>1, <2>2 DEF GateOK
<1>5. InGate(EmptyGate) = {}
  BY <1>1 DEF InGate
<1>. QED
  BY <1>1, <1>4, <1>5

\* An empty gate is as good a beginning of any stream.
LEMMA EmptyGateKeeps ==
    ASSUME NEW w, IsStream(w), NEW t \in Nat, InLine(w, t)
    PROVE  GateInv(EmptyGate, w, t)
<1>1. Expects(EmptyGate, w)
  <2>1. ASSUME NEW j \in Frames(w) PROVE 0 <= MaxSequence + w[j].turn
    BY StreamFacts, BoundsArePositive
  <2>. QED
    BY <2>1, EmptyGateFacts DEF Expects
<1>. QED
  BY <1>1, EmptyGateFacts DEF GateInv, GateFirst, GateTidy

\* The next message is a reset.
LEMMA TakeResetKeeps ==
    ASSUME NEW g, NEW u, NEW w, NEW t, GateInv(g, u, t), IsStream(w), Taken(u, w), u[1] = Reset,
           NEW r \in Release \cup {Nothing}, ReleaseFirst(r, g, u, t)
    PROVE  /\ GateInv(EmptyGate, w, t) /\ ReleaseFirst(r, EmptyGate, w, t)
           /\ \A x : Ahead(x, 0, u, t) => Ahead(x, 0, w, t)
<1>1. IsStream(u) /\ InLine(u, t) /\ t \in Nat /\ Len(u) \in Nat /\ Len(u) > 1
  BY DEF GateInv, IsStream, Taken
<1>2. /\ \A x : \A i \in 0..(Len(u) - 1) :
            /\ Ahead(x, i + 1, u, t) => Ahead(x, i, w, t)
            /\ SameEra(x, i + 1, u) => SameEra(x, i, w)
      /\ \A x : Ahead(x, 0, u, t) => Ahead(x, 0, w, t)
  BY <1>1, TakenKeeps
<1>3. InLine(w, t)
  <2>1. ASSUME NEW j \in Frames(w) PROVE Ahead(w[j], j, w, t) /\ SameEra(w[j], j, w)
    <3>1. j \in 0..(Len(u) - 1)
      BY <1>1, StreamFacts DEF Taken
    <3>2. w[j] = u[j + 1] /\ j + 1 \in Frames(u)
      BY <1>1, TakenPlaces
    <3>3. Ahead(u[j + 1], j + 1, u, t) /\ SameEra(u[j + 1], j + 1, u)
      BY <1>1, <3>2 DEF InLine
    <3>. QED
      BY <3>1, <3>2, <3>3, <1>2
  <2>. QED
    BY <2>1 DEF InLine
<1>4. ASSUME r # Nothing
      PROVE  Ahead(Late(r), 0, w, t) /\ Past(r.era, EmptyGate, w)
  <2>1. Ahead(Late(r), 0, u, t)
    BY <1>4 DEF ReleaseFirst
  <2>2. ASSUME NEW j \in Frames(w) PROVE r.era < w[j].era
    <3>1. w[j] = u[j + 1] /\ j + 1 \in Frames(u) /\ j \in Nat /\ 0 < j
      BY <1>1, TakenPlaces, StreamFacts
    <3>2. Cut(u, 0, j + 1)
      BY <3>1, <1>1 DEF Cut
    <3>3. Late(r).era <= u[j + 1].era /\ Late(r).era # u[j + 1].era
      <4>1. 0 < j + 1
        BY <3>1
      <4>. QED
        BY <4>1, <3>1, <3>2, <2>1 DEF Ahead, Comes
    <3>4. Late(r).era = r.era /\ r.era \in Nat
      BY <1>4, BoundsArePositive DEF Late, Release
    <3>5. u[j + 1].era \in Nat
      BY <3>1, <1>1, StreamFacts
    <3>. QED
      BY <3>1, <3>3, <3>4, <3>5
  <2>. QED
    BY <2>1, <2>2, <1>2, EmptyGateFacts DEF Past
<1>5. ReleaseFirst(r, EmptyGate, w, t)
  BY <1>4, EmptyGateFacts DEF ReleaseFirst, InSequence
<1>. QED
  BY <1>1, <1>2, <1>3, <1>5, EmptyGateKeeps

\* A frame is posted, a reset is posted, and a frame passes the gate by.
LEMMA PostKeeps ==
    ASSUME NEW g, NEW u, NEW w, NEW t, GateInv(g, u, t), IsStream(w), NEW s \in Nat,
           Posted(u, w, t, s), NEW r \in Release \cup {Nothing}, ReleaseFirst(r, g, u, t)
    PROVE  GateInv(g, w, s) /\ ReleaseFirst(r, g, w, s)
<1>. DEFINE n == Len(u)
<1>1. /\ IsStream(u) /\ t \in Nat /\ n \in Nat /\ n >= 1 /\ Len(w) = n + 1 /\ GateOK(g)
      /\ n \in Frames(u)
  BY DEF GateInv, IsStream, Posted, Frames
<1>2. /\ \A x : \A i \in 0..(n - 1) : IsMade(x) /\ Ahead(x, i, u, t) => Ahead(x, i, w, s)
      /\ \A x : \A i \in 0..(n - 1) : SameEra(x, i, u) => SameEra(x, i, w)
      /\ Ahead(w[n], n, w, s) /\ SameEra(w[n], n, w)
      /\ Ahead(w[n + 1], n + 1, w, s) /\ SameEra(w[n + 1], n + 1, w)
      /\ Frames(w) = Frames(u) \cup {n + 1}
      /\ \A j \in Frames(u) : Cut(w, 0, j) <=> Cut(u, 0, j)
      /\ Cut(w, 0, n + 1) <=> Cut(u, 0, n)
  BY <1>1, PostedKeeps, ZenonT(30)
<1>3. /\ \A i \in 1..(n - 1) : w[i] = u[i]
      /\ w[n].turn = u[n].turn /\ w[n].turn < w[n + 1].turn
      /\ w[n].era = u[n].era /\ w[n + 1].era = u[n].era
      /\ w[n + 1].sequence = w[n].sequence
      /\ w[n].sequence = 0 => u[n].sequence = 0
      /\ s = 0 \/ s = t
  BY DEF Posted
<1>4. \A i \in Frames(u) : i = n \/ i \in 1..(n - 1)
  BY <1>1, StreamFacts
<1>. HIDE DEF n
<1>5. InLine(w, s)
  <2>1. ASSUME NEW i \in Frames(u), i # n PROVE Ahead(w[i], i, w, s) /\ SameEra(w[i], i, w)
    <3>1. Ahead(u[i], i, u, t) /\ SameEra(u[i], i, u) /\ IsMade(u[i]) /\ w[i] = u[i]
      BY <1>1, <1>3, <1>4, <2>1, StreamFacts DEF GateInv, InLine
    <3>2. i \in 0..(n - 1)
      BY <1>1, <1>4, <2>1
    <3>. QED
      BY <3>1, <3>2, <1>2
  <2>. QED
    BY <2>1, <1>2 DEF InLine
<1>6. 0 \in 0..(n - 1)
  BY <1>1
<1>7. GateFirst(g, w, s)
  BY <1>1, <1>2, <1>6, GateFacts DEF GateInv, GateFirst
<1>8. GateTidy(g, s)
  <2>1. \A f \in g.queue : f.era >= 1 /\ f.era \in Nat
    BY <1>1, GateFacts
  <2>2. s = t \/ (\A f \in g.queue : f.era # s)
    BY <2>1, <1>3
  <2>. QED
    BY <2>2 DEF GateInv, GateTidy
<1>9. Expects(g, w)
  <2>1. /\ g.expected \in Nat /\ MaxSequence \in Nat
        /\ w[n + 1].turn \in Nat /\ w[n + 1].sequence \in Nat
        /\ w[n].turn \in Nat /\ w[n].sequence \in Nat /\ u[n].sequence \in Nat
    BY <1>1, <1>2, GateFacts, StreamFacts, BoundsArePositive
  <2>2. ASSUME NEW j \in Frames(u)
        PROVE  /\ g.expected <= MaxSequence + w[j].turn
               /\ g.expected > 0 /\ ~Cut(w, 0, j) => w[j].sequence > 0
    <3>1. /\ g.expected <= MaxSequence + u[j].turn
          /\ g.expected > 0 /\ ~Cut(u, 0, j) => u[j].sequence > 0
      BY DEF GateInv, Expects
    <3>2. w[j].turn = u[j].turn
      BY <1>3, <1>4
    <3>3. u[j].sequence > 0 => w[j].sequence > 0
      BY <1>3, <1>4, <2>1
    <3>. QED
      BY <3>1, <3>2, <3>3, <1>2
  <2>3. /\ g.expected <= MaxSequence + w[n + 1].turn
        /\ g.expected > 0 /\ ~Cut(w, 0, n + 1) => w[n + 1].sequence > 0
    <3>1. /\ g.expected <= MaxSequence + w[n].turn
          /\ g.expected > 0 /\ ~Cut(w, 0, n) => w[n].sequence > 0
      BY <1>1, <2>2
    <3>2. Cut(w, 0, n) <=> Cut(w, 0, n + 1)
      BY <1>1, <1>2
    <3>. QED
      BY <3>1, <3>2, <2>1, <1>3
  <2>. QED
    BY <2>2, <2>3, <1>2 DEF Expects
<1>10. ReleaseFirst(r, g, w, s)
  <2>1. ASSUME r # Nothing PROVE Ahead(Late(r), 0, w, s)
    <3>1. IsMade(Late(r))
      BY <2>1, BoundsArePositive DEF IsMade, Late, Release
    <3>. QED
      BY <3>1, <2>1, <1>2, <1>6 DEF ReleaseFirst
  <2>2. Past(r.era, g, u) => Past(r.era, g, w)
    <3>1. ASSUME Past(r.era, g, u), NEW j \in Frames(u) PROVE r.era < w[j].era
      BY <3>1, <1>3, <1>4 DEF Past
    <3>2. Past(r.era, g, u) => r.era < w[n + 1].era
      BY <1>1, <1>3 DEF Past
    <3>. QED
      BY <3>1, <3>2, <1>2 DEF Past
  <2>. QED
    BY <2>1, <2>2 DEF ReleaseFirst
<1>. QED
  BY <1>1, <1>5, <1>7, <1>8, <1>9, <1>10 DEF GateInv

LEMMA PostResetKeeps ==
    ASSUME NEW g, NEW u, NEW w, NEW t, GateInv(g, u, t), IsStream(w), NEW s \in Nat,
           ResetPosted(u, w, s), NEW r \in Release \cup {Nothing}, ReleaseFirst(r, g, u, t),
           \A f \in InGate(g) : f.era < s,
           \A i \in Frames(u) : i < Len(u) => u[i].era < s,
           r # Nothing => r.era < s
    PROVE  GateInv(g, w, s) /\ ReleaseFirst(r, g, w, s)
<1>. DEFINE n == Len(u)
<1>1. /\ IsStream(u) /\ t \in Nat /\ n \in Nat /\ n >= 1 /\ Len(w) = n + 1 /\ GateOK(g)
      /\ n \in Frames(u)
  BY DEF GateInv, IsStream, ResetPosted, Frames
<1>2. /\ \A x : \A i \in 0..(n - 1) :
            IsMade(x) /\ x.era < s /\ Ahead(x, i, u, t) => Ahead(x, i, w, s)
      /\ \A x : \A i \in 0..(n - 1) : SameEra(x, i, u) => SameEra(x, i, w)
      /\ Ahead(w[n + 1], n + 1, w, s) /\ SameEra(w[n + 1], n + 1, w)
      /\ Frames(w) = (Frames(u) \ {n}) \cup {n + 1}
      /\ \A j \in Frames(u) : Cut(w, 0, j) <=> Cut(u, 0, j)
      /\ Cut(w, 0, n + 1)
  BY <1>1, ResetKeeps
<1>3. /\ \A i \in 1..(n - 1) : w[i] = u[i]
      /\ w[n + 1].turn = u[n].turn /\ w[n + 1].era = s
  BY DEF ResetPosted
<1>4. \A i \in Frames(u) \ {n} : i \in 1..(n - 1) /\ w[i] = u[i] /\ i < n
  BY <1>1, <1>3, StreamFacts
<1>5. \A i \in Frames(u) \ {n} : u[i].era < s
  BY <1>4
<1>. HIDE DEF n
<1>6. InLine(w, s)
  <2>1. ASSUME NEW i \in Frames(u) \ {n} PROVE Ahead(w[i], i, w, s) /\ SameEra(w[i], i, w)
    <3>1. /\ Ahead(u[i], i, u, t) /\ SameEra(u[i], i, u) /\ IsMade(u[i]) /\ w[i] = u[i]
          /\ u[i].era < s
      BY <1>1, <1>4, <1>5, StreamFacts DEF GateInv, InLine
    <3>2. i \in 0..(n - 1)
      BY <1>1, <1>4
    <3>. QED
      BY <3>1, <3>2, <1>2
  <2>. QED
    BY <2>1, <1>2 DEF InLine
<1>7. 0 \in 0..(n - 1)
  BY <1>1
<1>8. GateFirst(g, w, s)
  BY <1>1, <1>2, <1>7, GateFacts DEF GateInv, GateFirst
<1>9. GateTidy(g, s)
  <2>1. (\A f \in InGate(g) : f.era # s) /\ \A f \in g.queue : f.era # s
    BY <1>1, GateFacts
  <2>. QED
    BY <2>1 DEF GateInv, GateTidy
<1>10. Expects(g, w)
  <2>1. ASSUME NEW j \in Frames(u) \ {n}
        PROVE  /\ g.expected <= MaxSequence + w[j].turn
               /\ g.expected > 0 /\ ~Cut(w, 0, j) => w[j].sequence > 0
    BY <1>2, <1>4 DEF GateInv, Expects
  <2>2. g.expected <= MaxSequence + w[n + 1].turn
    BY <1>1, <1>3 DEF GateInv, Expects
  <2>. QED
    BY <2>1, <2>2, <1>2 DEF Expects
<1>11. ReleaseFirst(r, g, w, s)
  <2>1. ASSUME r # Nothing PROVE Ahead(Late(r), 0, w, s)
    <3>1. IsMade(Late(r)) /\ Late(r).era < s
      BY <2>1, BoundsArePositive DEF IsMade, Late, Release
    <3>. QED
      BY <3>1, <2>1, <1>2, <1>7 DEF ReleaseFirst
  <2>2. ASSUME r # Nothing, Past(r.era, g, u) PROVE Past(r.era, g, w)
    <3>1. ASSUME NEW j \in Frames(u) \ {n} PROVE r.era < w[j].era
      BY <2>2, <1>4 DEF Past
    <3>. QED
      BY <3>1, <2>2, <1>2, <1>3 DEF Past
  <2>. QED
    BY <2>1, <2>2 DEF ReleaseFirst
<1>. QED
  BY <1>1, <1>6, <1>8, <1>9, <1>10, <1>11 DEF GateInv

LEMMA PassKeeps ==
    ASSUME NEW g, NEW u, NEW w, NEW t, GateInv(g, u, t), IsStream(w), NEW s \in Nat,
           Passes(u, w, t, s), NEW r \in Release \cup {Nothing}, ReleaseFirst(r, g, u, t)
    PROVE  GateInv(g, w, s) /\ ReleaseFirst(r, g, w, s)
<1>. DEFINE n == Len(u)
<1>1. /\ IsStream(u) /\ t \in Nat /\ n \in Nat /\ n >= 1 /\ Len(w) = n /\ GateOK(g)
      /\ n \in Frames(u)
  BY DEF GateInv, IsStream, Passes, Frames
<1>2. /\ \A x : \A i \in 0..(n - 1) : IsMade(x) /\ Ahead(x, i, u, t) => Ahead(x, i, w, s)
      /\ \A x : \A i \in 0..(n - 1) : SameEra(x, i, u) => SameEra(x, i, w)
      /\ Ahead(w[n], n, w, s) /\ SameEra(w[n], n, w)
      /\ Frames(w) = Frames(u)
      /\ \A j \in Frames(u) : Cut(w, 0, j) <=> Cut(u, 0, j)
  BY <1>1, PassesKeeps
<1>3. /\ \A i \in 1..(n - 1) : w[i] = u[i]
      /\ w[n].turn > u[n].turn /\ w[n].era = u[n].era
      /\ w[n].sequence = 0 => u[n].sequence = 0
      /\ s = 0 \/ s = t
  BY DEF Passes
<1>4. \A i \in Frames(u) : i = n \/ i \in 1..(n - 1)
  BY <1>1, StreamFacts
<1>. HIDE DEF n
<1>5. \A i \in Frames(u) : w[i].era = u[i].era /\ (w[i].sequence = 0 => u[i].sequence = 0)
  BY <1>3, <1>4
<1>6. InLine(w, s)
  <2>1. ASSUME NEW i \in Frames(u), i # n PROVE Ahead(w[i], i, w, s) /\ SameEra(w[i], i, w)
    <3>1. Ahead(u[i], i, u, t) /\ SameEra(u[i], i, u) /\ IsMade(u[i]) /\ w[i] = u[i]
      BY <1>1, <1>3, <1>4, <2>1, StreamFacts DEF GateInv, InLine
    <3>2. i \in 0..(n - 1)
      BY <1>1, <1>4, <2>1
    <3>. QED
      BY <3>1, <3>2, <1>2
  <2>. QED
    BY <2>1, <1>2 DEF InLine
<1>7. 0 \in 0..(n - 1)
  BY <1>1
<1>8. GateFirst(g, w, s)
  BY <1>1, <1>2, <1>7, GateFacts DEF GateInv, GateFirst
<1>11. GateTidy(g, s)
  <2>1. \A f \in g.queue : f.era >= 1 /\ f.era \in Nat
    BY <1>1, GateFacts
  <2>2. s = t \/ (\A f \in g.queue : f.era # s)
    BY <2>1, <1>3
  <2>. QED
    BY <2>2 DEF GateInv, GateTidy
<1>9. Expects(g, w)
  <2>1. ASSUME NEW j \in Frames(u) PROVE g.expected <= MaxSequence + w[j].turn
    <3>1. g.expected <= MaxSequence + u[j].turn
      BY DEF GateInv, Expects
    <3>2. w[j].turn >= u[j].turn /\ w[j].turn \in Nat /\ u[j].turn \in Nat
      <4>1. w[j].turn \in Nat /\ u[j].turn \in Nat
        BY <1>1, <1>2, StreamFacts
      <4>2. w[j].turn = u[j].turn \/ w[j].turn > u[j].turn
        BY <1>3, <1>4
      <4>. QED
        BY <4>1, <4>2
    <3>3. g.expected \in Nat /\ MaxSequence \in Nat
      BY <1>1, GateFacts, BoundsArePositive
    <3>. QED
      BY <3>1, <3>2, <3>3
  <2>2. ASSUME NEW j \in Frames(u), g.expected > 0, ~Cut(w, 0, j) PROVE w[j].sequence > 0
    <3>1. u[j].sequence > 0
      BY <2>2, <1>2 DEF GateInv, Expects
    <3>2. w[j].sequence \in Nat /\ u[j].sequence \in Nat
      BY <1>1, <1>2, StreamFacts
    <3>. QED
      BY <3>1, <3>2, <1>5
  <2>. QED
    BY <2>1, <2>2, <1>2 DEF Expects
<1>10. ReleaseFirst(r, g, w, s)
  <2>1. ASSUME r # Nothing PROVE Ahead(Late(r), 0, w, s)
    <3>1. IsMade(Late(r))
      BY <2>1, BoundsArePositive DEF IsMade, Late, Release
    <3>. QED
      BY <3>1, <2>1, <1>2, <1>7 DEF ReleaseFirst
  <2>2. Past(r.era, g, u) => Past(r.era, g, w)
    BY <1>2, <1>5 DEF Past
  <2>. QED
    BY <2>1, <2>2 DEF ReleaseFirst
<1>. QED
  BY <1>1, <1>6, <1>8, <1>9, <1>10, <1>11 DEF GateInv

\* What a gate may lose without disturbing anything: the pending frame and a timer.
LEMMA LooserKeeps ==
    ASSUME NEW g, NEW u, NEW t, GateInv(g, u, t), NEW h, GateOK(h),
           h.queue = g.queue, h.expected = g.expected, h.pending \in {g.pending, Nothing}
    PROVE  GateInv(h, u, t) /\ InGate(h) \subseteq InGate(g)
<1>1. InGate(h) \subseteq InGate(g)
  BY DEF InGate
<1>2. GateFirst(h, u, t)
  BY <1>1 DEF GateInv, GateFirst
<1>3. GateTidy(h, t)
  BY <1>1 DEF GateInv, GateTidy
<1>4. Expects(h, u)
  BY DEF GateInv, Expects
<1>. QED
  BY <1>1, <1>2, <1>3, <1>4 DEF GateInv

\* The wake-up of the guard.
LEMMA WakeKeeps ==
    ASSUME NEW g, NEW u, NEW t, GateInv(g, u, t), NEW graceOver, NEW r \in Release \cup {Nothing},
           ReleaseFirst(r, g, u, t)
    PROVE  LET a == Advance([g EXCEPT !.sequenceTimer = FALSE], graceOver)
           IN  /\ GateInv(a, u, t) /\ ReleaseFirst(r, a, u, t)
               /\ InGate(a) \subseteq InGate(g)
<1>. DEFINE h == [g EXCEPT !.sequenceTimer = FALSE]
<1>1. g \in GateRecord /\ GateOK(g)
  BY DEF GateInv, GateOK
<1>2. /\ h \in GateRecord /\ h.queue = g.queue /\ h.expected = g.expected
      /\ h.pending = g.pending /\ h.renderTimer = g.renderTimer
  BY <1>1 DEF GateRecord
<1>. HIDE DEF h
<1>3. GateOK(h)
  BY <1>1, <1>2 DEF GateOK
<1>4. GateInv(h, u, t) /\ InGate(h) = InGate(g)
  BY <1>2, <1>3, LooserKeeps DEF InGate
<1>5. ReleaseFirst(r, h, u, t)
  BY <1>2, <1>4 DEF ReleaseFirst, InSequence, Past
<1>6. GateInv(Advance(h, graceOver), u, t) /\ ReleaseFirst(r, Advance(h, graceOver), u, t)
      /\ InGate(Advance(h, graceOver)) \subseteq InGate(h)
  BY <1>4, <1>5, PollKeeps
<1>. QED
  BY <1>4, <1>6 DEF h

\* The pending frame is released.
LEMMA FlushKeeps ==
    ASSUME NEW g, NEW u, NEW t, GateInv(g, u, t), NEW graceOver, g.pending # Nothing
    PROVE  LET a == Flushed(g, graceOver)
               r == [sequence |-> g.pending.sequence, era |-> g.pending.era]
           IN  /\ GateInv(a, u, t) /\ ReleaseFirst(r, a, u, t) /\ r \in Release
               /\ InGate(a) \subseteq g.queue
<1>. DEFINE h == [g EXCEPT !.pending = Nothing, !.renderTimer = FALSE]
            r == [sequence |-> g.pending.sequence, era |-> g.pending.era]
            a == Advance(h, graceOver)
<1>1. g \in GateRecord /\ GateOK(g)
  BY DEF GateInv, GateOK
<1>2. /\ h \in GateRecord /\ h.queue = g.queue /\ h.expected = g.expected
      /\ h.pending = Nothing /\ h.renderTimer = FALSE
  BY <1>1 DEF GateRecord
<1>3. g.pending \in Frame /\ g.pending \in InGate(g)
  BY <1>1 DEF GateOK, GateRecord, InGate
<1>4. r \in Release
  BY <1>3 DEF Frame, Release
<1>5. r.sequence = g.pending.sequence /\ r.era = g.pending.era
  OBVIOUS
<1>. HIDE DEF h, r, a
<1>6. GateOK(h)
  BY <1>1, <1>2 DEF GateOK
<1>7. GateInv(h, u, t) /\ InGate(h) = g.queue
  BY <1>2, <1>6, LooserKeeps DEF InGate
<1>8. Ahead(Late(r), 0, u, t)
  <2>1. ASSUME NEW j \in Frames(u), 0 < j
        PROVE  Comes(Late(r), u[j], t) /\ (r.era = u[j].era => ~Cut(u, 0, j))
    <3>1. Comes(g.pending, u[j], t) /\ (g.pending.era = u[j].era => ~Cut(u, 0, j))
      BY <2>1, <1>3 DEF GateInv, GateFirst, Ahead
    <3>2. u[j].turn \in Nat /\ u[j].turn >= 1
      BY StreamFacts DEF GateInv
    <3>3. Late(r).sequence = r.sequence /\ Late(r).turn = 0 /\ Late(r).era = r.era
      BY DEF Late
    <3>. QED
      BY <3>1, <3>2, <3>3, <1>5 DEF Comes
  <2>. QED
    BY <2>1 DEF Ahead, Late
<1>9. \A f \in InGate(h) : r.era <= f.era
  <2>1. \A f \in g.queue : f \in InGate(g) /\ f.era \in Nat
    BY <1>1, GateFacts
  <2>2. \A f \in g.queue : f.era = g.pending.era
    BY <2>1, <1>3 DEF GateInv, GateTidy
  <2>. QED
    BY <2>1, <2>2, <1>5, <1>7
<1>10. r.sequence > 0 => h.expected > r.sequence
  BY <1>2, <1>5 DEF GateInv, GateTidy
<1>11. ReleaseFirst(r, h, u, t)
  BY <1>2, <1>8, <1>9, <1>10 DEF ReleaseFirst, InSequence
<1>12. /\ GateInv(a, u, t) /\ ReleaseFirst(r, a, u, t)
       /\ InGate(a) \subseteq InGate(h)
  BY <1>4, <1>7, <1>11, PollKeeps DEF a
<1>. QED
  BY <1>4, <1>7, <1>12 DEF Flushed, a, h, r

\* A gate is cleared: a stream of one frame begins, of a later era.
LEMMA ClearKeeps ==
    ASSUME NEW w, IsStream(w), Len(w) = 1, NEW t \in Nat, NEW r \in Release \cup {Nothing},
           r # Nothing => r.era < w[1].era
    PROVE  GateInv(EmptyGate, w, t) /\ ReleaseFirst(r, EmptyGate, w, t)
<1>1. Frames(w) = {1}
  BY DEF Frames
<1>2. \A j \in Frames(w) : j = 1 /\ ~Cut(w, 0, j) /\ ~(1 < j)
  BY <1>1 DEF Cut
<1>3. InLine(w, t)
  BY <1>2 DEF InLine, Ahead, SameEra
<1>4. GateInv(EmptyGate, w, t)
  BY <1>3, EmptyGateKeeps
<1>5. ASSUME r # Nothing
      PROVE  Ahead(Late(r), 0, w, t) /\ Past(r.era, EmptyGate, w)
  <2>1. r.era \in Nat /\ w[1].era \in Nat /\ r.era < w[1].era /\ w[1].turn \in Nat
        /\ w[1].turn >= 1
    BY <1>1, <1>5, StreamFacts DEF Release
  <2>2. Late(r).turn = 0 /\ Late(r).era = r.era
    BY DEF Late
  <2>3. Comes(Late(r), w[1], t)
    BY <2>1, <2>2 DEF Comes
  <2>. QED
    BY <2>1, <2>2, <2>3, <1>2, EmptyGateFacts DEF Ahead, Past
<1>6. ReleaseFirst(r, EmptyGate, w, t)
  BY <1>5, EmptyGateFacts DEF ReleaseFirst, InSequence
<1>. QED
  BY <1>4, <1>6

-----------------------------------------------------------------------------
(* The steps of the program.                                               *)

Messages == Frame \cup {Reset}

IsNext(v) ==
    v.sequence \in Nat /\ v.turn \in Nat /\ v.turn >= 1 /\ v.era \in Nat /\ v.era >= 1

LEMMA StreamOf ==
    ASSUME NEW q \in Seq(Messages), NEW v, IsNext(v)
    PROVE  LET u == Append(q, v)
           IN  /\ IsStream(u) /\ Len(q) \in Nat /\ Len(u) = Len(q) + 1
               /\ \A i \in 1..Len(q) : u[i] = q[i] /\ q[i] \in Messages
               /\ u[Len(q) + 1] = v /\ u[Len(u)] = v
<1>. DEFINE u == Append(q, v)
            n == Len(q)
<1>1. /\ n \in Nat /\ Len(u) = n + 1
      /\ \A i \in 1..n : u[i] = q[i] /\ q[i] \in Messages
      /\ u[n + 1] = v
  OBVIOUS
<1>. HIDE DEF u, n
<1>2. ASSUME NEW i \in Frames(u)
      PROVE  /\ u[i].sequence \in Nat /\ u[i].turn \in Nat /\ u[i].turn >= 1
             /\ u[i].era \in Nat /\ u[i].era >= 1
             /\ i < Len(u) => u[i] \in Frame
  <2>1. i \in 1..(n + 1) /\ (i = n + 1 \/ u[i] # Reset)
    BY <1>1 DEF Frames
  <2>2. CASE i = n + 1
    BY <2>2, <1>1 DEF IsNext
  <2>3. CASE i # n + 1
    <3>1. i \in 1..n
      BY <2>1, <2>3, <1>1
    <3>2. u[i] \in Frame
      BY <3>1, <2>1, <2>3, <1>1 DEF Messages
    <3>. QED
      BY <3>2, FrameFacts
  <2>. QED
    BY <2>2, <2>3
<1>3. IsStream(u)
  BY <1>1, <1>2 DEF IsStream
<1>. QED
  BY <1>1, <1>3 DEF u, n

LEMMA PostedIs ==
    ASSUME NEW q \in Seq(Messages), NEW v, NEW z, IsNext(v), IsNext(z), NEW m \in Frame,
           m.turn = v.turn, m.turn < z.turn, m.era = v.era, z.era = v.era,
           z.sequence = m.sequence, m.sequence = 0 => v.sequence = 0,
           NEW t, NEW s, s = 0 \/ (s = t /\ (s = v.era => v.sequence <= m.sequence))
    PROVE  /\ Posted(Append(q, v), Append(Append(q, m), z), t, s)
           /\ Append(q, m) \in Seq(Messages)
           /\ IsStream(Append(q, v)) /\ IsStream(Append(Append(q, m), z))
<1>. DEFINE p == Append(q, m)
            u == Append(q, v)
            w == Append(p, z)
            n == Len(q)
<1>1. /\ p \in Seq(Messages) /\ n \in Nat /\ Len(p) = n + 1
      /\ \A i \in 1..n : p[i] = q[i]
      /\ p[n + 1] = m
  BY DEF Messages
<1>. HIDE DEF p
<1>2. /\ IsStream(w) /\ Len(w) = n + 2
      /\ \A i \in 1..(n + 1) : w[i] = p[i]
      /\ w[n + 2] = z
  <2>1. /\ IsStream(w) /\ Len(w) = Len(p) + 1
        /\ \A i \in 1..Len(p) : w[i] = p[i]
        /\ w[Len(p) + 1] = z
    BY <1>1, StreamOf
  <2>2. (n + 1) + 1 = n + 2
    BY <1>1
  <2>. QED
    BY <2>1, <2>2, <1>1
<1>3. /\ IsStream(u) /\ Len(u) = n + 1
      /\ \A i \in 1..n : u[i] = q[i]
      /\ u[n + 1] = v
  BY StreamOf
<1>. HIDE DEF u, w, n
<1>4. m # Reset
  BY FrameFacts
<1>5. w[n + 1] = m /\ \A i \in 1..n : w[i] = u[i]
  BY <1>1, <1>2, <1>3
<1>6. (n + 1) + 1 = n + 2 /\ (n + 1) - 1 = n
  BY <1>1
<1>7. Posted(u, w, t, s)
  BY <1>2, <1>3, <1>4, <1>5, <1>6 DEF Posted
<1>. QED
  BY <1>1, <1>2, <1>3, <1>7 DEF u, w, p

LEMMA ResetPostedIs ==
    ASSUME NEW q \in Seq(Messages), NEW v, NEW z, IsNext(v), IsNext(z), z.turn = v.turn
    PROVE  /\ ResetPosted(Append(q, v), Append(Append(q, Reset), z), z.era)
           /\ Append(q, Reset) \in Seq(Messages)
           /\ IsStream(Append(q, v)) /\ IsStream(Append(Append(q, Reset), z))
<1>. DEFINE p == Append(q, Reset)
            u == Append(q, v)
            w == Append(p, z)
            n == Len(q)
<1>1. /\ p \in Seq(Messages) /\ n \in Nat /\ Len(p) = n + 1
      /\ \A i \in 1..n : p[i] = q[i]
      /\ p[n + 1] = Reset
  BY DEF Messages
<1>. HIDE DEF p
<1>2. /\ IsStream(w) /\ Len(w) = n + 2
      /\ \A i \in 1..(n + 1) : w[i] = p[i]
      /\ w[n + 2] = z
  <2>1. /\ IsStream(w) /\ Len(w) = Len(p) + 1
        /\ \A i \in 1..Len(p) : w[i] = p[i]
        /\ w[Len(p) + 1] = z
    BY <1>1, StreamOf
  <2>2. (n + 1) + 1 = n + 2
    BY <1>1
  <2>. QED
    BY <2>1, <2>2, <1>1
<1>3. /\ IsStream(u) /\ Len(u) = n + 1
      /\ \A i \in 1..n : u[i] = q[i]
      /\ u[n + 1] = v
  BY StreamOf
<1>. HIDE DEF u, w, n
<1>4. w[n + 1] = Reset /\ \A i \in 1..n : w[i] = u[i]
  BY <1>1, <1>2, <1>3
<1>5. (n + 1) + 1 = n + 2 /\ (n + 1) - 1 = n
  BY <1>1
<1>6. ResetPosted(u, w, z.era)
  BY <1>2, <1>3, <1>4, <1>5 DEF ResetPosted
<1>. QED
  BY <1>1, <1>2, <1>3, <1>6 DEF u, w, p

LEMMA PassesIs ==
    ASSUME NEW q \in Seq(Messages), NEW v, NEW z, IsNext(v), IsNext(z),
           z.turn > v.turn, z.era = v.era, z.sequence = 0 => v.sequence = 0,
           NEW t, NEW s, s = 0 \/ (s = t /\ (s = v.era => v.sequence <= z.sequence))
    PROVE  /\ Passes(Append(q, v), Append(q, z), t, s)
           /\ IsStream(Append(q, v)) /\ IsStream(Append(q, z))
<1>. DEFINE u == Append(q, v)
            w == Append(q, z)
            n == Len(q)
<1>1. /\ IsStream(u) /\ n \in Nat /\ Len(u) = n + 1
      /\ \A i \in 1..n : u[i] = q[i]
      /\ u[n + 1] = v
  BY StreamOf
<1>2. /\ IsStream(w) /\ Len(w) = n + 1
      /\ \A i \in 1..n : w[i] = q[i]
      /\ w[n + 1] = z
  BY StreamOf
<1>. HIDE DEF u, w, n
<1>3. (n + 1) - 1 = n
  BY <1>1
<1>4. Passes(u, w, t, s)
  BY <1>1, <1>2, <1>3 DEF Passes
<1>. QED
  BY <1>1, <1>2, <1>4 DEF u, w

LEMMA TakenIs ==
    ASSUME NEW q \in Seq(Messages), NEW v, IsNext(v), q # <<>>
    PROVE  /\ Taken(Append(q, v), Append(Tail(q), v)) /\ Append(q, v)[1] = Head(q)
           /\ Tail(q) \in Seq(Messages)
           /\ IsStream(Append(q, v)) /\ IsStream(Append(Tail(q), v))
<1>. DEFINE p == Tail(q)
            u == Append(q, v)
            w == Append(p, v)
            n == Len(p)
<1>1. /\ p \in Seq(Messages) /\ n \in Nat /\ Len(q) = n + 1
      /\ \A i \in 1..n : p[i] = q[i + 1]
      /\ Head(q) = q[1]
  OBVIOUS
<1>2. /\ IsStream(u) /\ Len(u) = Len(q) + 1
      /\ \A i \in 1..Len(q) : u[i] = q[i]
      /\ u[Len(q) + 1] = v
  BY StreamOf
<1>. HIDE DEF p
<1>3. /\ IsStream(w) /\ Len(w) = n + 1
      /\ \A i \in 1..n : w[i] = p[i]
      /\ w[n + 1] = v
  BY <1>1, StreamOf
<1>. HIDE DEF u, w, n
<1>4. ASSUME NEW i \in 1..Len(w) PROVE w[i] = u[i + 1]
  <2>1. CASE i = n + 1
    BY <2>1, <1>1, <1>2, <1>3
  <2>2. CASE i # n + 1
    <3>1. i \in 1..n /\ i + 1 \in 1..Len(q)
      BY <2>2, <1>1, <1>3
    <3>. QED
      BY <3>1, <1>1, <1>2, <1>3
  <2>. QED
    BY <2>1, <2>2
<1>5. Len(u) > 1 /\ Len(w) = Len(u) - 1 /\ u[1] = q[1]
  BY <1>1, <1>2, <1>3
<1>6. Taken(u, w)
  BY <1>4, <1>5 DEF Taken
<1>. QED
  BY <1>1, <1>2, <1>3, <1>5, <1>6 DEF u, w, p

-----------------------------------------------------------------------------

GateTyped ==
    /\ configKey \in Key \cup {Nothing}
    /\ lastDepthSequence \in 0..MaxSequence
    /\ worker \in BOOLEAN
    /\ toWorker \in Seq(Messages) /\ fromWorker \in Seq(Frame)
    /\ ~worker => toWorker = <<>> /\ fromWorker = <<>>
    /\ turn \in 0..MaxTurn /\ era \in 1..MaxEra
    /\ released \in Release \cup {Nothing}
    /\ shown \in Frame \cup {Nothing}
    /\ newest \in 0..MaxSequence \cup {Nothing}
    /\ jumbled \in BOOLEAN /\ overflowed \in BOOLEAN

\* No frame is of an era to come.
Underway(f) == f.era <= era

FramesUnderway ==
    /\ \A f \in InGate(gate) : Underway(f)
    /\ \A i \in 1..Len(toWorker) : toWorker[i] # Reset => Underway(toWorker[i])
    /\ released # Nothing => Underway(released)

GateIInv ==
    /\ GateTyped
    /\ FramesUnderway
    /\ NoFrameForgotten
    /\ GateInv(gate, Stream, Tidy)
    /\ ReleaseFirst(released, gate, Stream, Tidy)

LEMMA NextFacts ==
    ASSUME GateTyped
    PROVE  /\ IsNext(NextFrame) /\ IsStream(Stream) /\ Tidy \in Nat /\ Epoch \in Nat
           /\ NextFrame.sequence = lastDepthSequence /\ NextFrame.turn = turn + 1
           /\ NextFrame.era = Epoch
           /\ era \in Nat /\ turn \in Nat /\ lastDepthSequence \in Nat /\ era >= 1
           /\ Epoch >= era /\ (configKey # Nothing => Epoch = era)
           /\ newest # Nothing => newest \in Nat
<1>1. /\ era \in Nat /\ era >= 1 /\ turn \in Nat /\ lastDepthSequence \in Nat
      /\ newest # Nothing => newest \in Nat
  BY BoundsArePositive DEF GateTyped
<1>2. Epoch \in Nat /\ Epoch >= era /\ Tidy \in Nat /\ (configKey # Nothing => Epoch = era)
  BY <1>1 DEF Epoch, Tidy
<1>3. /\ NextFrame.sequence = lastDepthSequence /\ NextFrame.turn = turn + 1
      /\ NextFrame.era = Epoch
  BY DEF NextFrame
<1>4. IsNext(NextFrame)
  BY <1>1, <1>2, <1>3 DEF IsNext
<1>5. IsStream(Stream)
  BY <1>4, StreamOf DEF GateTyped, Stream
<1>. QED
  BY <1>1, <1>2, <1>3, <1>4, <1>5

LEMMA GateInitHolds == GateInit => GateIInv
<1>. SUFFICES ASSUME GateInit PROVE GateIInv
  OBVIOUS
<1>1. GateTyped
  <2>1. 0 \in 0..MaxSequence /\ 0 \in 0..MaxTurn /\ 1 \in 1..MaxEra
    BY BoundsArePositive
  <2>2. <<>> \in Seq(Messages) /\ <<>> \in Seq(Frame)
    BY EmptySeq
  <2>. QED
    BY <2>1, <2>2, Zenon DEF GateInit, GateTyped
<1>2. InGate(gate) = {} /\ gate.queue = {} /\ gate = EmptyGate
  BY EmptyGateFacts DEF GateInit
<1>3. FramesUnderway
  BY <1>2 DEF FramesUnderway, GateInit
<1>4. NoFrameForgotten
  BY <1>2 DEF NoFrameForgotten
<1>5. IsStream(Stream) /\ Tidy \in Nat /\ Len(Stream) = 1
  <2>1. Len(Append(toWorker, NextFrame)) = 1
    BY DEF GateInit
  <2>. QED
    BY <2>1, <1>1, NextFacts DEF Stream
<1>6. GateInv(EmptyGate, Stream, Tidy) /\ ReleaseFirst(Nothing, EmptyGate, Stream, Tidy)
  BY <1>5, ClearKeeps
<1>. QED
  BY <1>1, <1>2, <1>3, <1>4, <1>6 DEF GateIInv, GateInit

\* What a poll and a message leave behind is not forgotten.
LEMMA PollWakes ==
    ASSUME NEW g, GateOK(g), NEW graceOver
    PROVE  LET a == Advance(g, graceOver)
           IN  a.queue # {} => a.pending # Nothing \/ a.sequenceTimer
BY AdvanceFacts

LEMMA TakeWakes ==
    ASSUME NEW g, GateOK(g), NEW graceOver, NEW frame \in Frame
    PROVE  LET a == QueueFrame(g, frame, graceOver)
           IN  a.queue # {} => a.pending # Nothing \/ a.sequenceTimer
<1>. DEFINE a == QueueFrame(g, frame, graceOver)
            e == Enqueue(g, frame)
<1>1. CASE frame.sequence = 0
  <2>. DEFINE m == IF g.pending # Nothing /\ g.pending.key = frame.key
                   THEN [g.pending EXCEPT !.turn = frame.turn] ELSE frame
  <2>1. m # Nothing
    <3>1. CASE g.pending # Nothing /\ g.pending.key = frame.key
      <4>1. g.pending \in Frame /\ frame.turn \in 1..MaxTurn
        BY <3>1 DEF GateOK, GateRecord, Frame
      <4>2. m \in Frame
        BY <3>1, <4>1 DEF Frame
      <4>. QED
        BY <4>2, FrameFacts
    <3>2. CASE ~(g.pending # Nothing /\ g.pending.key = frame.key)
      BY <3>2, FrameFacts
    <3>. QED
      BY <3>1, <3>2
  <2>2. a = [g EXCEPT !.pending = m, !.renderTimer = TRUE]
    BY <1>1 DEF QueueFrame, QueueUnsequenced
  <2>. HIDE DEF m, a
  <2>3. g \in GateRecord
    BY DEF GateOK
  <2>4. a.pending = m
    BY <2>2, <2>3 DEF GateRecord
  <2>. QED
    BY <2>1, <2>4 DEF a
<1>2. CASE frame.sequence # 0
  <2>1. frame.sequence > 0
    BY <1>2, FrameFacts
  <2>2. GateOK(e)
    BY <2>1, EnqueueFacts
  <2>3. a = Advance(e, graceOver)
    BY <1>2 DEF QueueFrame
  <2>. HIDE DEF e, a
  <2>4. Advance(e, graceOver).queue # {} =>
           Advance(e, graceOver).pending # Nothing \/ Advance(e, graceOver).sequenceTimer
    BY <2>2, PollWakes
  <2>. QED
    BY <2>3, <2>4 DEF a
<1>. QED
  BY <1>1, <1>2

-----------------------------------------------------------------------------

\* The gate of a feed that is connected or disconnected is cleared.
LEMMA ClearedKeeps ==
    ASSUME GateIInv, GateCleared, configKey' \in Key \cup {Nothing}, era' \in 1..MaxEra,
           era <= era', Epoch' \in Nat, era < Epoch',
           UNCHANGED <<worker, fromWorker, turn, released, shown>>
    PROVE  GateIInv'
<1>1. GateTyped
  BY DEF GateIInv
<1>2. /\ IsNext(NextFrame) /\ IsStream(Stream) /\ Tidy \in Nat /\ Epoch \in Nat
      /\ NextFrame.turn = turn + 1 /\ NextFrame.era = Epoch /\ turn \in Nat
      /\ era \in Nat
  BY <1>1, NextFacts
<1>3. GateTyped'
  <2>1. 0 \in 0..MaxSequence
    BY BoundsArePositive
  <2>2. toWorker' \in Seq(Messages)
    <3>1. toWorker \in Seq(Messages) /\ Reset \in Messages
      BY <1>1 DEF GateTyped, Messages
    <3>2. Append(toWorker, Reset) \in Seq(Messages)
      BY <3>1
    <3>3. toWorker' = Append(toWorker, Reset) \/ toWorker' = toWorker
      BY DEF GateCleared
    <3>. QED
      BY <3>1, <3>2, <3>3
  <2>3. ~worker' => toWorker' = <<>> /\ fromWorker' = <<>>
    BY <1>1 DEF GateCleared, GateTyped
  <2>4. newest' = Nothing /\ jumbled' \in BOOLEAN /\ overflowed' \in BOOLEAN
    BY DEF GateCleared
  <2>5. lastDepthSequence' = 0
    BY DEF GateCleared
  <2>. QED
    BY <1>1, <2>1, <2>2, <2>3, <2>4, <2>5 DEF GateTyped
<1>4. /\ NextFrame'.sequence = 0 /\ NextFrame'.turn = turn + 1 /\ NextFrame'.era = Epoch'
      /\ IsNext(NextFrame')
  <2>1. NextFrame' = [sequence |-> 0, turn |-> turn + 1, era |-> Epoch']
    BY DEF NextFrame, GateCleared
  <2>. QED
    BY <1>2, <2>1 DEF IsNext
<1>5. Tidy' = Epoch'
  BY DEF Tidy, GateCleared
<1>6. Stream' = Append(toWorker', NextFrame')
  BY DEF Stream
<1>7. /\ toWorker \in Seq(Messages) /\ released \in Release \cup {Nothing}
      /\ released # Nothing => released.era <= era /\ released.era \in Nat
      /\ GateInv(gate, Stream, Tidy) /\ ReleaseFirst(released, gate, Stream, Tidy)
      /\ released' = released
  BY <1>1, BoundsArePositive DEF GateIInv, GateTyped, FramesUnderway, Underway, Release
<1>8. CASE worker
  <2>1. toWorker' = Append(toWorker, Reset) /\ gate' = gate
    BY <1>8 DEF GateCleared
  <2>2. /\ ResetPosted(Append(toWorker, NextFrame), Append(Append(toWorker, Reset), NextFrame'), Epoch')
        /\ IsStream(Append(Append(toWorker, Reset), NextFrame'))
    BY <1>2, <1>4, <1>7, ResetPostedIs
  <2>3. ResetPosted(Stream, Stream', Epoch') /\ IsStream(Stream')
    BY <2>1, <2>2, <1>6 DEF Stream
  <2>4. \A f \in InGate(gate) : f.era < Epoch'
    <3>1. \A f \in InGate(gate) : f.era \in Nat /\ f.era <= era
      BY GateFacts DEF GateIInv, FramesUnderway, Underway, GateInv
    <3>. QED
      BY <3>1, <1>2
  <2>5. ASSUME NEW i \in Frames(Stream), i < Len(Stream) PROVE Stream[i].era < Epoch'
    <3>1. i \in 1..Len(toWorker) /\ Stream[i] = toWorker[i] /\ Stream[i] # Reset
      BY <2>5, <1>2, <1>7, StreamOf DEF Stream, Frames
    <3>2. Stream[i].era <= era /\ Stream[i].era \in Nat
      BY <3>1, <1>2, StreamFacts DEF GateIInv, FramesUnderway, Underway
    <3>. QED
      BY <3>2, <1>2
  <2>6. released # Nothing => released.era < Epoch'
    BY <1>2, <1>7
  <2>7. GateInv(gate, Stream', Epoch') /\ ReleaseFirst(released, gate, Stream', Epoch')
    BY <2>3, <2>4, <2>5, <2>6, <1>7, PostResetKeeps
  <2>8. FramesUnderway'
    <3>1. \A f \in InGate(gate') : f.era <= era'
      <4>1. \A f \in InGate(gate) : f.era \in Nat /\ f.era <= era
        BY GateFacts DEF GateIInv, FramesUnderway, Underway, GateInv
      <4>. QED
        BY <4>1, <1>2, <2>1
    <3>2. ASSUME NEW i \in 1..Len(toWorker'), toWorker'[i] # Reset PROVE toWorker'[i].era <= era'
      <4>1. i \in 1..Len(toWorker) /\ toWorker'[i] = toWorker[i] /\ toWorker[i] \in Frame
        BY <3>2, <2>1, <1>7 DEF Messages
      <4>2. toWorker[i].era <= era /\ toWorker[i].era \in Nat
        BY <4>1, <3>2, FrameFacts DEF GateIInv, FramesUnderway, Underway
      <4>. QED
        BY <4>1, <4>2, <1>2
    <3>3. released' # Nothing => released'.era <= era'
      BY <1>2, <1>7
    <3>. QED
      BY <3>1, <3>2, <3>3 DEF FramesUnderway, Underway
  <2>9. NoFrameForgotten'
    BY <2>1 DEF GateIInv, NoFrameForgotten
  <2>. QED
    BY <2>1, <2>7, <2>8, <2>9, <1>3, <1>5, <1>7 DEF GateIInv
<1>9. CASE ~worker
  <2>1. gate' = EmptyGate /\ toWorker' = <<>>
    BY <1>1, <1>9 DEF GateCleared, GateTyped
  <2>2. /\ IsStream(Stream') /\ Len(Stream') = 1 /\ Stream'[1] = NextFrame'
    <3>1. <<>> \in Seq(Messages) /\ Len(<<>>) = 0
      BY EmptySeq
    <3>2. IsStream(Append(<<>>, NextFrame'))
      BY <3>1, <1>4, StreamOf
    <3>3. Len(Append(<<>>, NextFrame')) = 1 /\ Append(<<>>, NextFrame')[1] = NextFrame'
      OBVIOUS
    <3>. QED
      BY <3>2, <3>3, <2>1, <1>6
  <2>3. GateInv(EmptyGate, Stream', Epoch') /\ ReleaseFirst(released, EmptyGate, Stream', Epoch')
    BY <2>2, <1>2, <1>4, <1>7, ClearKeeps
  <2>4. FramesUnderway'
    <3>1. InGate(gate') = {} /\ Len(toWorker') = 0
      BY <2>1, EmptyGateFacts
    <3>2. released' # Nothing => released'.era <= era'
      BY <1>2, <1>7
    <3>. QED
      BY <3>1, <3>2 DEF FramesUnderway, Underway
  <2>5. NoFrameForgotten'
    BY <2>1, EmptyGateFacts DEF NoFrameForgotten
  <2>. QED
    BY <2>1, <2>3, <2>4, <2>5, <1>3, <1>5, <1>7 DEF GateIInv
<1>. QED
  BY <1>8, <1>9

LEMMA ConnectKeeps ==
    ASSUME GateIInv, NEW k \in Key, ConnectFeed(k)
    PROVE  GateIInv'
<1>1. GateTyped
  BY DEF GateIInv
<1>2. era \in Nat /\ era >= 1 /\ MaxEra \in Nat /\ era < MaxEra
  BY <1>1, NextFacts, BoundsArePositive DEF ConnectFeed
<1>3. /\ configKey' = k /\ era' = era + 1 /\ GateCleared
      /\ UNCHANGED <<worker, fromWorker, turn, released, shown>>
  BY DEF ConnectFeed
<1>4. Epoch' = era + 1
  BY <1>3, NothingIsNoKey DEF Epoch
<1>5. configKey' \in Key \cup {Nothing} /\ era' \in 1..MaxEra /\ era <= era'
      /\ Epoch' \in Nat /\ era < Epoch'
  BY <1>2, <1>3, <1>4
<1>. QED
  BY <1>3, <1>5, ClearedKeeps

LEMMA DisconnectKeeps ==
    ASSUME GateIInv, DisconnectFeed
    PROVE  GateIInv'
<1>1. GateTyped
  BY DEF GateIInv
<1>2. era \in Nat /\ era \in 1..MaxEra
  BY <1>1, NextFacts DEF GateTyped
<1>3. /\ configKey' = Nothing /\ era' = era /\ GateCleared
      /\ UNCHANGED <<worker, fromWorker, turn, released, shown>>
  BY DEF DisconnectFeed
<1>4. Epoch' = era + 1
  BY <1>3 DEF Epoch
<1>5. configKey' \in Key \cup {Nothing} /\ era' \in 1..MaxEra /\ era <= era'
      /\ Epoch' \in Nat /\ era < Epoch'
  BY <1>2, <1>3, <1>4
<1>. QED
  BY <1>3, <1>5, ClearedKeeps

\* A worker that failed leaves an empty gate in the page.
LEMMA FailKeeps ==
    ASSUME GateIInv, WorkerFails
    PROVE  GateIInv'
<1>1. GateTyped
  BY DEF GateIInv
<1>2. /\ era \in Nat /\ era >= 1 /\ MaxEra \in Nat /\ era < MaxEra /\ turn \in Nat
      /\ lastDepthSequence \in Nat
  BY <1>1, NextFacts, BoundsArePositive DEF WorkerFails
<1>3. /\ era' = era + 1 /\ worker' = FALSE /\ gate' = EmptyGate
      /\ toWorker' = <<>> /\ fromWorker' = <<>>
      /\ newest' = Nothing /\ jumbled' = FALSE /\ overflowed' = FALSE
      /\ UNCHANGED <<configKey, lastDepthSequence, turn, released, shown>>
  BY DEF WorkerFails
<1>4. <<>> \in Seq(Messages) /\ <<>> \in Seq(Frame) /\ Len(<<>>) = 0
  BY EmptySeq
<1>5. GateTyped'
  <2>1. era' \in 1..MaxEra
    BY <1>2, <1>3
  <2>. QED
    BY <2>1, <1>1, <1>3, <1>4, Zenon DEF GateTyped
<1>6. Epoch' \in Nat /\ Epoch' >= era + 1 /\ Tidy' = Epoch'
  BY <1>2, <1>3 DEF Epoch, Tidy
<1>7. IsNext(NextFrame') /\ NextFrame'.era = Epoch'
  <2>1. NextFrame' = [sequence |-> lastDepthSequence, turn |-> turn + 1, era |-> Epoch']
    BY <1>3 DEF NextFrame
  <2>. QED
    BY <2>1, <1>2, <1>6 DEF IsNext
<1>8. IsStream(Stream') /\ Len(Stream') = 1 /\ Stream'[1] = NextFrame'
  <2>1. IsStream(Append(<<>>, NextFrame'))
    BY <1>4, <1>7, StreamOf
  <2>2. Len(Append(<<>>, NextFrame')) = 1 /\ Append(<<>>, NextFrame')[1] = NextFrame'
    OBVIOUS
  <2>3. Stream' = Append(<<>>, NextFrame')
    BY <1>3 DEF Stream
  <2>. QED
    BY <2>1, <2>2, <2>3
<1>9. released # Nothing => released.era <= era /\ released.era \in Nat
  BY <1>1, BoundsArePositive DEF GateIInv, GateTyped, FramesUnderway, Underway, Release
<1>10. GateInv(EmptyGate, Stream', Tidy') /\ ReleaseFirst(released, EmptyGate, Stream', Tidy')
  <2>1. released # Nothing => released.era < Stream'[1].era
    BY <1>2, <1>6, <1>7, <1>8, <1>9
  <2>2. released \in Release \cup {Nothing}
    BY <1>1 DEF GateTyped
  <2>. QED
    BY <2>1, <2>2, <1>6, <1>8, ClearKeeps
<1>11. FramesUnderway'
  <2>1. InGate(gate') = {} /\ Len(toWorker') = 0
    BY <1>3, <1>4, EmptyGateFacts
  <2>2. released' # Nothing => released'.era <= era'
    BY <1>2, <1>3, <1>9
  <2>. QED
    BY <2>1, <2>2 DEF FramesUnderway, Underway
<1>12. NoFrameForgotten'
  BY <1>3, EmptyGateFacts DEF NoFrameForgotten
<1>. QED
  BY <1>3, <1>5, <1>10, <1>11, <1>12 DEF GateIInv

\* Steps that touch neither the gate nor the messages to the worker, and make one
\* frame at most.
LEMMA BystandersKeep ==
    ASSUME GateIInv, GateTyped', UNCHANGED <<lastDepthSequence, gate, toWorker, era,
                                             released, jumbled>>,
           turn' \in {turn, turn + 1}, configKey = Nothing <=> configKey' = Nothing
    PROVE  GateIInv'
<1>1. GateTyped
  BY DEF GateIInv
<1>2. Tidy' = Tidy /\ Epoch' = Epoch
  BY DEF Tidy, Epoch
<1>3. /\ IsNext(NextFrame) /\ turn \in Nat /\ lastDepthSequence \in Nat /\ Epoch \in Nat
      /\ NextFrame = [sequence |-> lastDepthSequence, turn |-> turn + 1, era |-> Epoch]
      /\ Epoch >= 1
  BY <1>1, NextFacts DEF NextFrame
<1>4. NextFrame' = [sequence |-> lastDepthSequence, turn |-> turn' + 1, era |-> Epoch]
  BY <1>2 DEF NextFrame
<1>5. Stream = Append(toWorker, NextFrame) /\ Stream' = Append(toWorker, NextFrame')
  BY DEF Stream
<1>6. GateInv(gate, Stream', Tidy) /\ ReleaseFirst(released, gate, Stream', Tidy)
  <2>1. CASE turn' = turn
    <3>1. Stream' = Stream
      BY <2>1, <1>3, <1>4, <1>5
    <3>. QED
      BY <3>1 DEF GateIInv
  <2>2. CASE turn' = turn + 1
    <3>1. IsNext(NextFrame') /\ NextFrame'.turn > NextFrame.turn
          /\ NextFrame'.era = NextFrame.era /\ NextFrame'.sequence = NextFrame.sequence
      BY <2>2, <1>3, <1>4 DEF IsNext
    <3>2. toWorker \in Seq(Messages) /\ released \in Release \cup {Nothing}
      BY <1>1 DEF GateTyped
    <3>3. NextFrame.sequence \in Nat /\ NextFrame.sequence <= NextFrame'.sequence
          /\ Tidy \in Nat
      BY <3>1, <1>1, NextFacts
    <3>4. Passes(Stream, Stream', Tidy, Tidy) /\ IsStream(Stream')
      BY <3>1, <3>2, <3>3, <1>3, <1>5, PassesIs
    <3>. QED
      BY <3>2, <3>3, <3>4, PassKeeps DEF GateIInv
  <2>. QED
    BY <2>1, <2>2
<1>7. FramesUnderway' /\ NoFrameForgotten'
  BY DEF GateIInv, FramesUnderway, Underway, NoFrameForgotten
<1>. QED
  BY <1>2, <1>6, <1>7 DEF GateIInv

\* Depth without a frame.  It has a sequence, and does not go down in an era without
\* disorder.
LEMMA DepthKeeps ==
    ASSUME GateIInv, DepthWithoutFrame
    PROVE  GateIInv'
<1>1. GateTyped
  BY DEF GateIInv
<1>2. PICK sequence \in 1..MaxSequence :
         /\ lastDepthSequence' = sequence
         /\ jumbled' = (jumbled \/ sequence < lastDepthSequence)
  BY DEF DepthWithoutFrame
<1>3. /\ turn < MaxTurn /\ turn' = turn + 1
      /\ UNCHANGED <<configKey, worker, gate, toWorker, fromWorker, era,
                     newest, released, shown, overflowed>>
  BY DEF DepthWithoutFrame
<1>4. sequence \in 0..MaxSequence /\ sequence \in Nat /\ sequence > 0
  BY BoundsArePositive
<1>5. /\ IsNext(NextFrame) /\ turn \in Nat /\ lastDepthSequence \in Nat /\ Epoch \in Nat
      /\ NextFrame.sequence = lastDepthSequence /\ NextFrame.turn = turn + 1
      /\ NextFrame.era = Epoch /\ Epoch >= 1 /\ Tidy \in Nat
  BY <1>1, NextFacts
<1>6. turn' \in 0..MaxTurn
  BY <1>1, <1>3, <1>5, BoundsArePositive
<1>7. jumbled' \in BOOLEAN
  BY <1>2, Zenon
<1>8. GateTyped'
  BY <1>1, <1>2, <1>3, <1>4, <1>6, <1>7 DEF GateTyped
<1>9. /\ IsNext(NextFrame') /\ NextFrame'.sequence = sequence
      /\ NextFrame'.turn > NextFrame.turn /\ NextFrame'.era = NextFrame.era
  <2>1. NextFrame' = [sequence |-> sequence, turn |-> (turn + 1) + 1, era |-> Epoch]
    BY <1>2, <1>3 DEF NextFrame, Epoch
  <2>. QED
    BY <2>1, <1>4, <1>5 DEF IsNext
<1>10. Tidy' = 0 \/ (Tidy' = Tidy /\ lastDepthSequence <= sequence)
  <2>1. CASE jumbled'
    BY <2>1 DEF Tidy
  <2>2. CASE ~jumbled'
    <3>1. ~jumbled /\ ~(sequence < lastDepthSequence)
      BY <2>2, <1>2
    <3>2. Tidy' = Tidy
      BY <3>1, <2>2, <1>3 DEF Tidy, Epoch
    <3>. QED
      BY <3>1, <3>2, <1>4, <1>5
  <2>. QED
    BY <2>1, <2>2
<1>11. Stream = Append(toWorker, NextFrame) /\ Stream' = Append(toWorker, NextFrame')
  BY <1>3 DEF Stream
<1>12. toWorker \in Seq(Messages) /\ released \in Release \cup {Nothing} /\ Tidy' \in Nat
  BY <1>1, <1>5, <1>10 DEF GateTyped
<1>13. Passes(Stream, Stream', Tidy, Tidy') /\ IsStream(Stream')
  BY <1>4, <1>5, <1>9, <1>10, <1>11, <1>12, PassesIs
<1>14. GateInv(gate, Stream', Tidy') /\ ReleaseFirst(released, gate, Stream', Tidy')
  BY <1>12, <1>13, PassKeeps DEF GateIInv
<1>15. FramesUnderway' /\ NoFrameForgotten'
  BY <1>3 DEF GateIInv, FramesUnderway, Underway, NoFrameForgotten
<1>. QED
  BY <1>3, <1>8, <1>14, <1>15 DEF GateIInv

LEMMA NewFrameFacts ==
    ASSUME GateTyped, turn < MaxTurn, NEW k \in Key, NEW sequence \in 0..MaxSequence,
           NEW gated \in BOOLEAN
    PROVE  LET f == NewFrame(k, sequence, gated)
           IN  /\ f \in Frame /\ f.sequence = sequence /\ f.turn = turn + 1 /\ f.era = era
               /\ f.key = k /\ f.gated = gated
<1>1. turn + 1 \in 1..MaxTurn /\ era \in 1..MaxEra
  BY BoundsArePositive DEF GateTyped
<1>. QED
  BY <1>1 DEF NewFrame, Frame

LEMMA PublishKeeps ==
    ASSUME GateIInv, NEW k \in Key, PublishNow(k), configKey' \in Key \cup {Nothing},
           configKey = Nothing <=> configKey' = Nothing
    PROVE  GateIInv'
<1>1. GateTyped
  BY DEF GateIInv
<1>2. /\ turn < MaxTurn /\ turn' = turn + 1
      /\ shown' = NewFrame(k, 0, FALSE)
      /\ UNCHANGED <<lastDepthSequence, worker, gate, toWorker, fromWorker, era,
                     newest, released, jumbled, overflowed>>
  BY DEF PublishNow
<1>3. turn' \in 0..MaxTurn
  BY <1>1, <1>2, NextFacts, BoundsArePositive
<1>4. shown' \in Frame
  <2>1. 0 \in 0..MaxSequence
    BY BoundsArePositive
  <2>. QED
    BY <2>1, <1>1, <1>2, NewFrameFacts
<1>5. GateTyped'
  BY <1>1, <1>2, <1>3, <1>4 DEF GateTyped
<1>. QED
  BY <1>2, <1>5, BystandersKeep

LEMMA SilenceKeeps ==
    ASSUME GateIInv, PublishNothing, configKey' \in Key \cup {Nothing},
           configKey = Nothing <=> configKey' = Nothing
    PROVE  GateIInv'
<1>1. GateTyped'
  BY DEF GateIInv, GateTyped, PublishNothing
<1>. QED
  BY <1>1, BystandersKeep DEF PublishNothing

LEMMA RefreshKeeps ==
    ASSUME GateIInv, RefreshAnswers
    PROVE  GateIInv'
<1>1. configKey \in Key /\ configKey' = configKey /\ PublishNow(configKey)
  BY DEF GateIInv, GateTyped, RefreshAnswers
<1>. QED
  BY <1>1, PublishKeeps, NothingIsNoKey

LEMMA FallsBackKeeps ==
    ASSUME GateIInv, RefreshFallsBack
    PROVE  GateIInv'
BY SilenceKeeps DEF RefreshFallsBack, GateIInv, GateTyped

LEMMA FallbackKeeps ==
    ASSUME GateIInv, NEW k \in Key, FallbackAnswers(k)
    PROVE  GateIInv'
<1>1. configKey' = configKey /\ configKey \in Key \cup {Nothing}
  BY DEF FallbackAnswers, GateIInv, GateTyped
<1>2. PublishNow(k) \/ PublishNothing
  BY DEF FallbackAnswers
<1>. QED
  BY <1>1, <1>2, PublishKeeps, SilenceKeeps

LEMMA TimeframeKeeps ==
    ASSUME GateIInv, NEW k \in Key, ConnectTimeframe(k)
    PROVE  GateIInv'
<1>1. configKey # Nothing /\ configKey' = k
  BY DEF ConnectTimeframe
<1>2. configKey' \in Key \cup {Nothing} /\ configKey' # Nothing
  BY <1>1, NothingIsNoKey
<1>3. PublishNow(k) \/ PublishNothing
  BY DEF ConnectTimeframe
<1>. QED
  BY <1>1, <1>2, <1>3, PublishKeeps, SilenceKeeps

LEMMA PageKeeps ==
    ASSUME GateIInv, PageReceives
    PROVE  GateIInv'
<1>1. GateTyped
  BY DEF GateIInv
<1>2. /\ fromWorker # <<>> /\ fromWorker' = Tail(fromWorker)
      /\ shown' = Head(fromWorker) \/ shown' = shown
      /\ UNCHANGED <<configKey, lastDepthSequence, worker, gate, toWorker, turn,
                     era, newest, released, jumbled, overflowed>>
  BY DEF PageReceives
<1>3. Head(fromWorker) \in Frame /\ Tail(fromWorker) \in Seq(Frame)
  BY <1>1, <1>2 DEF GateTyped
<1>4. GateTyped'
  BY <1>1, <1>2, <1>3 DEF GateTyped
<1>. QED
  BY <1>2, <1>4, BystandersKeep

LEMMA StutterKeeps ==
    ASSUME GateIInv, UNCHANGED gateVars
    PROVE  GateIInv'
<1>1. GateTyped'
  BY DEF GateIInv, GateTyped, gateVars
<1>. QED
  BY <1>1, BystandersKeep DEF gateVars

\* The timers: the stream stays, the gate loses frames at most.
LEMMA TimersKeep ==
    ASSUME GateIInv, NEW r, GateInv(gate', Stream, Tidy), ReleaseFirst(r, gate', Stream, Tidy),
           InGate(gate') \subseteq InGate(gate), NoFrameForgotten',
           r \in Release \cup {Nothing}, r # Nothing => r.era <= era, released' = r,
           fromWorker' \in Seq(Frame), ~worker => fromWorker' = <<>>, shown' \in Frame \cup {Nothing},
           UNCHANGED <<configKey, lastDepthSequence, worker, toWorker, turn, era,
                       newest, jumbled, overflowed>>
    PROVE  GateIInv'
<1>1. GateTyped'
  BY DEF GateIInv, GateTyped
<1>2. Stream' = Stream /\ Tidy' = Tidy
  BY DEF Stream, NextFrame, Tidy, Epoch
<1>3. FramesUnderway'
  BY DEF GateIInv, FramesUnderway, Underway
<1>. QED
  BY <1>1, <1>2, <1>3 DEF GateIInv

LEMMA SequenceTimerKeeps ==
    ASSUME GateIInv, SequenceTimerFires
    PROVE  GateIInv'
<1>1. PICK graceOver \in BOOLEAN :
         gate' = Advance([gate EXCEPT !.sequenceTimer = FALSE], graceOver)
  BY DEF SequenceTimerFires
<1>2. UNCHANGED <<configKey, lastDepthSequence, worker, toWorker, fromWorker,
                  turn, era, newest, released, shown, jumbled, overflowed>>
  BY DEF SequenceTimerFires
<1>3. /\ GateInv(gate, Stream, Tidy) /\ ReleaseFirst(released, gate, Stream, Tidy)
      /\ released \in Release \cup {Nothing} /\ fromWorker \in Seq(Frame)
      /\ ~worker => fromWorker = <<>>
      /\ shown \in Frame \cup {Nothing}
      /\ released # Nothing => released.era <= era
  BY DEF GateIInv, GateTyped, FramesUnderway, Underway
<1>4. /\ GateInv(gate', Stream, Tidy) /\ ReleaseFirst(released, gate', Stream, Tidy)
      /\ InGate(gate') \subseteq InGate(gate)
  BY <1>1, <1>3, WakeKeeps
<1>5. NoFrameForgotten'
  <2>. DEFINE h == [gate EXCEPT !.sequenceTimer = FALSE]
  <2>1. gate \in GateRecord /\ GateOK(gate)
    BY <1>3 DEF GateInv, GateOK
  <2>2. h \in GateRecord /\ h.queue = gate.queue /\ h.pending = gate.pending
        /\ h.renderTimer = gate.renderTimer
    BY <2>1 DEF GateRecord
  <2>3. gate' = Advance(h, graceOver)
    BY <1>1
  <2>. HIDE DEF h
  <2>4. GateOK(h)
    BY <2>1, <2>2 DEF GateOK
  <2>5. Advance(h, graceOver).queue # {} =>
          Advance(h, graceOver).pending # Nothing \/ Advance(h, graceOver).sequenceTimer
    BY <2>4, PollWakes
  <2>. QED
    BY <2>3, <2>5 DEF NoFrameForgotten
<1>. QED
  BY <1>2, <1>3, <1>4, <1>5, TimersKeep

LEMMA RenderTimerKeeps ==
    ASSUME GateIInv, RenderTimerFires
    PROVE  GateIInv'
<1>. DEFINE r == [sequence |-> gate.pending.sequence, era |-> gate.pending.era]
<1>1. PICK graceOver \in BOOLEAN : gate' = Flushed(gate, graceOver)
  BY DEF RenderTimerFires
<1>2. /\ gate.pending # Nothing /\ released' = r
      /\ IF worker
         THEN fromWorker' = Append(fromWorker, gate.pending) /\ UNCHANGED shown
         ELSE shown' = gate.pending /\ UNCHANGED fromWorker
      /\ UNCHANGED <<configKey, lastDepthSequence, worker, toWorker, turn, era,
                     newest, jumbled, overflowed>>
  BY DEF RenderTimerFires
<1>3. /\ GateInv(gate, Stream, Tidy) /\ GateOK(gate) /\ fromWorker \in Seq(Frame)
      /\ ~worker => fromWorker = <<>>
      /\ shown \in Frame \cup {Nothing}
  BY DEF GateIInv, GateTyped, GateInv
<1>4. gate.pending \in Frame /\ gate.pending \in InGate(gate) /\ gate.pending.era <= era
      /\ gate.queue \subseteq InGate(gate)
  BY <1>2, <1>3, GateFacts DEF GateIInv, FramesUnderway, Underway
<1>5. /\ GateInv(gate', Stream, Tidy) /\ ReleaseFirst(r, gate', Stream, Tidy)
      /\ InGate(gate') \subseteq gate.queue /\ r \in Release
  BY <1>1, <1>2, <1>3, FlushKeeps
<1>6. NoFrameForgotten'
  <2>. DEFINE h == [gate EXCEPT !.pending = Nothing, !.renderTimer = FALSE]
  <2>1. gate \in GateRecord /\ GateOK(gate)
    BY <1>3 DEF GateInv, GateOK
  <2>2. h \in GateRecord /\ h.queue = gate.queue /\ h.pending = Nothing
        /\ h.renderTimer = FALSE
    BY <2>1 DEF GateRecord
  <2>3. gate' = Advance(h, graceOver)
    BY <1>1 DEF Flushed
  <2>. HIDE DEF h
  <2>4. GateOK(h)
    BY <2>1, <2>2 DEF GateOK
  <2>5. Advance(h, graceOver).queue # {} =>
          Advance(h, graceOver).pending # Nothing \/ Advance(h, graceOver).sequenceTimer
    BY <2>4, PollWakes
  <2>. QED
    BY <2>3, <2>5 DEF NoFrameForgotten
<1>7. fromWorker' \in Seq(Frame) /\ (~worker => fromWorker' = <<>>) /\ shown' \in Frame \cup {Nothing}
  <2>1. CASE worker
    <3>1. Append(fromWorker, gate.pending) \in Seq(Frame)
      BY <1>3, <1>4
    <3>. QED
      BY <3>1, <2>1, <1>2, <1>3
  <2>2. CASE ~worker
    BY <2>2, <1>2, <1>3, <1>4
  <2>. QED
    BY <2>1, <2>2
<1>8. r.era <= era
  BY <1>4
<1>. HIDE DEF r
<1>. QED
  BY <1>2, <1>4, <1>5, <1>6, <1>7, <1>8, TimersKeep

\* The worker takes its next message.
LEMMA ReceivesKeeps ==
    ASSUME GateIInv, WorkerReceives
    PROVE  GateIInv'
<1>1. GateTyped
  BY DEF GateIInv
<1>2. /\ toWorker # <<>> /\ toWorker' = Tail(toWorker)
      /\ UNCHANGED <<configKey, lastDepthSequence, worker, fromWorker, turn, era,
                     newest, released, shown, jumbled>>
  BY DEF WorkerReceives
<1>3. /\ toWorker \in Seq(Messages) /\ released \in Release \cup {Nothing}
      /\ GateInv(gate, Stream, Tidy) /\ ReleaseFirst(released, gate, Stream, Tidy)
      /\ GateOK(gate)
  BY <1>1 DEF GateIInv, GateTyped, GateInv
<1>4. /\ Tail(toWorker) \in Seq(Messages) /\ Len(toWorker) \in Nat /\ Len(toWorker) > 0
      /\ Len(Tail(toWorker)) = Len(toWorker) - 1
      /\ \A i \in 1..Len(Tail(toWorker)) : Tail(toWorker)[i] = toWorker[i + 1]
      /\ Head(toWorker) = toWorker[1] /\ Head(toWorker) \in Messages
  BY <1>2, <1>3
<1>5. /\ Taken(Stream, Stream') /\ Stream[1] = Head(toWorker) /\ IsStream(Stream')
      /\ Tidy' = Tidy
  <2>1. NextFrame' = NextFrame /\ Tidy' = Tidy
    BY <1>2 DEF NextFrame, Tidy, Epoch
  <2>2. IsNext(NextFrame)
    BY <1>1, NextFacts
  <2>3. Stream = Append(toWorker, NextFrame) /\ Stream' = Append(Tail(toWorker), NextFrame)
    BY <2>1, <1>2 DEF Stream
  <2>. QED
    BY <2>1, <2>2, <2>3, <1>2, <1>3, TakenIs
<1>6. overflowed' \in BOOLEAN
  BY <1>1, Zenon DEF WorkerReceives, GateTyped
<1>7. ~worker => FALSE
  BY <1>1, <1>2 DEF GateTyped
<1>8. GateTyped'
  BY <1>1, <1>2, <1>4, <1>6, <1>7 DEF GateTyped
<1>9. \A i \in 1..Len(toWorker') : toWorker'[i] # Reset => toWorker'[i].era <= era
  <2>1. ASSUME NEW i \in 1..Len(toWorker'), toWorker'[i] # Reset PROVE toWorker'[i].era <= era
    <3>1. i + 1 \in 1..Len(toWorker) /\ toWorker'[i] = toWorker[i + 1]
      BY <1>2, <1>4
    <3>. QED
      BY <3>1, <2>1 DEF GateIInv, FramesUnderway, Underway
  <2>. QED
    BY <2>1
<1>10. CASE Head(toWorker) = Reset
  <2>1. gate' = EmptyGate
    BY <1>10 DEF WorkerReceives
  <2>2. GateInv(EmptyGate, Stream', Tidy) /\ ReleaseFirst(released, EmptyGate, Stream', Tidy)
    BY <1>3, <1>5, <1>10, TakeResetKeeps
  <2>3. FramesUnderway'
    BY <2>1, <1>2, <1>9, EmptyGateFacts DEF GateIInv, FramesUnderway, Underway
  <2>4. NoFrameForgotten'
    BY <2>1, EmptyGateFacts DEF NoFrameForgotten
  <2>. QED
    BY <2>1, <2>2, <2>3, <2>4, <1>2, <1>5, <1>8 DEF GateIInv
<1>11. CASE Head(toWorker) # Reset
  <2>. DEFINE f1 == Head(toWorker)
  <2>1. PICK graceOver \in BOOLEAN : gate' = QueueFrame(gate, f1, graceOver)
    BY <1>11 DEF WorkerReceives
  <2>2. f1 \in Frame /\ f1.era <= era
    <3>1. f1 \in Frame /\ f1 = toWorker[1] /\ 1 \in 1..Len(toWorker)
      BY <1>4, <1>11 DEF Messages
    <3>. QED
      BY <3>1, <1>11 DEF GateIInv, FramesUnderway, Underway
  <2>3. /\ GateInv(gate', Stream', Tidy) /\ ReleaseFirst(released, gate', Stream', Tidy)
        /\ \A f \in InGate(gate') :
              f \in InGate(gate) \cup {f1} \/ (f \in Frame /\ Alike(f, f1))
    <3>1. Stream[1] = f1 /\ Stream[1] # Reset
      BY <1>5, <1>11
    <3>. HIDE DEF f1
    <3>2. LET q == QueueFrame(gate, Stream[1], graceOver)
          IN  /\ GateInv(q, Stream', Tidy) /\ ReleaseFirst(released, q, Stream', Tidy)
              /\ \A f \in InGate(q) :
                    \/ f \in InGate(gate) \cup {Stream[1]}
                    \/ f \in Frame /\ Alike(f, Stream[1])
      BY <3>1, <1>3, <1>5, TakeKeeps
    <3>. QED
      BY <3>1, <3>2, <2>1
  <2>. HIDE DEF f1
  <2>4. FramesUnderway'
    <3>1. \A f \in InGate(gate') : f.era <= era
      BY <2>2, <2>3 DEF GateIInv, FramesUnderway, Underway, Alike
    <3>. QED
      BY <3>1, <1>2, <1>9 DEF GateIInv, FramesUnderway, Underway
  <2>5. NoFrameForgotten'
    <3>1. QueueFrame(gate, f1, graceOver).queue # {} =>
             \/ QueueFrame(gate, f1, graceOver).pending # Nothing
             \/ QueueFrame(gate, f1, graceOver).sequenceTimer
      BY <1>3, <2>2, TakeWakes
    <3>. QED
      BY <3>1, <2>1 DEF NoFrameForgotten
  <2>. QED
    BY <2>3, <2>4, <2>5, <1>2, <1>5, <1>8 DEF GateIInv
<1>. QED
  BY <1>10, <1>11

\* A frame is made.  Without a worker the gate takes it at once, as if it had been posted.
LEMMA QueueKeeps ==
    ASSUME GateIInv, NEW sequence \in 0..MaxSequence, QueueRenderFrame(sequence),
           sequence = 0 => lastDepthSequence = 0
    PROVE  GateIInv'
<1>. DEFINE m == NewFrame(configKey, sequence, TRUE)
<1>1. GateTyped
  BY DEF GateIInv
<1>2. /\ configKey # Nothing /\ turn < MaxTurn /\ turn' = turn + 1
      /\ lastDepthSequence' = sequence /\ newest' = sequence
      /\ jumbled' = (jumbled \/ sequence < lastDepthSequence)
      /\ IF worker
         THEN toWorker' = Append(toWorker, m) /\ UNCHANGED <<gate, overflowed>>
         ELSE /\ \E graceOver \in BOOLEAN : gate' = QueueFrame(gate, m, graceOver)
              /\ overflowed' = (overflowed \/ Overflows(gate, m))
              /\ UNCHANGED toWorker
      /\ UNCHANGED <<configKey, worker, fromWorker, era, released, shown>>
  BY DEF QueueRenderFrame
<1>3. configKey \in Key
  BY <1>1, <1>2 DEF GateTyped
<1>4. /\ m \in Frame /\ m.sequence = sequence /\ m.turn = turn + 1 /\ m.era = era
      /\ m.key = configKey /\ m.gated = TRUE
  BY <1>1, <1>2, <1>3, NewFrameFacts
<1>. HIDE DEF m
<1>5. /\ IsNext(NextFrame) /\ era \in Nat /\ era >= 1 /\ turn \in Nat /\ Epoch = era
      /\ NextFrame.sequence = lastDepthSequence /\ NextFrame.turn = turn + 1
      /\ NextFrame.era = era /\ lastDepthSequence \in Nat /\ sequence \in Nat
      /\ Tidy \in Nat
  BY <1>1, <1>2, NextFacts, BoundsArePositive
<1>6. /\ NextFrame'.sequence = sequence /\ NextFrame'.turn = turn + 2
      /\ NextFrame'.era = era /\ IsNext(NextFrame')
  <2>1. NextFrame' = [sequence |-> sequence, turn |-> (turn + 1) + 1, era |-> era]
    BY <1>2 DEF NextFrame, Epoch
  <2>. QED
    BY <2>1, <1>5 DEF IsNext
<1>7. Tidy' = 0 \/ (Tidy' = Tidy /\ (Tidy' = era => lastDepthSequence <= sequence))
  <2>1. CASE jumbled'
    BY <2>1 DEF Tidy
  <2>2. CASE ~jumbled'
    <3>1. ~jumbled /\ ~(sequence < lastDepthSequence)
      BY <2>2, <1>2
    <3>2. Tidy' = Tidy
      BY <3>1, <2>2, <1>2 DEF Tidy, Epoch
    <3>. QED
      BY <3>1, <3>2, <1>5
  <2>. QED
    BY <2>1, <2>2
<1>8. /\ toWorker \in Seq(Messages) /\ released \in Release \cup {Nothing}
      /\ GateInv(gate, Stream, Tidy) /\ ReleaseFirst(released, gate, Stream, Tidy)
      /\ GateOK(gate)
  BY <1>1 DEF GateIInv, GateTyped, GateInv
<1>. DEFINE p == Append(toWorker, m)
            w == Append(p, NextFrame')
<1>9. /\ Posted(Stream, w, Tidy, Tidy') /\ p \in Seq(Messages)
      /\ IsStream(w) /\ Tidy' \in Nat
  <2>1. m.turn < NextFrame'.turn
    BY <1>4, <1>5, <1>6
  <2>2. m.sequence = 0 => NextFrame.sequence = 0
    BY <1>4, <1>5
  <2>3. Tidy' = 0 \/ (Tidy' = Tidy /\ (Tidy' = NextFrame.era => NextFrame.sequence <= m.sequence))
    BY <1>4, <1>5, <1>7
  <2>4. Tidy' \in Nat
    BY <1>5, <1>7
  <2>5. NextFrame'.sequence = m.sequence /\ NextFrame'.era = NextFrame.era
        /\ m.turn = NextFrame.turn /\ m.era = NextFrame.era
    BY <1>4, <1>5, <1>6
  <2>6. toWorker \in Seq(Messages) /\ IsNext(NextFrame) /\ IsNext(NextFrame') /\ m \in Frame
    BY <1>4, <1>5, <1>6, <1>8
  <2>7. /\ Posted(Append(toWorker, NextFrame), Append(Append(toWorker, m), NextFrame'), Tidy, Tidy')
        /\ Append(toWorker, m) \in Seq(Messages)
        /\ IsStream(Append(Append(toWorker, m), NextFrame'))
    BY <2>1, <2>2, <2>3, <2>5, <2>6, PostedIs
  <2>. QED
    BY <2>4, <2>7 DEF Stream
<1>10. GateInv(gate, w, Tidy') /\ ReleaseFirst(released, gate, w, Tidy')
  <2>. HIDE DEF w
  <2>. QED
    BY <1>8, <1>9, PostKeeps
<1>11. turn' \in 0..MaxTurn /\ lastDepthSequence' \in 0..MaxSequence
  BY <1>1, <1>2, <1>5, BoundsArePositive
<1>12. /\ jumbled' \in BOOLEAN /\ overflowed' \in BOOLEAN
       /\ newest' \in 0..MaxSequence \cup {Nothing}
  <2>1. jumbled' \in BOOLEAN
    BY <1>2, Zenon
  <2>2. overflowed' \in BOOLEAN
    BY <1>1, <1>2, Zenon DEF GateTyped
  <2>. QED
    BY <2>1, <2>2, <1>2
<1>13. toWorker' \in Seq(Messages) /\ (~worker => toWorker' = <<>> /\ toWorker = <<>>)
  BY <1>1, <1>2, <1>9 DEF GateTyped
<1>14. GateTyped'
  BY <1>1, <1>2, <1>11, <1>12, <1>13 DEF GateTyped
<1>15. CASE worker
  <2>1. gate' = gate /\ Stream' = w
    BY <1>2, <1>15 DEF Stream
  <2>2. FramesUnderway'
    <3>1. ASSUME NEW i \in 1..Len(toWorker'), toWorker'[i] # Reset
          PROVE  toWorker'[i].era <= era
      <4>1. toWorker' = Append(toWorker, m) /\ Len(toWorker) \in Nat
        BY <1>2, <1>8, <1>15
      <4>2. toWorker'[i] = m \/ (i \in 1..Len(toWorker) /\ toWorker'[i] = toWorker[i])
        BY <4>1, <1>8
      <4>3. m.era <= era
        BY <1>4, <1>5
      <4>. QED
        BY <4>2, <4>3, <3>1 DEF GateIInv, FramesUnderway, Underway
    <3>. QED
      BY <3>1, <2>1, <1>2 DEF GateIInv, FramesUnderway, Underway
  <2>3. NoFrameForgotten'
    BY <2>1 DEF GateIInv, NoFrameForgotten
  <2>. QED
    BY <2>1, <2>2, <2>3, <1>2, <1>10, <1>14 DEF GateIInv
<1>16. CASE ~worker
  <2>1. PICK graceOver \in BOOLEAN : gate' = QueueFrame(gate, m, graceOver)
    BY <1>2, <1>16
  <2>2. Tail(p) = <<>> /\ Head(p) = m /\ p # <<>>
    <3>1. p = <<m>>
      BY <1>13, <1>16
    <3>. QED
      BY <3>1
  <2>3. Stream' = Append(Tail(p), NextFrame')
    BY <2>2, <1>2, <1>13, <1>16 DEF Stream
  <2>4. Taken(w, Stream') /\ w[1] = m /\ IsStream(Stream')
    <3>. HIDE DEF p
    <3>. QED
      BY <2>2, <2>3, <1>6, <1>9, TakenIs
  <2>5. m # Reset
    BY <1>4, FrameFacts
  <2>. HIDE DEF w, p
  <2>6. /\ GateInv(gate', Stream', Tidy') /\ ReleaseFirst(released, gate', Stream', Tidy')
        /\ \A f \in InGate(gate') :
              f \in InGate(gate) \cup {m} \/ (f \in Frame /\ Alike(f, m))
    BY <2>1, <2>4, <2>5, <1>8, <1>10, TakeKeeps
  <2>7. FramesUnderway'
    <3>1. \A f \in InGate(gate') : f.era <= era
      <4>1. m.era <= era
        BY <1>4, <1>5
      <4>. QED
        BY <4>1, <2>6 DEF GateIInv, FramesUnderway, Underway, Alike
    <3>2. Len(toWorker') = 0
      BY <1>13, <1>16
    <3>. QED
      BY <3>1, <3>2, <1>2 DEF GateIInv, FramesUnderway, Underway
  <2>8. NoFrameForgotten'
    <3>1. QueueFrame(gate, m, graceOver).queue # {} =>
             \/ QueueFrame(gate, m, graceOver).pending # Nothing
             \/ QueueFrame(gate, m, graceOver).sequenceTimer
      BY <1>4, <1>8, TakeWakes
    <3>. QED
      BY <3>1, <2>1 DEF NoFrameForgotten
  <2>. QED
    BY <2>6, <2>7, <2>8, <1>2, <1>14 DEF GateIInv
<1>. QED
  BY <1>15, <1>16

-----------------------------------------------------------------------------

LEMMA GateNextKeeps == GateIInv /\ [GateNext]_gateVars => GateIInv'
<1>. SUFFICES ASSUME GateIInv, [GateNext]_gateVars PROVE GateIInv'
  OBVIOUS
<1>1. ASSUME NEW k \in Key, ConnectFeed(k) PROVE GateIInv'
  BY <1>1, ConnectKeeps
<1>2. ASSUME NEW k \in Key, ConnectTimeframe(k) PROVE GateIInv'
  BY <1>2, TimeframeKeeps
<1>3. CASE DisconnectFeed
  BY <1>3, DisconnectKeeps
<1>4. CASE RefreshAnswers
  BY <1>4, RefreshKeeps
<1>5. CASE DepthFrame
  <2>1. PICK sequence \in 1..MaxSequence : QueueRenderFrame(sequence)
    BY <1>5 DEF DepthFrame
  <2>2. sequence \in 0..MaxSequence /\ sequence # 0
    BY BoundsArePositive
  <2>. QED
    BY <2>1, <2>2, QueueKeeps
<1>6. CASE DrainTradeRings
  <2>1. lastDepthSequence \in 0..MaxSequence
    BY DEF GateIInv, GateTyped
  <2>. QED
    BY <2>1, <1>6, QueueKeeps DEF DrainTradeRings
<1>7. CASE RenderTimerFires
  BY <1>7, RenderTimerKeeps
<1>8. CASE SequenceTimerFires
  BY <1>8, SequenceTimerKeeps
<1>9. CASE WorkerReceives
  BY <1>9, ReceivesKeeps
<1>10. CASE PageReceives
  BY <1>10, PageKeeps
<1>11. CASE WorkerFails
  BY <1>11, FailKeeps
<1>12. CASE UNCHANGED gateVars
  BY <1>12, StutterKeeps
<1>. QED
  BY <1>1, <1>2, <1>3, <1>4, <1>5, <1>6, <1>7, <1>8, <1>9, <1>10, <1>11, <1>12,
     FallsBackKeeps, FallbackKeeps, DepthKeeps DEF GateNext

LEMMA GateInductive == GateSpec => []GateIInv
BY GateInitHolds, GateNextKeeps, PTL DEF GateSpec

\* The bars and the refreshes that wait.
ChartTyped == bars \in BOOLEAN /\ refreshing \subseteq Key

LEMMA ChartTypedKept ==
    ASSUME GateIInv, ChartTyped, [GateNext]_gateVars
    PROVE  ChartTyped'
<1>1. configKey \in Key \cup {Nothing}
  BY DEF GateIInv, GateTyped
<1>2. bars' \in BOOLEAN
  <2>1. bars' = bars \/ bars' = TRUE \/ bars' = FALSE
    BY Zenon DEF GateNext, gateVars, chartVars, ConnectFeed, ConnectTimeframe, DisconnectFeed,
          GateCleared, RefreshAnswers, RefreshFallsBack, FallbackAnswers, DepthFrame,
          DepthWithoutFrame, DrainTradeRings, RenderTimerFires, SequenceTimerFires,
          WorkerReceives, PageReceives, WorkerFails
  <2>. QED
    BY <2>1, Zenon DEF ChartTyped
<1>3. \/ refreshing' = refreshing
      \/ configKey # Nothing /\ refreshing' = refreshing \cup {configKey}
      \/ \E k \in Key : refreshing' = refreshing \ {k}
  BY Zenon DEF GateNext, gateVars, chartVars, ConnectFeed, ConnectTimeframe, DisconnectFeed,
        GateCleared, RefreshAnswers, RefreshFallsBack, FallbackAnswers, DepthFrame,
        DepthWithoutFrame, DrainTradeRings, QueueRenderFrame, RenderTimerFires,
        SequenceTimerFires, WorkerReceives, PageReceives, WorkerFails
<1>4. refreshing' \subseteq Key
  BY <1>1, <1>3 DEF ChartTyped
<1>. QED
  BY <1>2, <1>4 DEF ChartTyped

LEMMA ChartTypedInvariant == GateSpec => []ChartTyped
<1>1. GateInit => ChartTyped
  BY DEF GateInit, ChartTyped
<1>2. GateIInv /\ ChartTyped /\ [GateNext]_gateVars => ChartTyped'
  BY ChartTypedKept
<1>. QED
  BY <1>1, <1>2, GateInductive, PTL DEF GateSpec

\* The gate keeps to its types, its queue to its depth with no sequence twice, and
\* what the guard expects is ahead of the highest sequence by the frames made at most.
THEOREM GateTypeCorrect == GateSpec => []GateTypeOK
<1>1. ASSUME GateIInv, ChartTyped PROVE GateTypeOK
  <2>1. GateTyped /\ GateOK(gate) /\ gate \in GateRecord
    BY <1>1 DEF GateIInv, GateInv, GateOK
  <2>2. gate.expected \in 0..(MaxSequence + MaxTurn + 1)
    <3>1. /\ IsStream(Stream) /\ Len(Stream) \in Nat /\ Stream[Len(Stream)] = NextFrame
          /\ turn \in Nat /\ NextFrame.turn = turn + 1
      <4>1. IsNext(NextFrame) /\ toWorker \in Seq(Messages)
        BY <2>1, NextFacts DEF GateTyped
      <4>. QED
        BY <4>1, <2>1, NextFacts, StreamOf DEF Stream
    <3>2. Len(Stream) \in Frames(Stream)
      BY <3>1 DEF Frames, IsStream
    <3>3. gate.expected <= MaxSequence + (turn + 1)
      BY <1>1, <3>1, <3>2 DEF GateIInv, GateInv, Expects
    <3>. QED
      BY <2>1, <3>1, <3>3, BoundsArePositive, SMTT(20) DEF GateTyped, GateRecord
  <2>3. gate.gap \in BOOLEAN /\ gate.renderTimer \in BOOLEAN /\ gate.sequenceTimer \in BOOLEAN
    BY <2>1 DEF GateRecord
  <2>. QED
    BY <2>1, <2>2, <2>3, <1>1 DEF GateTyped, GateOK, GateRecord, GateTypeOK, Messages, ChartTyped
<1>. QED
  BY <1>1, GateInductive, ChartTypedInvariant, PTL

\* A frame that waits in the queue has a pending frame before it or a timer set for it.
THEOREM NothingForgotten == GateSpec => []NoFrameForgotten
<1>1. GateIInv => NoFrameForgotten
  BY DEF GateIInv
<1>. QED
  BY <1>1, GateInductive, PTL

\* Within an era the gate releases higher and higher sequences.
THEOREM ReleasesInOrder == GateSpec => []ReleasedInOrder
<1>1. GateIInv => ReleasedInOrder
  BY DEF GateIInv, ReleaseFirst, InSequence, ReleasedInOrder
<1>. QED
  BY <1>1, GateInductive, PTL

-----------------------------------------------------------------------------
(* What the page draws.                                                    *)

\* The gate holds what it held, the new frame, or the pending frame with the content
\* of the new one.
LEMMA TakeFrames ==
    ASSUME NEW g, GateOK(g), NEW m \in Frame, NEW graceOver
    PROVE  \A f \in InGate(QueueFrame(g, m, graceOver)) :
              \/ f \in InGate(g) \cup {m}
              \/ /\ g.pending \in InGate(g) /\ f.turn = m.turn
                 /\ f.key = g.pending.key /\ f.era = g.pending.era
<1>. DEFINE q == QueueFrame(g, m, graceOver)
            e == Enqueue(g, m)
<1>1. g \in GateRecord /\ (g.pending # Nothing => g.pending \in Frame /\ g.pending \in InGate(g))
  BY GateFacts DEF GateOK
<1>2. CASE m.sequence = 0
  <2>. DEFINE p == IF g.pending # Nothing /\ g.pending.key = m.key
                   THEN [g.pending EXCEPT !.turn = m.turn] ELSE m
  <2>1. q = [g EXCEPT !.pending = p, !.renderTimer = TRUE]
    BY <1>2 DEF QueueFrame, QueueUnsequenced
  <2>2. p = m \/ (g.pending # Nothing /\ p.turn = m.turn /\ p.key = g.pending.key
                  /\ p.era = g.pending.era)
    <3>1. g.pending # Nothing => g.pending \in Frame
      BY <1>1
    <3>. QED
      BY <3>1 DEF Frame
  <2>. HIDE DEF p, q
  <2>3. q.queue = g.queue /\ q.pending = p
    BY <2>1, <1>1 DEF GateRecord
  <2>4. \A f \in InGate(q) : f \in g.queue \/ f = p
    BY <2>3 DEF InGate
  <2>5. g.queue \subseteq InGate(g)
    BY DEF InGate
  <2>. QED
    BY <2>2, <2>4, <2>5, <1>1 DEF q
<1>3. CASE m.sequence # 0
  <2>1. m.sequence > 0
    BY <1>3, FrameFacts
  <2>2. GateOK(e) /\ e.pending = g.pending /\ e.queue \subseteq g.queue \cup {m}
    BY <2>1, EnqueueFacts
  <2>3. q = Advance(e, graceOver)
    BY <1>3 DEF QueueFrame
  <2>. HIDE DEF e, q
  <2>4. /\ q.queue \subseteq e.queue
        /\ q.pending = e.pending \/ q.pending \in e.queue
    BY <2>2, <2>3, AdvanceFacts
  <2>5. InGate(q) \subseteq InGate(g) \cup {m}
    BY <2>2, <2>4 DEF InGate
  <2>. QED
    BY <2>5 DEF q
<1>. QED
  BY <1>2, <1>3

\* A poll, with or without the pending frame, adds no frame.
LEMMA WakeFrames ==
    ASSUME NEW g, GateOK(g), NEW graceOver
    PROVE  InGate(Advance([g EXCEPT !.sequenceTimer = FALSE], graceOver)) \subseteq InGate(g)
<1>. DEFINE h == [g EXCEPT !.sequenceTimer = FALSE]
<1>1. g \in GateRecord
  BY DEF GateOK
<1>2. h \in GateRecord /\ h.queue = g.queue /\ h.pending = g.pending
      /\ h.renderTimer = g.renderTimer
  BY <1>1 DEF GateRecord
<1>. HIDE DEF h
<1>3. GateOK(h)
  BY <1>1, <1>2 DEF GateOK
<1>4. /\ Advance(h, graceOver).queue \subseteq h.queue
      /\ \/ Advance(h, graceOver).pending = h.pending
         \/ Advance(h, graceOver).pending \in h.queue
  BY <1>3, AdvanceFacts
<1>5. InGate(Advance(h, graceOver)) \subseteq InGate(g)
  BY <1>2, <1>4 DEF InGate
<1>. QED
  BY <1>5 DEF h

LEMMA FlushFrames ==
    ASSUME NEW g, GateOK(g), NEW graceOver
    PROVE  InGate(Flushed(g, graceOver)) \subseteq g.queue
<1>. DEFINE h == [g EXCEPT !.pending = Nothing, !.renderTimer = FALSE]
<1>1. g \in GateRecord
  BY DEF GateOK
<1>2. h \in GateRecord /\ h.queue = g.queue /\ h.pending = Nothing /\ h.renderTimer = FALSE
  BY <1>1 DEF GateRecord
<1>3. Flushed(g, graceOver) = Advance(h, graceOver)
  BY DEF Flushed
<1>. HIDE DEF h
<1>4. GateOK(h)
  BY <1>1, <1>2 DEF GateOK
<1>5. /\ Advance(h, graceOver).queue \subseteq h.queue
      /\ \/ Advance(h, graceOver).pending = h.pending
         \/ Advance(h, graceOver).pending \in h.queue
  BY <1>4, AdvanceFacts
<1>. QED
  BY <1>2, <1>3, <1>5 DEF InGate

\* Without a worker the gate holds frames of the connected feed only.
OfFeed(f) == configKey # Nothing /\ f.key.feed = configKey.feed /\ f.era = era

PageFrames == ~worker => \A f \in InGate(gate) : OfFeed(f)

LEMMA PageFramesKept ==
    ASSUME GateIInv, PageFrames, [GateNext]_gateVars
    PROVE  PageFrames'
<1>1. GateTyped /\ GateOK(gate)
  BY DEF GateIInv, GateInv
<1>2. ASSUME gate' = EmptyGate PROVE PageFrames'
  BY <1>2, EmptyGateFacts DEF PageFrames
<1>3. ASSUME GateCleared, worker' = worker PROVE PageFrames'
  BY <1>2, <1>3 DEF GateCleared, PageFrames
<1>4. ASSUME UNCHANGED <<worker, gate, era>>, configKey' = configKey PROVE PageFrames'
  BY <1>4 DEF PageFrames, OfFeed
<1>5. ASSUME NEW k \in Key, ConnectFeed(k) PROVE PageFrames'
  BY <1>3, <1>5 DEF ConnectFeed
<1>6. ASSUME NEW k \in Key, ConnectTimeframe(k) PROVE PageFrames'
  <2>1. /\ configKey # Nothing /\ configKey.feed = k.feed /\ configKey' = k
        /\ UNCHANGED <<worker, gate, era>>
    BY <1>6 DEF ConnectTimeframe, PublishNow, PublishNothing
  <2>. QED
    BY <2>1, NothingIsNoKey DEF PageFrames, OfFeed
<1>7. CASE DisconnectFeed
  BY <1>3, <1>7 DEF DisconnectFeed
<1>8. CASE RefreshAnswers
  BY <1>4, <1>8 DEF RefreshAnswers, PublishNow
<1>9. ASSUME NEW sequence \in 0..MaxSequence, QueueRenderFrame(sequence) PROVE PageFrames'
  <2>. DEFINE m == NewFrame(configKey, sequence, TRUE)
  <2>1. /\ configKey # Nothing /\ turn < MaxTurn /\ configKey' = configKey
        /\ worker' = worker /\ era' = era
        /\ worker \/ \E graceOver \in BOOLEAN : gate' = QueueFrame(gate, m, graceOver)
    BY <1>9 DEF QueueRenderFrame
  <2>2. configKey \in Key
    BY <2>1, <1>1 DEF GateTyped
  <2>3. m \in Frame /\ OfFeed(m)
    <3>1. m \in Frame /\ m.key = configKey /\ m.era = era
      BY <2>1, <2>2, <1>1, NewFrameFacts
    <3>. QED
      BY <3>1, <2>1 DEF OfFeed
  <2>. HIDE DEF m
  <2>4. ASSUME ~worker, NEW f \in InGate(gate') PROVE OfFeed(f)
    <3>1. PICK graceOver \in BOOLEAN : gate' = QueueFrame(gate, m, graceOver)
      BY <2>1, <2>4
    <3>2. \/ f \in InGate(gate) \cup {m}
          \/ /\ gate.pending \in InGate(gate) /\ f.key = gate.pending.key
             /\ f.era = gate.pending.era
      BY <2>3, <2>4, <3>1, <1>1, TakeFrames
    <3>. QED
      BY <3>2, <2>3, <2>4 DEF PageFrames, OfFeed
  <2>. QED
    BY <2>1, <2>4 DEF PageFrames, OfFeed
<1>10. CASE DepthFrame
  <2>1. \A sequence \in 1..MaxSequence : sequence \in 0..MaxSequence
    BY BoundsArePositive
  <2>. QED
    BY <2>1, <1>9, <1>10 DEF DepthFrame
<1>11. CASE DrainTradeRings
  BY <1>1, <1>9, <1>11 DEF DrainTradeRings, GateTyped
<1>12. CASE RenderTimerFires
  <2>1. UNCHANGED <<configKey, worker, era>> /\ InGate(gate') \subseteq gate.queue
    BY <1>1, <1>12, FlushFrames DEF RenderTimerFires
  <2>2. gate.queue \subseteq InGate(gate)
    BY DEF InGate
  <2>. QED
    BY <2>1, <2>2 DEF PageFrames, OfFeed
<1>13. CASE SequenceTimerFires
  <2>1. UNCHANGED <<configKey, worker, era>> /\ InGate(gate') \subseteq InGate(gate)
    BY <1>1, <1>13, WakeFrames DEF SequenceTimerFires
  <2>. QED
    BY <2>1 DEF PageFrames, OfFeed
<1>14. CASE WorkerReceives
  BY <1>1, <1>14 DEF WorkerReceives, GateTyped, PageFrames
<1>15. CASE PageReceives
  BY <1>4, <1>15 DEF PageReceives
<1>16. CASE WorkerFails
  BY <1>2, <1>16 DEF WorkerFails
<1>17. CASE UNCHANGED gateVars
  BY <1>4, <1>17 DEF gateVars
<1>18. CASE RefreshFallsBack \/ DepthWithoutFrame
  BY <1>4, <1>18 DEF RefreshFallsBack, PublishNothing, DepthWithoutFrame
<1>19. ASSUME NEW k \in Key, FallbackAnswers(k) PROVE PageFrames'
  <2>1. configKey' = configKey /\ (PublishNow(k) \/ PublishNothing)
    BY <1>19 DEF FallbackAnswers
  <2>. QED
    BY <2>1, <1>4 DEF PublishNow, PublishNothing
<1>. QED
  BY <1>18, <1>19, <1>5, <1>6, <1>7, <1>8, <1>10, <1>11, <1>12, <1>13, <1>14, <1>15, <1>16, <1>17 DEF GateNext

LEMMA PageFramesInvariant == GateSpec => []PageFrames
<1>1. GateInit => PageFrames
  BY EmptyGateFacts DEF GateInit, PageFrames
<1>2. GateIInv /\ PageFrames /\ [GateNext]_gateVars => PageFrames'
  BY PageFramesKept
<1>. QED
  BY <1>1, <1>2, GateInductive, PTL DEF GateSpec

\* The steps that draw.
LEMMA DrawingSteps ==
    ASSUME GateIInv, [GateNext]_gateVars, shown' # shown
    PROVE  \/ /\ shown'.key = configKey' \/ shown'.key \in refreshing
              /\ shown'.era = era /\ shown'.turn = turn + 1
              /\ shown'.gated = FALSE /\ turn' = turn + 1
           \/ RenderTimerFires /\ ~worker /\ gate.pending # Nothing /\ shown' = gate.pending
           \/ /\ PageReceives /\ worker /\ fromWorker # <<>>
              /\ shown' = Head(fromWorker) /\ shown'.key = configKey
<1>1. GateTyped
  BY DEF GateIInv
<1>2. ASSUME NEW k \in Key, PublishNow(k)
      PROVE  /\ shown'.key = k /\ shown'.era = era /\ shown'.turn = turn + 1
             /\ shown'.gated = FALSE /\ turn' = turn + 1
  <2>1. 0 \in 0..MaxSequence /\ FALSE \in BOOLEAN
    BY BoundsArePositive
  <2>2. turn < MaxTurn /\ turn' = turn + 1 /\ shown' = NewFrame(k, 0, FALSE)
    BY <1>2 DEF PublishNow
  <2>. QED
    BY <2>1, <2>2, <1>1, NewFrameFacts, ZenonT(30)
<1>3. CASE RefreshAnswers
  BY <1>1, <1>2, <1>3 DEF RefreshAnswers, GateTyped
<1>4. ASSUME NEW k \in Key, ConnectTimeframe(k)
      PROVE  PublishNow(k) /\ configKey' = k
  BY <1>4 DEF ConnectTimeframe, PublishNothing
<1>9. ASSUME NEW k \in Key, FallbackAnswers(k)
      PROVE  PublishNow(k) /\ k \in refreshing
  BY <1>9 DEF FallbackAnswers, PublishNothing
<1>5. CASE RenderTimerFires
  BY <1>5 DEF RenderTimerFires
<1>6. CASE PageReceives
  BY <1>1, <1>6 DEF PageReceives, GateTyped
<1>7. ASSUME NEW k \in Key PROVE ~ConnectFeed(k)
  BY DEF ConnectFeed
<1>8. ~DisconnectFeed /\ ~DepthFrame /\ ~DrainTradeRings /\ ~SequenceTimerFires
      /\ ~WorkerReceives /\ ~WorkerFails /\ ~UNCHANGED gateVars
      /\ ~RefreshFallsBack /\ ~DepthWithoutFrame
  BY DEF RefreshFallsBack, PublishNothing, DepthWithoutFrame,
          DisconnectFeed, DepthFrame, DrainTradeRings, QueueRenderFrame, SequenceTimerFires,
         WorkerReceives, WorkerFails, gateVars
<1>. QED
  BY <1>2, <1>3, <1>4, <1>5, <1>6, <1>7, <1>8, <1>9 DEF GateNext

\* A frame of an earlier connection is drawn in the three ways the property names only:
\* through the page's gate after a switch of the timeframe, through the worker for a key
\* that was connected again, and at once from a refresh that was overtaken
\* (marketDataBus.ts:2069-2076).
THEOREM StraysTraced == GateSpec => StrayFramesAreTraced
<1>1. ASSUME GateIInv, PageFrames, [GateNext]_gateVars,
             shown' # shown, shown'.key # configKey' \/ shown'.era # era
      PROVE  \/ ~worker /\ configKey # Nothing /\ shown'.key.feed = configKey.feed
                /\ shown'.era = era
             \/ worker /\ shown'.key = configKey
             \/ ~shown'.gated /\ shown'.key \in refreshing
  <2>1. CASE /\ shown'.key = configKey' \/ shown'.key \in refreshing
             /\ shown'.era = era /\ shown'.gated = FALSE
    BY <2>1, <1>1
  <2>2. CASE ~worker /\ gate.pending # Nothing /\ shown' = gate.pending
    BY <2>2, <1>1 DEF PageFrames, OfFeed, InGate
  <2>. QED
    BY <2>1, <2>2, <1>1, DrawingSteps
<1>. QED
  BY <1>1, GateInductive, PageFramesInvariant, PTL DEF GateSpec, StrayFramesAreTraced

\* x has left the gate: it was made before what is still to come, and in an era without
\* disorder before all frames of the gate.  (n frames were made, q waits for the gate g.)
Earlier(x, n, q, g, t) ==
    /\ x.turn <= n
    /\ \A i \in 1..Len(q) : q[i] # Reset => x.turn < q[i].turn
    /\ \A f \in InGate(g) : f.era = t => x.turn < f.turn

Out(x) == Earlier(x, turn, toWorker, gate, Tidy)

OutsInOrder ==
    /\ \A i \in 1..Len(fromWorker) : Out(fromWorker[i]) /\ Underway(fromWorker[i])
    /\ \A i, j \in 1..Len(fromWorker) :
          i < j /\ fromWorker[j].era = Tidy => fromWorker[i].turn < fromWorker[j].turn
    /\ shown # Nothing => shown.turn <= turn
    /\ shown # Nothing /\ shown.gated =>
          /\ Out(shown)
          /\ \A i \in 1..Len(fromWorker) :
                fromWorker[i].era = Tidy => shown.turn < fromWorker[i].turn

\* What is in the gate and in the stream was made in this order.
LEMMA TurnFacts ==
    ASSUME GateIInv
    PROVE  /\ \A f \in InGate(gate) :
                 /\ f.turn \in Nat /\ f.turn <= turn /\ f.era \in Nat /\ f.era >= 1 /\ f.era <= era
                 /\ \A i \in 1..Len(toWorker) : toWorker[i] # Reset => f.turn < toWorker[i].turn
           /\ \A i \in 1..Len(toWorker) : toWorker[i] # Reset =>
                 /\ toWorker[i] \in Frame /\ toWorker[i].turn \in Nat /\ toWorker[i].turn <= turn
                 /\ \A j \in 1..Len(toWorker) :
                       i < j /\ toWorker[j] # Reset => toWorker[i].turn < toWorker[j].turn
           /\ gate.pending # Nothing => \A f \in gate.queue :
                 f.era = Tidy => gate.pending.turn < f.turn
<1>. DEFINE n == Len(toWorker)
<1>1. /\ IsStream(Stream) /\ n \in Nat /\ Len(Stream) = n + 1
      /\ \A i \in 1..n : Stream[i] = toWorker[i] /\ toWorker[i] \in Messages
      /\ Stream[n + 1] = NextFrame
  <2>1. IsNext(NextFrame) /\ toWorker \in Seq(Messages)
    BY NextFacts DEF GateIInv, GateTyped
  <2>. QED
    BY <2>1, StreamOf DEF Stream
<1>2. turn \in Nat /\ NextFrame.turn = turn + 1
  BY NextFacts DEF GateIInv
<1>3. GateOK(gate) /\ InLine(Stream, Tidy) /\ GateFirst(gate, Stream, Tidy) /\ GateTidy(gate, Tidy)
  BY DEF GateIInv, GateInv
<1>. HIDE DEF n
<1>4. n + 1 \in Frames(Stream) /\ \A i \in 1..n : toWorker[i] # Reset => i \in Frames(Stream)
  BY <1>1 DEF Frames
<1>5. ASSUME NEW f \in InGate(gate)
      PROVE  /\ f.turn \in Nat /\ f.turn <= turn /\ f.era \in Nat /\ f.era >= 1 /\ f.era <= era
             /\ \A i \in 1..n : toWorker[i] # Reset => f.turn < toWorker[i].turn
  <2>1. f.turn \in Nat /\ f.era \in Nat /\ f.era >= 1 /\ f.era <= era
    BY <1>3, GateFacts DEF GateIInv, FramesUnderway, Underway
  <2>2. \A j \in Frames(Stream) : 0 < j => f.turn < Stream[j].turn
    BY <1>3 DEF GateFirst, Ahead, Comes
  <2>3. f.turn < turn + 1
    BY <2>2, <1>1, <1>2, <1>4
  <2>. QED
    BY <2>1, <2>2, <2>3, <1>1, <1>2, <1>4
<1>6. ASSUME NEW i \in 1..n, toWorker[i] # Reset
      PROVE  /\ toWorker[i] \in Frame /\ toWorker[i].turn \in Nat /\ toWorker[i].turn <= turn
             /\ \A j \in 1..n : i < j /\ toWorker[j] # Reset => toWorker[i].turn < toWorker[j].turn
  <2>1. toWorker[i] \in Frame /\ toWorker[i].turn \in Nat
    BY <1>1, <1>6, FrameFacts DEF Messages
  <2>2. \A j \in Frames(Stream) : i < j => Stream[i].turn < Stream[j].turn
    BY <1>3, <1>4, <1>6 DEF InLine, Ahead, Comes
  <2>3. toWorker[i].turn < turn + 1
    <3>1. i < n + 1
      BY <1>1
    <3>. QED
      BY <3>1, <2>2, <1>1, <1>2, <1>4
  <2>. QED
    BY <2>1, <2>2, <2>3, <1>1, <1>2, <1>4
<1>7. gate.pending # Nothing => \A f \in gate.queue : f.era = Tidy => gate.pending.turn < f.turn
  BY <1>3 DEF GateTidy
<1>. QED
  BY <1>5, <1>6, <1>7 DEF n

\* A frame keeps its place while the frames that come into the gate and the stream were
\* made later than it.
LEMMA EarlierKept ==
    ASSUME NEW x, NEW n \in Nat, NEW q, NEW g, NEW t, Earlier(x, n, q, g, t), x.turn \in Nat,
           NEW m \in {n, n + 1}, NEW p, NEW h, NEW s,
           \A f \in InGate(h) :
              f.era = s => (f \in InGate(g) /\ f.era = t) \/ x.turn < f.turn,
           \A i \in 1..Len(p) : p[i] # Reset =>
              (\E j \in 1..Len(q) : q[j] = p[i]) \/ p[i].turn = n + 1
    PROVE  Earlier(x, m, p, h, s)
<1>1. x.turn <= n
  BY DEF Earlier
<1>2. x.turn <= m
  BY <1>1
<1>3. \A f \in InGate(h) : f.era = s => x.turn < f.turn
  BY DEF Earlier
<1>4. ASSUME NEW i \in 1..Len(p), p[i] # Reset PROVE x.turn < p[i].turn
  <2>1. CASE p[i].turn = n + 1
    BY <2>1, <1>1
  <2>2. ASSUME NEW j \in 1..Len(q), q[j] = p[i]
        PROVE  x.turn < p[i].turn
    BY <2>2, <1>4 DEF Earlier
  <2>. QED
    BY <2>1, <2>2, <1>4
<1>. QED
  BY <1>2, <1>3, <1>4 DEF Earlier

\* A step that releases nothing.  What comes into the gate was made after what has left it.
LEMMA OutsKept ==
    ASSUME GateIInv, OutsInOrder, fromWorker' = fromWorker,
           turn' \in {turn, turn + 1}, era' >= era, era' \in Nat,
           shown' = shown \/ (shown'.gated = FALSE /\ shown'.turn <= turn'),
           \A f \in InGate(gate') :
              f.era = Tidy' => \/ f \in InGate(gate) /\ f.era = Tidy
                               \/ \A x : Out(x) /\ x.turn \in Nat => x.turn < f.turn,
           \A i \in 1..Len(toWorker') : toWorker'[i] # Reset =>
              \/ \E j \in 1..Len(toWorker) : toWorker[j] = toWorker'[i]
              \/ toWorker'[i].turn = turn + 1,
           Tidy' \in {0, Tidy} \/ (Tidy' \in Nat /\ Tidy' > era)
    PROVE  OutsInOrder'
<1>1. /\ turn \in Nat /\ fromWorker \in Seq(Frame) /\ shown \in Frame \cup {Nothing}
      /\ era \in Nat
  BY NextFacts DEF GateIInv, GateTyped
<1>2. \A i \in 1..Len(fromWorker) :
         /\ fromWorker[i] \in Frame /\ fromWorker[i].turn \in Nat
         /\ fromWorker[i].era \in Nat /\ fromWorker[i].era >= 1
  BY <1>1, FrameFacts
<1>3. ASSUME NEW x, Out(x), x.turn \in Nat
      PROVE  Earlier(x, turn', toWorker', gate', Tidy')
  <2>1. \A f \in InGate(gate') :
           f.era = Tidy' => (f \in InGate(gate) /\ f.era = Tidy) \/ x.turn < f.turn
    BY <1>3
  <2>2. Earlier(x, turn, toWorker, gate, Tidy)
    BY <1>3 DEF Out
  <2>3. \A i \in 1..Len(toWorker') : toWorker'[i] # Reset =>
           (\E j \in 1..Len(toWorker) : toWorker[j] = toWorker'[i])
              \/ toWorker'[i].turn = turn + 1
    OBVIOUS
  <2>. DEFINE n == turn  m == turn'  q == toWorker  p == toWorker'  g == gate  h == gate'
              t == Tidy  s == Tidy'
  <2>4. /\ n \in Nat /\ m \in {n, n + 1} /\ Earlier(x, n, q, g, t)
        /\ \A f \in InGate(h) :
              f.era = s => (f \in InGate(g) /\ f.era = t) \/ x.turn < f.turn
        /\ \A i \in 1..Len(p) : p[i] # Reset =>
              (\E j \in 1..Len(q) : q[j] = p[i]) \/ p[i].turn = n + 1
    BY <2>1, <2>2, <2>3, <1>1
  <2>. HIDE DEF n, m, q, p, g, h, t, s
  <2>5. Earlier(x, m, p, h, s)
    BY <2>4, <1>3, EarlierKept
  <2>. QED
    BY <2>5 DEF m, p, h, s
<1>4. ASSUME NEW i \in 1..Len(fromWorker)
      PROVE  /\ Earlier(fromWorker[i], turn', toWorker', gate', Tidy')
             /\ fromWorker[i].era <= era'
             /\ fromWorker[i].era = Tidy' => fromWorker[i].era = Tidy
  <2>1. Out(fromWorker[i]) /\ fromWorker[i].era <= era /\ fromWorker[i].turn \in Nat
        /\ fromWorker[i].era \in Nat /\ fromWorker[i].era >= 1
    BY <1>2 DEF OutsInOrder, Underway
  <2>2. fromWorker[i].era <= era'
    BY <2>1, <1>1
  <2>3. fromWorker[i].era = Tidy' => fromWorker[i].era = Tidy
    BY <2>1, <1>1
  <2>. QED
    BY <2>1, <2>2, <2>3, <1>3
<1>5. ASSUME shown' = shown, shown # Nothing
      PROVE  /\ shown.turn <= turn' /\ shown.turn \in Nat
             /\ shown.gated => Earlier(shown, turn', toWorker', gate', Tidy')
  <2>1. shown.turn \in Nat /\ shown.turn <= turn
    BY <1>1, <1>5, FrameFacts DEF OutsInOrder
  <2>2. shown.gated => Out(shown)
    BY <1>5 DEF OutsInOrder
  <2>. QED
    BY <2>1, <2>2, <1>1, <1>3
<1>6. \A i, j \in 1..Len(fromWorker) :
         i < j /\ fromWorker[j].era = Tidy' => fromWorker[i].turn < fromWorker[j].turn
  BY <1>4 DEF OutsInOrder
<1>7. ASSUME shown' = shown, shown # Nothing, shown.gated,
             NEW i \in 1..Len(fromWorker), fromWorker[i].era = Tidy'
      PROVE  shown.turn < fromWorker[i].turn
  BY <1>4, <1>7 DEF OutsInOrder
<1>8. \A i \in 1..Len(fromWorker') :
         Earlier(fromWorker'[i], turn', toWorker', gate', Tidy') /\ fromWorker'[i].era <= era'
  BY <1>4
<1>9. shown' # Nothing => shown'.turn <= turn'
  BY <1>5
<1>10. shown' # Nothing /\ shown'.gated =>
         /\ Earlier(shown', turn', toWorker', gate', Tidy')
         /\ \A i \in 1..Len(fromWorker) :
               fromWorker[i].era = Tidy' => shown'.turn < fromWorker[i].turn
  BY <1>5, <1>7
<1>. QED
  BY <1>6, <1>8, <1>9, <1>10 DEF OutsInOrder, Out, Underway

\* A step that makes a frame or none, posts nothing and leaves the gate as it is.
LEMMA OutsKeptAside ==
    ASSUME GateIInv, OutsInOrder, UNCHANGED <<gate, toWorker, fromWorker, era>>,
           jumbled' = jumbled \/ jumbled' = TRUE,
           turn' \in {turn, turn + 1}, configKey = Nothing <=> configKey' = Nothing,
           shown' = shown \/ (shown'.gated = FALSE /\ shown'.turn <= turn')
    PROVE  OutsInOrder'
<1>1. Tidy' = Tidy \/ Tidy' = 0
  BY DEF Tidy, Epoch
<1>2. era \in Nat /\ \A f \in InGate(gate) : f.era \in Nat /\ f.era >= 1
  BY NextFacts, TurnFacts DEF GateIInv
<1>3. \A f \in InGate(gate') :
         f.era = Tidy' => \/ f \in InGate(gate) /\ f.era = Tidy
                          \/ \A x : Out(x) /\ x.turn \in Nat => x.turn < f.turn
  BY <1>1, <1>2
<1>4. \A i \in 1..Len(toWorker') : toWorker'[i] # Reset =>
         (\E j \in 1..Len(toWorker) : toWorker[j] = toWorker'[i]) \/ toWorker'[i].turn = turn + 1
  OBVIOUS
<1>5. era' >= era /\ era' \in Nat /\ Tidy' \in {0, Tidy}
  BY <1>1, <1>2
<1>. QED
  BY <1>3, <1>4, <1>5, OutsKept

\* The gate is cleared, or will be.
LEMMA OutsKeptCleared ==
    ASSUME GateIInv, OutsInOrder, GateCleared, era' >= era, Epoch' > era, era' \in Nat, Epoch' \in Nat,
           UNCHANGED <<fromWorker, turn, shown>>
    PROVE  OutsInOrder'
<1>1. Tidy' \in Nat /\ Tidy' > era /\ era \in Nat
  BY NextFacts DEF Tidy, GateCleared, GateIInv
<1>2. \A f \in InGate(gate') : f.era # Tidy'
  <2>1. CASE gate' = EmptyGate
    BY <2>1, EmptyGateFacts
  <2>2. CASE gate' = gate
    <3>1. \A f \in InGate(gate) : f.era \in Nat /\ f.era <= era
      BY TurnFacts
    <3>. QED
      BY <3>1, <2>2, <1>1
  <2>. QED
    BY <2>1, <2>2 DEF GateCleared
<1>3. ASSUME NEW i \in 1..Len(toWorker'), toWorker'[i] # Reset
      PROVE  \E j \in 1..Len(toWorker) : toWorker[j] = toWorker'[i]
  <2>1. toWorker \in Seq(Messages) /\ Reset \in Messages
    BY DEF GateIInv, GateTyped, Messages
  <2>2. CASE toWorker' = toWorker
    BY <2>2
  <2>3. CASE toWorker' = Append(toWorker, Reset)
    BY <2>1, <2>3, <1>3
  <2>. QED
    BY <2>2, <2>3 DEF GateCleared
<1>4. \A f \in InGate(gate') :
         f.era = Tidy' => \/ f \in InGate(gate) /\ f.era = Tidy
                          \/ \A x : Out(x) /\ x.turn \in Nat => x.turn < f.turn
  BY <1>2
<1>5. \A i \in 1..Len(toWorker') : toWorker'[i] # Reset =>
         (\E j \in 1..Len(toWorker) : toWorker[j] = toWorker'[i]) \/ toWorker'[i].turn = turn + 1
  BY <1>3
<1>. QED
  BY <1>1, <1>4, <1>5, OutsKept

\* The gate loses frames at most.
LEMMA OutsKeptPolled ==
    ASSUME GateIInv, OutsInOrder, InGate(gate') \subseteq InGate(gate),
           UNCHANGED <<configKey, toWorker, fromWorker, turn, era, shown, jumbled>>
    PROVE  OutsInOrder'
<1>1. Tidy' = Tidy /\ era \in Nat
  BY NextFacts DEF Tidy, Epoch, GateIInv
<1>2. \A f \in InGate(gate') :
         f.era = Tidy' => \/ f \in InGate(gate) /\ f.era = Tidy
                          \/ \A x : Out(x) /\ x.turn \in Nat => x.turn < f.turn
  BY <1>1
<1>3. \A i \in 1..Len(toWorker') : toWorker'[i] # Reset =>
         (\E j \in 1..Len(toWorker) : toWorker[j] = toWorker'[i]) \/ toWorker'[i].turn = turn + 1
  OBVIOUS
<1>4. era' >= era /\ era' \in Nat /\ Tidy' \in {0, Tidy} /\ turn' \in {turn, turn + 1}
  BY <1>1
<1>. QED
  BY <1>2, <1>3, <1>4, OutsKept

\* A frame comes into the gate, from the worker's messages or as it is made.
LEMMA OutsKeptTaking ==
    ASSUME GateIInv, OutsInOrder, NEW m \in Frame, NEW graceOver, gate' = QueueFrame(gate, m, graceOver),
           \A x : Out(x) /\ x.turn \in Nat => x.turn < m.turn,
           \A i \in 1..Len(toWorker') : \E j \in 1..Len(toWorker) : toWorker[j] = toWorker'[i],
           turn' \in {turn, turn + 1}, Tidy' \in {0, Tidy}, UNCHANGED <<fromWorker, era, shown>>
    PROVE  OutsInOrder'
<1>1. GateOK(gate) /\ era \in Nat /\ Tidy \in Nat
  BY NextFacts DEF GateIInv, GateInv
<1>2. \A f \in InGate(gate) : f.era \in Nat /\ f.era >= 1
  BY <1>1, GateFacts
<1>3. ASSUME NEW f \in InGate(gate'), f.era = Tidy'
      PROVE  \/ f \in InGate(gate) /\ f.era = Tidy
             \/ \A x : Out(x) /\ x.turn \in Nat => x.turn < f.turn
  <2>1. \/ f \in InGate(gate) \cup {m}
        \/ f.turn = m.turn
    BY <1>1, <1>3, TakeFrames
  <2>2. f \in InGate(gate) => f.era = Tidy
    BY <1>2, <1>3
  <2>. QED
    BY <2>1, <2>2
<1>4. era' >= era /\ era' \in Nat
  BY <1>1
<1>. QED
  BY <1>3, <1>4, OutsKept

LEMMA OutsKeptByFrames ==
    ASSUME GateIInv, OutsInOrder, NEW sequence \in 0..MaxSequence, QueueRenderFrame(sequence)
    PROVE  OutsInOrder'
<1>. DEFINE m == NewFrame(configKey, sequence, TRUE)
<1>1. /\ configKey # Nothing /\ turn < MaxTurn /\ turn' = turn + 1
      /\ jumbled' = (jumbled \/ sequence < lastDepthSequence)
      /\ IF worker
         THEN toWorker' = Append(toWorker, m) /\ gate' = gate
         ELSE /\ \E graceOver \in BOOLEAN : gate' = QueueFrame(gate, m, graceOver)
              /\ toWorker' = toWorker
      /\ UNCHANGED <<configKey, fromWorker, era, shown>>
  BY DEF QueueRenderFrame
<1>2. GateTyped /\ configKey \in Key
  BY <1>1 DEF GateIInv, GateTyped
<1>3. m \in Frame /\ m.turn = turn + 1
  BY <1>1, <1>2, NewFrameFacts
<1>. HIDE DEF m
<1>4. Tidy' \in {0, Tidy}
  BY <1>1 DEF Tidy, Epoch
<1>5. turn \in Nat /\ era \in Nat /\ Tidy \in Nat /\ toWorker \in Seq(Messages)
  BY <1>2, NextFacts DEF GateTyped
<1>6. CASE worker
  <2>1. \A f \in InGate(gate') :
           f.era = Tidy' => \/ f \in InGate(gate) /\ f.era = Tidy
                            \/ \A x : Out(x) /\ x.turn \in Nat => x.turn < f.turn
    <3>1. \A f \in InGate(gate) : f.era \in Nat /\ f.era >= 1
      BY TurnFacts
    <3>. QED
      BY <3>1, <1>1, <1>4, <1>6
  <2>2. ASSUME NEW i \in 1..Len(toWorker')
        PROVE  (\E j \in 1..Len(toWorker) : toWorker[j] = toWorker'[i]) \/ toWorker'[i].turn = turn + 1
    <3>1. toWorker' = Append(toWorker, m) /\ m \in Messages
      BY <1>1, <1>3, <1>6 DEF Messages
    <3>. QED
      BY <3>1, <1>3, <1>5
  <2>3. era' >= era /\ era' \in Nat
    BY <1>1, <1>5
  <2>. QED
    BY <2>1, <2>2, <2>3, <1>1, <1>4, OutsKept
<1>7. CASE ~worker
  <2>1. PICK graceOver \in BOOLEAN : gate' = QueueFrame(gate, m, graceOver)
    BY <1>1, <1>7
  <2>2. \A x : Out(x) /\ x.turn \in Nat => x.turn < m.turn
    BY <1>3, <1>5 DEF Out, Earlier
  <2>3. \A i \in 1..Len(toWorker') : \E j \in 1..Len(toWorker) : toWorker[j] = toWorker'[i]
    BY <1>1, <1>7
  <2>. QED
    BY <2>1, <2>2, <2>3, <1>1, <1>3, <1>4, OutsKeptTaking
<1>. QED
  BY <1>6, <1>7

LEMMA OutsKeptByWorker ==
    ASSUME GateIInv, OutsInOrder, WorkerReceives
    PROVE  OutsInOrder'
<1>1. /\ toWorker # <<>> /\ toWorker' = Tail(toWorker)
      /\ UNCHANGED <<configKey, fromWorker, turn, era, shown, jumbled>>
  BY DEF WorkerReceives
<1>2. toWorker \in Seq(Messages) /\ era \in Nat
  BY NextFacts DEF GateIInv, GateTyped
<1>3. /\ Len(toWorker) \in Nat /\ Head(toWorker) = toWorker[1] /\ 1 \in 1..Len(toWorker)
      /\ \A i \in 1..Len(toWorker') : i + 1 \in 1..Len(toWorker) /\ toWorker'[i] = toWorker[i + 1]
  BY <1>1, <1>2
<1>4. \A i \in 1..Len(toWorker') : \E j \in 1..Len(toWorker) : toWorker[j] = toWorker'[i]
  BY <1>3
<1>5. Tidy' = Tidy
  BY <1>1 DEF Tidy, Epoch
<1>6. CASE Head(toWorker) = Reset
  <2>1. InGate(gate') = {}
    BY <1>6, EmptyGateFacts DEF WorkerReceives
  <2>2. era' >= era /\ era' \in Nat /\ turn' \in {turn, turn + 1} /\ Tidy' \in {0, Tidy}
    BY <1>1, <1>2, <1>5
  <2>. QED
    BY <2>1, <2>2, <1>1, <1>4, OutsKept
<1>7. CASE Head(toWorker) # Reset
  <2>. DEFINE m == Head(toWorker)
  <2>1. PICK graceOver \in BOOLEAN : gate' = QueueFrame(gate, m, graceOver)
    BY <1>7 DEF WorkerReceives
  <2>2. m \in Frame
    BY <1>3, <1>7, TurnFacts
  <2>3. \A x : Out(x) /\ x.turn \in Nat => x.turn < m.turn
    BY <1>3, <1>7 DEF Out, Earlier
  <2>. HIDE DEF m
  <2>. QED
    BY <2>1, <2>2, <2>3, <1>1, <1>4, <1>5, OutsKeptTaking
<1>. QED
  BY <1>6, <1>7

LEMMA OutsKeptByRelease ==
    ASSUME GateIInv, OutsInOrder, RenderTimerFires
    PROVE  OutsInOrder'
<1>. DEFINE x == gate.pending
            n == Len(fromWorker)
<1>1. /\ x # Nothing
      /\ IF worker
         THEN fromWorker' = Append(fromWorker, x) /\ shown' = shown
         ELSE shown' = x /\ fromWorker' = fromWorker
      /\ UNCHANGED <<configKey, toWorker, turn, era, jumbled>>
  BY DEF RenderTimerFires
<1>2. Tidy' = Tidy
  BY <1>1 DEF Tidy, Epoch
<1>3. GateOK(gate) /\ fromWorker \in Seq(Frame) /\ (~worker => fromWorker = <<>>)
  BY DEF GateIInv, GateInv, GateTyped
<1>4. gate.queue \subseteq InGate(gate) /\ x \in InGate(gate) /\ x \in Frame
  BY <1>1, <1>3, GateFacts
<1>5. InGate(gate') \subseteq gate.queue
  BY <1>3, FlushFrames DEF RenderTimerFires
<1>6. ASSUME NEW y, Out(y) PROVE /\ Earlier(y, turn', toWorker', gate', Tidy')
                                 /\ x.era = Tidy => y.turn < x.turn
  BY <1>1, <1>2, <1>4, <1>5, <1>6 DEF Out, Earlier
<1>7. Earlier(x, turn', toWorker', gate', Tidy') /\ x.era <= era /\ x.turn <= turn
  <2>1. /\ x.turn <= turn /\ x.era <= era
        /\ \A i \in 1..Len(toWorker) : toWorker[i] # Reset => x.turn < toWorker[i].turn
        /\ \A f \in gate.queue : f.era = Tidy => x.turn < f.turn
    BY <1>1, <1>4, TurnFacts
  <2>. QED
    BY <2>1, <1>1, <1>2, <1>5 DEF Earlier
<1>. HIDE DEF x
<1>8. CASE worker
  <2>1. /\ n \in Nat /\ Len(fromWorker') = n + 1 /\ fromWorker'[n + 1] = x
        /\ \A i \in 1..n : fromWorker'[i] = fromWorker[i]
    BY <1>1, <1>3, <1>8
  <2>. HIDE DEF n
  <2>2. ASSUME NEW i \in 1..(n + 1)
        PROVE  Earlier(fromWorker'[i], turn', toWorker', gate', Tidy') /\ fromWorker'[i].era <= era
    <3>1. CASE i = n + 1
      BY <3>1, <2>1, <1>7
    <3>2. CASE i \in 1..n
      BY <3>2, <2>1, <1>6 DEF OutsInOrder, Underway, n
    <3>. QED
      BY <3>1, <3>2, <2>1
  <2>3. ASSUME NEW i \in 1..(n + 1), NEW j \in 1..(n + 1), i < j, fromWorker'[j].era = Tidy
        PROVE  fromWorker'[i].turn < fromWorker'[j].turn
    <3>1. i \in 1..n
      BY <2>1, <2>3
    <3>2. CASE j = n + 1
      BY <3>1, <3>2, <2>1, <2>3, <1>6 DEF OutsInOrder, n
    <3>3. CASE j \in 1..n
      BY <3>1, <3>3, <2>1, <2>3 DEF OutsInOrder, n
    <3>. QED
      BY <3>2, <3>3, <2>1
  <2>4. shown # Nothing => shown.turn <= turn
    BY DEF OutsInOrder
  <2>5. ASSUME shown # Nothing, shown.gated
        PROVE  /\ Earlier(shown, turn', toWorker', gate', Tidy')
               /\ \A i \in 1..(n + 1) : fromWorker'[i].era = Tidy => shown.turn < fromWorker'[i].turn
    <3>1. Out(shown)
      BY <2>5 DEF OutsInOrder
    <3>2. \A i \in 1..n : fromWorker[i].era = Tidy => shown.turn < fromWorker[i].turn
      BY <2>5 DEF OutsInOrder, n
    <3>3. ASSUME NEW i \in 1..(n + 1), fromWorker'[i].era = Tidy PROVE shown.turn < fromWorker'[i].turn
      <4>1. CASE i = n + 1
        BY <4>1, <3>1, <3>3, <2>1, <1>6
      <4>2. CASE i \in 1..n
        BY <4>2, <3>2, <3>3, <2>1
      <4>. QED
        BY <4>1, <4>2, <2>1
    <3>. QED
      BY <3>1, <3>3, <1>6
  <2>. QED
    BY <2>1, <2>2, <2>3, <2>4, <2>5, <1>1, <1>2, <1>8 DEF OutsInOrder, Out, Underway
<1>9. CASE ~worker
  <2>1. shown' = x /\ Len(fromWorker') = 0
    BY <1>1, <1>3, <1>9
  <2>. QED
    BY <2>1, <1>1, <1>7 DEF OutsInOrder, Out, Underway
<1>. QED
  BY <1>8, <1>9

LEMMA OutsKeptByPage ==
    ASSUME GateIInv, OutsInOrder, PageReceives
    PROVE  OutsInOrder'
<1>. DEFINE x == Head(fromWorker)
            n == Len(fromWorker')
<1>1. /\ fromWorker # <<>> /\ fromWorker' = Tail(fromWorker)
      /\ shown' = x \/ shown' = shown
      /\ UNCHANGED <<configKey, gate, toWorker, turn, era, jumbled>>
  BY DEF PageReceives
<1>2. Tidy' = Tidy
  BY <1>1 DEF Tidy, Epoch
<1>3. fromWorker \in Seq(Frame)
  BY DEF GateIInv, GateTyped
<1>4. /\ n \in Nat /\ Len(fromWorker) = n + 1 /\ x = fromWorker[1]
      /\ \A i \in 1..n : fromWorker'[i] = fromWorker[i + 1]
  BY <1>1, <1>3
<1>. HIDE DEF x, n
<1>5. /\ 1 \in 1..Len(fromWorker)
      /\ \A i \in 1..n : i + 1 \in 1..Len(fromWorker) /\ 1 < i + 1
  BY <1>4
<1>6. ASSUME NEW y, Out(y) PROVE Earlier(y, turn', toWorker', gate', Tidy')
  BY <1>1, <1>2, <1>6 DEF Out
<1>7. \A i \in 1..n : /\ Earlier(fromWorker'[i], turn', toWorker', gate', Tidy')
                      /\ fromWorker'[i].era <= era
  <2>1. ASSUME NEW i \in 1..n PROVE Out(fromWorker[i + 1]) /\ fromWorker[i + 1].era <= era
    BY <1>5 DEF OutsInOrder, Underway
  <2>. QED
    BY <2>1, <1>4, <1>6
<1>8. ASSUME NEW i \in 1..n, NEW j \in 1..n, i < j, fromWorker'[j].era = Tidy
      PROVE  fromWorker'[i].turn < fromWorker'[j].turn
  <2>1. i + 1 < j + 1
    BY <1>8
  <2>. QED
    BY <2>1, <1>4, <1>5, <1>8 DEF OutsInOrder
<1>9. CASE shown' = x
  <2>1. Out(x)
    BY <1>4, <1>5 DEF OutsInOrder
  <2>2. Earlier(x, turn', toWorker', gate', Tidy') /\ x.turn <= turn
    BY <2>1, <1>6 DEF Out, Earlier
  <2>3. \A i \in 1..n : fromWorker'[i].era = Tidy => x.turn < fromWorker'[i].turn
    BY <1>4, <1>5 DEF OutsInOrder
  <2>. QED
    BY <2>2, <2>3, <1>1, <1>2, <1>7, <1>8, <1>9 DEF OutsInOrder, Out, Underway, n
<1>10. CASE shown' = shown
  <2>1. shown # Nothing => shown.turn <= turn
    BY DEF OutsInOrder
  <2>2. ASSUME shown # Nothing, shown.gated
        PROVE  /\ Earlier(shown, turn', toWorker', gate', Tidy')
               /\ \A i \in 1..n : fromWorker'[i].era = Tidy => shown.turn < fromWorker'[i].turn
    BY <2>2, <1>4, <1>5, <1>6 DEF OutsInOrder
  <2>. QED
    BY <2>1, <2>2, <1>1, <1>2, <1>7, <1>8, <1>10 DEF OutsInOrder, Out, Underway, n
<1>. QED
  BY <1>1, <1>9, <1>10

LEMMA OutsKeptByFailure ==
    ASSUME GateIInv, OutsInOrder, WorkerFails
    PROVE  OutsInOrder'
<1>1. /\ gate' = EmptyGate /\ toWorker' = <<>> /\ fromWorker' = <<>>
      /\ UNCHANGED <<turn, shown>>
  BY DEF WorkerFails
<1>2. InGate(gate') = {} /\ Len(toWorker') = 0 /\ Len(fromWorker') = 0
  BY <1>1, EmptyGateFacts
<1>3. shown # Nothing => shown.turn <= turn
  BY DEF OutsInOrder
<1>. QED
  BY <1>1, <1>2, <1>3 DEF OutsInOrder, Out, Earlier

LEMMA OutsKeptByNext == GateIInv /\ OutsInOrder /\ [GateNext]_gateVars => OutsInOrder'
<1>. SUFFICES ASSUME GateIInv, OutsInOrder, [GateNext]_gateVars PROVE OutsInOrder'
  OBVIOUS
<1>1. GateTyped /\ GateOK(gate) /\ era \in Nat /\ turn \in Nat
  BY NextFacts DEF GateIInv, GateInv
<1>2. ASSUME NEW k \in Key, ConnectFeed(k) PROVE OutsInOrder'
  <2>1. /\ configKey' = k /\ era' = era + 1 /\ GateCleared
        /\ UNCHANGED <<fromWorker, turn, shown>>
    BY <1>2 DEF ConnectFeed
  <2>2. Epoch' = era + 1
    BY <2>1, NothingIsNoKey DEF Epoch
  <2>3. era' >= era /\ Epoch' > era /\ era' \in Nat /\ Epoch' \in Nat
    BY <2>1, <2>2, <1>1
  <2>. QED
    BY <2>1, <2>3, OutsKeptCleared
<1>3. CASE DisconnectFeed
  <2>1. /\ configKey' = Nothing /\ era' = era /\ GateCleared
        /\ UNCHANGED <<fromWorker, turn, shown>>
    BY <1>3 DEF DisconnectFeed
  <2>2. Epoch' = era + 1
    BY <2>1 DEF Epoch
  <2>3. era' >= era /\ Epoch' > era /\ era' \in Nat /\ Epoch' \in Nat
    BY <2>1, <2>2, <1>1
  <2>. QED
    BY <2>1, <2>3, OutsKeptCleared
<1>4. ASSUME NEW k \in Key, PublishNow(k), configKey = Nothing <=> configKey' = Nothing
      PROVE  OutsInOrder'
  <2>1. /\ turn < MaxTurn /\ turn' = turn + 1 /\ shown' = NewFrame(k, 0, FALSE)
        /\ UNCHANGED <<gate, toWorker, fromWorker, era, jumbled>>
    BY <1>4 DEF PublishNow
  <2>2. 0 \in 0..MaxSequence /\ FALSE \in BOOLEAN
    BY BoundsArePositive
  <2>3. shown'.gated = FALSE /\ shown'.turn = turn + 1
    BY <2>1, <2>2, <1>1, NewFrameFacts, ZenonT(30)
  <2>4. shown'.turn <= turn'
    <3>1. turn' = turn + 1 /\ turn + 1 <= turn + 1
      BY <2>1, <1>1
    <3>. QED
      BY <2>3, <3>1
  <2>. QED
    BY <2>1, <2>3, <2>4, <1>4, OutsKeptAside
<1>5. CASE RefreshAnswers
  <2>1. configKey \in Key /\ configKey' = configKey /\ PublishNow(configKey)
    BY <1>1, <1>5 DEF GateTyped, RefreshAnswers
  <2>. QED
    BY <2>1, <1>4, NothingIsNoKey
<1>6. ASSUME NEW k \in Key, ConnectTimeframe(k) PROVE OutsInOrder'
  <2>1. configKey # Nothing /\ configKey' = k
    BY <1>6 DEF ConnectTimeframe
  <2>2. CASE PublishNow(k)
    BY <2>1, <2>2, <1>4, NothingIsNoKey
  <2>3. CASE PublishNothing
    BY <2>1, <2>3, OutsKeptAside, NothingIsNoKey DEF PublishNothing
  <2>. QED
    BY <1>6, <2>2, <2>3 DEF ConnectTimeframe
<1>7. CASE DepthFrame
  <2>1. \A sequence \in 1..MaxSequence : sequence \in 0..MaxSequence
    BY BoundsArePositive
  <2>. QED
    BY <2>1, <1>7, OutsKeptByFrames DEF DepthFrame
<1>8. CASE DrainTradeRings
  BY <1>1, <1>8, OutsKeptByFrames DEF DrainTradeRings, GateTyped
<1>9. CASE SequenceTimerFires
  <2>1. InGate(gate') \subseteq InGate(gate)
    BY <1>1, <1>9, WakeFrames DEF SequenceTimerFires
  <2>. QED
    BY <2>1, <1>9, OutsKeptPolled DEF SequenceTimerFires
<1>10. CASE UNCHANGED gateVars
  BY <1>10, OutsKeptAside DEF gateVars
<1>11. CASE RefreshFallsBack
  BY <1>11, OutsKeptAside DEF RefreshFallsBack, PublishNothing
<1>12. ASSUME NEW k \in Key, FallbackAnswers(k) PROVE OutsInOrder'
  <2>1. configKey' = configKey /\ (PublishNow(k) \/ PublishNothing)
    BY <1>12 DEF FallbackAnswers
  <2>2. CASE PublishNow(k)
    BY <2>1, <2>2, <1>4
  <2>3. CASE PublishNothing
    BY <2>1, <2>3, OutsKeptAside DEF PublishNothing
  <2>. QED
    BY <2>1, <2>2, <2>3
<1>13. CASE DepthWithoutFrame
  <2>1. /\ UNCHANGED <<configKey, gate, toWorker, fromWorker, era, shown>>
        /\ turn' = turn + 1
    BY <1>13 DEF DepthWithoutFrame
  <2>2. jumbled' = jumbled \/ jumbled' = TRUE
    <3>1. PICK sequence \in 1..MaxSequence :
             jumbled' = (jumbled \/ sequence < lastDepthSequence)
      BY <1>13 DEF DepthWithoutFrame
    <3>2. jumbled \in BOOLEAN
      BY <1>1 DEF GateTyped
    <3>. QED
      BY <3>1, <3>2, Zenon
  <2>. QED
    BY <2>1, <2>2, OutsKeptAside
<1>. QED
  BY <1>2, <1>3, <1>5, <1>6, <1>7, <1>8, <1>9, <1>10, <1>11, <1>12, <1>13, OutsKeptByRelease, OutsKeptByPage,
     OutsKeptByWorker, OutsKeptByFailure DEF GateNext

LEMMA OutsInvariant == GateSpec => []OutsInOrder
<1>1. GateInit => OutsInOrder
  <2>. SUFFICES ASSUME GateInit PROVE OutsInOrder
    OBVIOUS
  <2>1. Len(fromWorker) = 0 /\ shown = Nothing
    BY DEF GateInit
  <2>. QED
    BY <2>1 DEF OutsInOrder
<1>2. GateIInv /\ OutsInOrder /\ [GateNext]_gateVars => OutsInOrder'
  BY OutsKeptByNext
<1>. QED
  BY <1>1, <1>2, GateInductive, PTL DEF GateSpec

\* The chart goes back to an older frame of its era in the two ways the property names only.
THEOREM GoingBackTraced == GateSpec => GoingBackIsTraced
<1>1. ASSUME GateIInv, PageFrames, OutsInOrder, [GateNext]_gateVars,
             shown # Nothing, shown'.turn < shown.turn, shown'.era = era,
             ~jumbled, shown.gated
      PROVE  FALSE
  <2>1. /\ turn \in Nat /\ (configKey # Nothing => Epoch = era)
        /\ shown.turn \in Nat /\ shown.turn <= turn /\ fromWorker \in Seq(Frame)
    <3>1. shown \in Frame /\ fromWorker \in Seq(Frame)
      BY <1>1 DEF GateIInv, GateTyped
    <3>. QED
      BY <3>1, <1>1, NextFacts, FrameFacts DEF GateIInv, OutsInOrder
  <2>2. Out(shown)
    BY <1>1 DEF OutsInOrder
  <2>3. shown' # shown
    BY <1>1, <2>1
  <2>4. shown'.turn # turn + 1
    BY <1>1, <2>1
  <2>5. configKey # Nothing => Tidy = era
    BY <1>1, <2>1 DEF Tidy
  <2>6. CASE ~worker /\ gate.pending # Nothing /\ shown' = gate.pending
    <3>1. gate.pending \in InGate(gate)
      BY <2>6 DEF InGate
    <3>2. configKey # Nothing
      BY <3>1, <2>6, <1>1 DEF PageFrames, OfFeed
    <3>3. shown.turn < gate.pending.turn /\ gate.pending.turn \in Nat
      BY <3>1, <3>2, <2>2, <2>5, <2>6, <1>1, TurnFacts DEF Out, Earlier
    <3>. QED
      BY <3>3, <2>1, <2>6, <1>1
  <2>7. CASE fromWorker # <<>> /\ shown' = Head(fromWorker) /\ shown'.key = configKey
    <3>1. /\ Head(fromWorker) \in Frame /\ Head(fromWorker) = fromWorker[1]
          /\ 1 \in 1..Len(fromWorker)
      BY <2>1, <2>7
    <3>2. configKey # Nothing
      BY <3>1, <2>7, NothingIsNoKey, FrameFacts
    <3>3. shown.turn < Head(fromWorker).turn /\ Head(fromWorker).turn \in Nat
      BY <3>1, <3>2, <2>5, <2>7, <1>1, FrameFacts DEF OutsInOrder
    <3>. QED
      BY <3>3, <2>1, <2>7, <1>1
  <2>. QED
    BY <2>3, <2>4, <2>6, <2>7, <1>1, DrawingSteps
<1>2. GateIInv /\ PageFrames /\ OutsInOrder /\ [GateNext]_gateVars =>
         (shown # Nothing /\ shown'.turn < shown.turn /\ shown'.era = era
             => jumbled \/ ~shown.gated)
  BY <1>1
<1>. QED
  BY <1>2, GateInductive, PageFramesInvariant, OutsInvariant, PTL DEF GateSpec, GoingBackIsTraced

-----------------------------------------------------------------------------
(* The newest frame gets through.                                          *)

\* What the guard expects is led by a frame of the gate or by the last release of era e.
Led(g, r, e) ==
    g.expected > 0 => \/ Leads(g, g.expected)
                      \/ r # Nothing /\ r.era = e /\ r.sequence + 1 >= g.expected

\* A frame that waits, or the last release of era e, is of sequence n or higher.
Covered(g, r, e, n) ==
    \/ \E f \in InGate(g) : f.sequence >= n
    \/ r # Nothing /\ r.era = e /\ r.sequence >= n

LEMMA PollCovers ==
    ASSUME NEW g, GateOK(g), NEW graceOver, NEW r \in Release \cup {Nothing}, NEW e, Led(g, r, e)
    PROVE  LET a == Advance(g, graceOver)
           IN  /\ Led(a, r, e)
               /\ \A n \in Nat : Covered(g, r, e, n) => Covered(a, r, e, n)
<1>. DEFINE a == Advance(g, graceOver)
<1>1. /\ GateOK(a) /\ a.expected >= g.expected
      /\ g.pending # Nothing => a = g
      /\ \A f \in g.queue : f \in a.queue \/ f = a.pending \/ f.sequence < a.expected
      /\ a.expected = g.expected \/ Leads(a, a.expected)
      /\ Leads(g, g.expected) => Leads(a, a.expected)
  BY AdvanceFacts
<1>. HIDE DEF a
<1>2. Led(a, r, e)
  BY <1>1 DEF Led
<1>3. /\ g.queue \subseteq Frame /\ a.queue \subseteq InGate(a) /\ a.expected \in Nat
      /\ a.pending # Nothing => a.pending \in InGate(a)
      /\ \A f \in InGate(a) : f.sequence \in Nat
      /\ \A f \in g.queue : f.sequence \in Nat /\ f # Nothing
  <2>1. \A f \in g.queue : f \in Frame
    BY DEF GateOK, GateRecord
  <2>2. \A f \in g.queue : f.sequence \in Nat /\ f # Nothing
    BY <2>1, FrameFacts
  <2>. QED
    BY <2>1, <2>2, <1>1, GateFacts
<1>4. r # Nothing => r.sequence \in Nat
  BY BoundsArePositive DEF Release
<1>5. ASSUME NEW n \in Nat, Covered(g, r, e, n) PROVE Covered(a, r, e, n)
  <2>1. CASE g.pending # Nothing
    BY <2>1, <1>1, <1>5
  <2>2. CASE g.pending = Nothing /\ \E f \in InGate(g) : f.sequence >= n
    <3>1. PICK f \in g.queue : f.sequence >= n
      BY <2>2 DEF InGate
    <3>2. CASE f \in a.queue \/ f = a.pending
      BY <3>1, <3>2, <1>3 DEF Covered
    <3>3. CASE f.sequence < a.expected
      <4>1. \/ Leads(a, a.expected)
            \/ r # Nothing /\ r.era = e /\ r.sequence + 1 >= a.expected
        BY <3>3, <1>2, <1>3 DEF Led
      <4>2. CASE r # Nothing /\ r.era = e /\ r.sequence + 1 >= a.expected
        <5>1. r.sequence >= n
          BY <4>2, <3>1, <3>3, <1>3, <1>4
        <5>. QED
          BY <5>1, <4>2 DEF Covered
      <4>3. CASE \E h \in a.queue : h.sequence >= a.expected
        <5>1. PICK h \in a.queue : h.sequence >= a.expected
          BY <4>3
        <5>2. h \in InGate(a) /\ h.sequence >= n
          BY <5>1, <3>1, <3>3, <1>3
        <5>. QED
          BY <5>2 DEF Covered
      <4>4. CASE a.pending # Nothing /\ a.pending.sequence + 1 >= a.expected
        <5>1. a.pending \in InGate(a) /\ a.pending.sequence >= n
          BY <4>4, <3>1, <3>3, <1>3
        <5>. QED
          BY <5>1 DEF Covered
      <4>. QED
        BY <4>1, <4>2, <4>3, <4>4 DEF Leads
    <3>. QED
      BY <3>1, <3>2, <3>3, <1>1
  <2>3. CASE r # Nothing /\ r.era = e /\ r.sequence >= n
    BY <2>3 DEF Covered
  <2>. QED
    BY <2>1, <2>2, <2>3, <1>5 DEF Covered
<1>. QED
  BY <1>2, <1>5 DEF a

\* A frame that comes into a queue with room for it covers itself.
LEMMA EnqueueCovers ==
    ASSUME NEW g, GateOK(g), NEW m \in Frame, m.sequence > 0, ~Overflows(g, m),
           NEW r \in Release \cup {Nothing}, NEW e, Led(g, r, e)
    PROVE  LET a == Enqueue(g, m)
           IN  /\ GateOK(a) /\ Led(a, r, e) /\ Covered(a, r, e, m.sequence)
               /\ \A n \in Nat : Covered(g, r, e, n) => Covered(a, r, e, n)
<1>. DEFINE a == Enqueue(g, m)
<1>1. /\ GateOK(a) /\ a.pending = g.pending /\ m \in a.queue
      /\ a.expected = (IF g.expected = 0 THEN m.sequence ELSE g.expected)
      /\ \A f \in g.queue : f \in a.queue \/ f.sequence = m.sequence
  BY EnqueueFacts
<1>. HIDE DEF a
<1>2. m.sequence \in Nat /\ g.expected \in Nat
  BY FrameFacts, GateFacts
<1>3. ASSUME NEW n, Leads(g, n) PROVE Leads(a, n)
  BY <1>1, <1>3 DEF Leads
<1>4. Led(a, r, e)
  <2>1. CASE g.expected = 0
    BY <2>1, <1>1, <1>2 DEF Led, Leads
  <2>2. CASE g.expected # 0
    BY <2>2, <1>1, <1>2, <1>3 DEF Led
  <2>. QED
    BY <2>1, <2>2
<1>5. m \in InGate(a) /\ \A f \in InGate(g) : f \in InGate(a) \/ f.sequence = m.sequence
  BY <1>1 DEF InGate
<1>6. Covered(a, r, e, m.sequence)
  BY <1>2, <1>5 DEF Covered
<1>7. \A n \in Nat : Covered(g, r, e, n) => Covered(a, r, e, n)
  BY <1>5 DEF Covered
<1>. QED
  BY <1>1, <1>4, <1>6, <1>7 DEF a

LEMMA TakeCovers ==
    ASSUME NEW g, GateOK(g), NEW m \in Frame, ~Overflows(g, m), NEW graceOver,
           NEW r \in Release \cup {Nothing}, NEW e, Led(g, r, e),
           m.sequence = 0 => /\ g.expected = 0 /\ g.queue = {}
                             /\ g.pending # Nothing => g.pending.sequence = 0
    PROVE  LET q == QueueFrame(g, m, graceOver)
           IN  /\ Led(q, r, e)
               /\ \A n \in Nat : n <= m.sequence \/ Covered(g, r, e, n) => Covered(q, r, e, n)
<1>. DEFINE q == QueueFrame(g, m, graceOver)
<1>1. m.sequence \in Nat
  BY FrameFacts
<1>2. CASE m.sequence = 0
  <2>. DEFINE p == IF g.pending # Nothing /\ g.pending.key = m.key
                   THEN [g.pending EXCEPT !.turn = m.turn] ELSE m
  <2>1. q = [g EXCEPT !.pending = p, !.renderTimer = TRUE]
    BY <1>2 DEF QueueFrame, QueueUnsequenced
  <2>2. p \in Frame
    <3>1. g.pending # Nothing => g.pending \in Frame
      BY DEF GateOK, GateRecord
    <3>2. m.turn \in 1..MaxTurn
      BY DEF Frame
    <3>. QED
      BY <3>1, <3>2 DEF Frame
  <2>. HIDE DEF p, q
  <2>3. g \in GateRecord
    BY DEF GateOK
  <2>4. q.expected = g.expected /\ q.pending = p
    BY <2>1, <2>3 DEF GateRecord
  <2>5. p # Nothing /\ p.sequence \in Nat
    BY <2>2, FrameFacts
  <2>6. p \in InGate(q)
    BY <2>4, <2>5 DEF InGate
  <2>7. Led(q, r, e)
    BY <2>4, <1>2 DEF Led
  <2>8. ASSUME NEW n \in Nat, n <= m.sequence \/ Covered(g, r, e, n) PROVE Covered(q, r, e, n)
    <3>1. CASE n <= m.sequence
      <4>1. p.sequence >= n
        BY <3>1, <2>5, <1>2
      <4>. QED
        BY <4>1, <2>6 DEF Covered
    <3>2. CASE \E f \in InGate(g) : f.sequence >= n
      <4>1. \A f \in InGate(g) : f.sequence = 0
        BY <1>2 DEF InGate
      <4>2. p.sequence >= n
        BY <4>1, <3>2, <2>5
      <4>. QED
        BY <4>2, <2>6 DEF Covered
    <3>3. CASE r # Nothing /\ r.era = e /\ r.sequence >= n
      BY <3>3 DEF Covered
    <3>. QED
      BY <3>1, <3>2, <3>3, <2>8 DEF Covered
  <2>. QED
    BY <2>7, <2>8 DEF q
<1>3. CASE m.sequence # 0
  <2>. DEFINE a == Enqueue(g, m)
  <2>1. m.sequence > 0
    BY <1>1, <1>3
  <2>2. /\ GateOK(a) /\ Led(a, r, e) /\ Covered(a, r, e, m.sequence)
        /\ \A n \in Nat : Covered(g, r, e, n) => Covered(a, r, e, n)
    BY <2>1, EnqueueCovers
  <2>3. q = Advance(a, graceOver)
    BY <1>3 DEF QueueFrame
  <2>. HIDE DEF a, q
  <2>4. \A f \in InGate(a) : f.sequence \in Nat
    BY <2>2, GateFacts
  <2>5. r # Nothing => r.sequence \in Nat
    BY BoundsArePositive DEF Release
  <2>6. \A n \in Nat : n <= m.sequence => Covered(a, r, e, n)
    <3>1. ASSUME NEW n \in Nat, n <= m.sequence PROVE Covered(a, r, e, n)
      <4>1. CASE \E f \in InGate(a) : f.sequence >= m.sequence
        <5>1. PICK f \in InGate(a) : f.sequence >= m.sequence
          BY <4>1
        <5>2. f.sequence >= n
          BY <5>1, <3>1, <2>4, <1>1
        <5>. QED
          BY <5>2 DEF Covered
      <4>2. CASE r # Nothing /\ r.era = e /\ r.sequence >= m.sequence
        <5>1. r.sequence >= n
          BY <4>2, <3>1, <2>5, <1>1
        <5>. QED
          BY <5>1, <4>2 DEF Covered
      <4>. QED
        BY <4>1, <4>2, <2>2 DEF Covered
    <3>. QED
      BY <3>1
  <2>7. /\ Led(Advance(a, graceOver), r, e)
        /\ \A n \in Nat : Covered(a, r, e, n) => Covered(Advance(a, graceOver), r, e, n)
    BY <2>2, PollCovers
  <2>. QED
    BY <2>2, <2>3, <2>6, <2>7 DEF q
<1>. QED
  BY <1>2, <1>3

NoReset == \A i \in 1..Len(toWorker) : toWorker[i] # Reset

GateLed == NoReset /\ ~overflowed => Led(gate, released, era)

\* Somewhere between the page and the chart is a frame that shows what the newest one does.
NewestUnderway ==
    newest # Nothing /\ ~overflowed =>
        /\ configKey # Nothing
        /\ \/ \E i \in 1..Len(toWorker) : /\ toWorker[i] # Reset /\ toWorker[i].era = era
                                          /\ toWorker[i].sequence >= newest
           \/ \E f \in InGate(gate) : f.era = era /\ f.sequence >= newest
           \/ /\ released # Nothing /\ released.era = era
              /\ released.sequence >= newest

\* Without a reset under way all frames are of this era; a frame of this era, while its
\* feed is connected, has no reset behind it.
LEMMA CurrentFacts ==
    ASSUME GateIInv
    PROVE  /\ NoReset => /\ \A f \in InGate(gate) : f.era = era
                         /\ \A i \in 1..Len(toWorker) : toWorker[i].era = era
           /\ configKey # Nothing =>
                /\ (\E f \in InGate(gate) : f.era = era) => NoReset
                /\ toWorker # <<>> /\ Head(toWorker) # Reset /\ Head(toWorker).era = era => NoReset
<1>. DEFINE n == Len(toWorker)
<1>1. /\ IsStream(Stream) /\ n \in Nat /\ Len(Stream) = n + 1
      /\ \A i \in 1..n : Stream[i] = toWorker[i] /\ toWorker[i] \in Messages
      /\ Stream[n + 1] = NextFrame /\ toWorker \in Seq(Messages)
  <2>1. IsNext(NextFrame) /\ toWorker \in Seq(Messages)
    BY NextFacts DEF GateIInv, GateTyped
  <2>. QED
    BY <2>1, StreamOf DEF Stream
<1>2. era \in Nat /\ Epoch \in Nat /\ Epoch >= era /\ NextFrame.era = Epoch
      /\ (configKey # Nothing => Epoch = era)
  BY NextFacts DEF GateIInv
<1>3. GateOK(gate) /\ InLine(Stream, Tidy) /\ GateFirst(gate, Stream, Tidy)
  BY DEF GateIInv, GateInv
<1>. HIDE DEF n
<1>4. n + 1 \in Frames(Stream) /\ \A i \in 1..n : toWorker[i] # Reset => i \in Frames(Stream)
  BY <1>1 DEF Frames
<1>5. NoReset <=> \A i \in 1..n : toWorker[i] # Reset
  BY DEF NoReset, n
<1>6. ASSUME NEW i \in 0..n PROVE Cut(Stream, i, n + 1) => ~NoReset
  BY <1>1, <1>5 DEF Cut
<1>7. ASSUME NEW f \in InGate(gate), NoReset PROVE f.era = era
  <2>1. f.era = Epoch
    <3>1. 0 < n + 1 /\ ~Cut(Stream, 0, n + 1)
      BY <1>1, <1>6, <1>7
    <3>. QED
      BY <3>1, <1>1, <1>2, <1>3, <1>4 DEF GateFirst, SameEra
  <2>2. f.era <= era
    BY DEF GateIInv, FramesUnderway, Underway
  <2>. QED
    BY <2>1, <2>2, <1>2
<1>8. ASSUME NEW i \in 1..n, NoReset PROVE toWorker[i].era = era
  <2>1. toWorker[i] # Reset
    BY <1>5, <1>8
  <2>2. toWorker[i].era = Epoch
    <3>1. i < n + 1 /\ ~Cut(Stream, i, n + 1)
      BY <1>1, <1>6, <1>8
    <3>. QED
      BY <3>1, <2>1, <1>1, <1>2, <1>3, <1>4 DEF InLine, SameEra
  <2>3. toWorker[i].era <= era
    BY <2>1 DEF GateIInv, FramesUnderway, Underway, n
  <2>. QED
    BY <2>2, <2>3, <1>2
<1>9. ASSUME configKey # Nothing, NEW f \in InGate(gate), f.era = era PROVE NoReset
  <2>1. 0 < n + 1
    BY <1>1
  <2>2. ~Cut(Stream, 0, n + 1)
    BY <2>1, <1>1, <1>2, <1>3, <1>4, <1>9 DEF GateFirst, Ahead
  <2>3. \A k \in 1..n : k \in 1..Len(Stream) /\ 0 < k /\ k < n + 1
    BY <1>1
  <2>. QED
    BY <2>2, <2>3, <1>1, <1>5 DEF Cut
<1>10. ASSUME configKey # Nothing, toWorker # <<>>, Head(toWorker) # Reset, Head(toWorker).era = era
       PROVE  NoReset
  <2>1. n >= 1 /\ Head(toWorker) = toWorker[1] /\ 1 \in 1..n
    BY <1>1, <1>10 DEF n
  <2>2. 1 < n + 1
    BY <2>1, <1>1
  <2>3. ~Cut(Stream, 1, n + 1)
    BY <2>1, <2>2, <1>1, <1>2, <1>3, <1>4, <1>10 DEF InLine, Ahead
  <2>4. \A k \in 1..n : k # 1 => k \in 1..Len(Stream) /\ 1 < k /\ k < n + 1
    BY <1>1
  <2>5. \A k \in 1..n : k # 1 => toWorker[k] # Reset
    BY <2>3, <2>4, <1>1 DEF Cut
  <2>. QED
    BY <2>1, <2>5, <1>5, <1>10
<1>. QED
  BY <1>7, <1>8, <1>9, <1>10 DEF n

\* The guard takes a frame without a sequence only while it expects nothing.
LEMMA HeadExpected ==
    ASSUME GateIInv, toWorker # <<>>, Head(toWorker) # Reset, Head(toWorker).sequence = 0
    PROVE  /\ gate.expected = 0 /\ gate.queue = {}
           /\ gate.pending # Nothing => gate.pending.sequence = 0
<1>1. /\ GateOK(gate) /\ GateTidy(gate, Tidy) /\ Expects(gate, Stream) /\ IsStream(Stream)
      /\ toWorker \in Seq(Messages) /\ IsNext(NextFrame)
  BY NextFacts DEF GateIInv, GateInv, GateTyped
<1>2. /\ Stream[1] = Head(toWorker) /\ Len(Stream) \in Nat /\ Len(Stream) > 1
  BY <1>1, TakenIs DEF Stream, Taken, IsStream
<1>3. 1 \in Frames(Stream) /\ ~Cut(Stream, 0, 1)
  BY <1>2 DEF Frames, Cut
<1>4. gate.expected \in Nat
  BY <1>1, GateFacts
<1>5. gate.expected = 0
  BY <1>1, <1>2, <1>3, <1>4 DEF Expects
<1>. QED
  BY <1>1, <1>5, GateFacts DEF GateTidy

LEMMA MadeExpected ==
    ASSUME GateIInv, ~worker, lastDepthSequence = 0
    PROVE  /\ gate.expected = 0 /\ gate.queue = {}
           /\ gate.pending # Nothing => gate.pending.sequence = 0
<1>1. /\ GateOK(gate) /\ GateTidy(gate, Tidy) /\ Expects(gate, Stream) /\ IsStream(Stream)
      /\ toWorker = <<>> /\ IsNext(NextFrame) /\ NextFrame.sequence = 0
  BY NextFacts DEF GateIInv, GateInv, GateTyped
<1>2. Stream[1] = NextFrame /\ Len(Stream) = 1
  BY <1>1 DEF Stream
<1>3. 1 \in Frames(Stream) /\ ~Cut(Stream, 0, 1)
  BY <1>2 DEF Frames, Cut
<1>4. gate.expected \in Nat
  BY <1>1, GateFacts
<1>5. gate.expected = 0
  BY <1>1, <1>2, <1>3, <1>4 DEF Expects
<1>. QED
  BY <1>1, <1>5, GateFacts DEF GateTidy

LEMMA WakeCovers ==
    ASSUME NEW g, GateOK(g), NEW graceOver, NEW r \in Release \cup {Nothing}, NEW e, Led(g, r, e)
    PROVE  LET a == Advance([g EXCEPT !.sequenceTimer = FALSE], graceOver)
           IN  Led(a, r, e) /\ \A n \in Nat : Covered(g, r, e, n) => Covered(a, r, e, n)
<1>. DEFINE h == [g EXCEPT !.sequenceTimer = FALSE]
<1>1. g \in GateRecord
  BY DEF GateOK
<1>2. h \in GateRecord /\ h.queue = g.queue /\ h.pending = g.pending
      /\ h.renderTimer = g.renderTimer /\ h.expected = g.expected
  BY <1>1 DEF GateRecord
<1>. HIDE DEF h
<1>3. GateOK(h)
  BY <1>1, <1>2 DEF GateOK
<1>4. Led(h, r, e)
  BY <1>2 DEF Led, Leads
<1>5. \A n : Covered(g, r, e, n) => Covered(h, r, e, n)
  BY <1>2 DEF Covered, InGate
<1>6. /\ Led(Advance(h, graceOver), r, e)
      /\ \A n \in Nat : Covered(h, r, e, n) => Covered(Advance(h, graceOver), r, e, n)
  BY <1>3, <1>4, PollCovers
<1>. QED
  BY <1>5, <1>6 DEF h

\* The frame that is released covers what it covered as the pending one.
LEMMA FlushCovers ==
    ASSUME NEW g, GateOK(g), NEW graceOver, NEW r \in Release \cup {Nothing}, Led(g, r, g.pending.era),
           g.pending # Nothing, r # Nothing => InSequence(g, r)
    PROVE  LET a == Flushed(g, graceOver)
               e == g.pending.era
               s == [sequence |-> g.pending.sequence, era |-> e]
           IN  Led(a, s, e) /\ \A n \in Nat : Covered(g, r, e, n) => Covered(a, s, e, n)
<1>. DEFINE h == [g EXCEPT !.pending = Nothing, !.renderTimer = FALSE]
            e == g.pending.era
            s == [sequence |-> g.pending.sequence, era |-> e]
<1>1. g \in GateRecord /\ g.pending \in Frame
  BY DEF GateOK, GateRecord
<1>2. h \in GateRecord /\ h.queue = g.queue /\ h.pending = Nothing
      /\ h.renderTimer = FALSE /\ h.expected = g.expected
  BY <1>1 DEF GateRecord
<1>3. s \in Release
  BY <1>1 DEF Frame, Release
<1>4. s.sequence = g.pending.sequence /\ s.era = e /\ s.sequence \in Nat /\ s # Nothing
  BY <1>1, <1>3, FrameFacts, NothingIsNoFrame
<1>5. r # Nothing => r.sequence \in Nat
  BY BoundsArePositive DEF Release
<1>6. ASSUME r # Nothing, r.era = e PROVE s.sequence >= r.sequence
  BY <1>4, <1>5, <1>6 DEF InSequence
<1>7. Flushed(g, graceOver) = Advance(h, graceOver)
  BY DEF Flushed
<1>8. g.expected \in Nat
  BY GateFacts
<1>. HIDE DEF h, e, s
<1>9. GateOK(h)
  BY <1>1, <1>2 DEF GateOK
<1>10. Led(h, s, e)
  <2>1. CASE \E f \in g.queue : f.sequence >= g.expected
    BY <2>1, <1>2 DEF Led, Leads
  <2>2. CASE g.pending.sequence + 1 >= g.expected
    BY <2>2, <1>2, <1>4 DEF Led
  <2>3. CASE r # Nothing /\ r.era = e /\ r.sequence + 1 >= g.expected
    <3>1. s.sequence + 1 >= g.expected
      BY <2>3, <1>4, <1>5, <1>6, <1>8
    <3>. QED
      BY <3>1, <1>2, <1>4 DEF Led
  <2>4. CASE ~(g.expected > 0)
    BY <2>4, <1>2 DEF Led
  <2>. QED
    BY <2>1, <2>2, <2>3, <2>4 DEF Led, Leads, e
<1>11. ASSUME NEW n \in Nat, Covered(g, r, e, n) PROVE Covered(h, s, e, n)
  <2>1. CASE r # Nothing /\ r.era = e /\ r.sequence >= n
    <3>1. s.sequence >= n
      BY <2>1, <1>4, <1>5, <1>6
    <3>. QED
      BY <3>1, <1>4 DEF Covered
  <2>2. CASE \E f \in InGate(g) : f.sequence >= n
    <3>1. PICK f \in InGate(g) : f.sequence >= n
      BY <2>2
    <3>2. f \in g.queue \/ f = g.pending
      BY DEF InGate
    <3>3. CASE f = g.pending
      BY <3>1, <3>3, <1>4 DEF Covered
    <3>4. CASE f \in g.queue
      BY <3>1, <3>4, <1>2 DEF Covered, InGate
    <3>. QED
      BY <3>2, <3>3, <3>4
  <2>. QED
    BY <2>1, <2>2, <1>11 DEF Covered
<1>12. /\ Led(Advance(h, graceOver), s, e)
       /\ \A n \in Nat : Covered(h, s, e, n) => Covered(Advance(h, graceOver), s, e, n)
  BY <1>3, <1>9, <1>10, PollCovers
<1>. QED
  BY <1>7, <1>11, <1>12 DEF e, s

-----------------------------------------------------------------------------

NewestCovered == GateLed /\ NewestUnderway

\* A gate that takes a frame of this era, or polls, without a reset under way.
LEMMA CoveredHere ==
    ASSUME newest' # Nothing => configKey' # Nothing,
           \A f \in InGate(gate') : f.era = era',
           Covered(gate', released', era', newest')
    PROVE  NewestUnderway'
BY DEF Covered, NewestUnderway

LEMMA CoversAside ==
    ASSUME NewestCovered, configKey = Nothing <=> configKey' = Nothing,
           UNCHANGED <<gate, toWorker, era, released, overflowed, newest>>
    PROVE  NewestCovered'
<1>1. GateLed'
  BY DEF NewestCovered, GateLed, NoReset
<1>2. NewestUnderway'
  BY DEF NewestCovered, NewestUnderway
<1>. QED
  BY <1>1, <1>2 DEF NewestCovered

LEMMA CoversCleared ==
    ASSUME GateIInv, GateCleared \/ WorkerFails
    PROVE  NewestCovered'
<1>1. newest' = Nothing
  BY DEF GateCleared, WorkerFails
<1>2. CASE gate' = EmptyGate
  <2>1. GateLed'
    BY <1>2, EmptyGateFacts DEF GateLed, Led
  <2>. QED
    BY <2>1, <1>1 DEF NewestCovered, NewestUnderway
<1>3. CASE toWorker' = Append(toWorker, Reset)
  <2>1. toWorker \in Seq(Messages) /\ Reset \in Messages
    BY DEF GateIInv, GateTyped, Messages
  <2>2. /\ Len(toWorker) + 1 \in 1..Len(toWorker')
        /\ toWorker'[Len(toWorker) + 1] = Reset
    BY <2>1, <1>3
  <2>3. ~NoReset'
    BY <2>2 DEF NoReset
  <2>. QED
    BY <2>3, <1>1 DEF NewestCovered, NewestUnderway, GateLed
<1>. QED
  BY <1>2, <1>3 DEF GateCleared, WorkerFails

LEMMA CoversWake ==
    ASSUME GateIInv, NewestCovered, SequenceTimerFires
    PROVE  NewestCovered'
<1>1. PICK graceOver \in BOOLEAN :
         gate' = Advance([gate EXCEPT !.sequenceTimer = FALSE], graceOver)
  BY DEF SequenceTimerFires
<1>2. UNCHANGED <<configKey, toWorker, era, newest, released, overflowed>>
  BY DEF SequenceTimerFires
<1>3. /\ GateOK(gate) /\ released \in Release \cup {Nothing} /\ (newest # Nothing => newest \in Nat)
  BY NextFacts DEF GateIInv, GateInv, GateTyped
<1>4. ASSUME Led(gate, released, era)
      PROVE  /\ Led(gate', released, era)
             /\ \A n \in Nat : Covered(gate, released, era, n) => Covered(gate', released, era, n)
  BY <1>1, <1>3, <1>4, WakeCovers
<1>5. InGate(gate') \subseteq InGate(gate)
  BY <1>1, <1>3, WakeFrames
<1>6. GateLed'
  BY <1>2, <1>4 DEF NewestCovered, GateLed, NoReset
<1>7. NewestUnderway'
  <2>. SUFFICES ASSUME newest # Nothing, ~overflowed PROVE NewestUnderway'
    BY <1>2 DEF NewestUnderway
  <2>1. configKey # Nothing
    BY DEF NewestCovered, NewestUnderway
  <2>2. CASE \E f \in InGate(gate) : f.era = era /\ f.sequence >= newest
    <3>1. NoReset /\ \A f \in InGate(gate) : f.era = era
      BY <2>1, <2>2, CurrentFacts
    <3>2. Covered(gate', released, era, newest)
      <4>1. Covered(gate, released, era, newest)
        BY <2>2 DEF Covered
      <4>. QED
        BY <4>1, <3>1, <1>3, <1>4 DEF NewestCovered, GateLed
    <3>. QED
      BY <3>1, <3>2, <2>1, <1>2, <1>5, CoveredHere
  <2>3. CASE \/ \E i \in 1..Len(toWorker) : /\ toWorker[i] # Reset /\ toWorker[i].era = era
                                            /\ toWorker[i].sequence >= newest
             \/ /\ released # Nothing /\ released.era = era
                /\ released.sequence >= newest
    BY <2>1, <2>3, <1>2 DEF NewestUnderway
  <2>. QED
    BY <2>2, <2>3 DEF NewestCovered, NewestUnderway
<1>. QED
  BY <1>6, <1>7 DEF NewestCovered

LEMMA CoversRelease ==
    ASSUME GateIInv, NewestCovered, RenderTimerFires
    PROVE  NewestCovered'
<1>. DEFINE r == [sequence |-> gate.pending.sequence, era |-> gate.pending.era]
<1>1. PICK graceOver \in BOOLEAN : gate' = Flushed(gate, graceOver)
  BY DEF RenderTimerFires
<1>2. /\ gate.pending # Nothing /\ released' = r
      /\ UNCHANGED <<configKey, toWorker, era, newest, overflowed>>
  BY DEF RenderTimerFires
<1>3. /\ GateOK(gate) /\ released \in Release \cup {Nothing} /\ (newest # Nothing => newest \in Nat)
      /\ ReleaseFirst(released, gate, Stream, Tidy) /\ era \in Nat
  BY NextFacts DEF GateIInv, GateInv, GateTyped
<1>4. released # Nothing => InSequence(gate, released)
  BY DEF GateIInv, ReleaseFirst
<1>5. /\ gate.pending \in InGate(gate) /\ gate.pending.era \in Nat /\ gate.pending.era <= era
      /\ gate.pending.sequence \in Nat /\ gate.pending \in Frame
  BY <1>2, <1>3, GateFacts DEF GateIInv, FramesUnderway, Underway
<1>6. r # Nothing /\ r.era = gate.pending.era /\ r.sequence = gate.pending.sequence
  <2>1. r \in Release
    BY <1>5 DEF Frame, Release
  <2>. QED
    BY <2>1, NothingIsNoFrame
<1>7. ASSUME Led(gate, released, era), gate.pending.era = era
      PROVE  /\ Led(gate', r, era)
             /\ \A n \in Nat : Covered(gate, released, era, n) => Covered(gate', r, era, n)
  BY <1>1, <1>2, <1>3, <1>4, <1>7, FlushCovers
<1>8. InGate(gate') \subseteq InGate(gate)
  BY <1>1, <1>3, FlushFrames DEF InGate
<1>. HIDE DEF r
<1>9. GateLed'
  BY <1>2, <1>5, <1>7, CurrentFacts DEF NewestCovered, GateLed, NoReset
<1>10. NewestUnderway'
  <2>. SUFFICES ASSUME newest # Nothing, ~overflowed PROVE NewestUnderway'
    BY <1>2 DEF NewestUnderway
  <2>1. configKey # Nothing
    BY DEF NewestCovered, NewestUnderway
  <2>2. CASE \E f \in InGate(gate) : f.era = era /\ f.sequence >= newest
    <3>1. NoReset /\ \A f \in InGate(gate) : f.era = era
      BY <2>1, <2>2, CurrentFacts
    <3>2. Covered(gate', r, era, newest)
      <4>1. Covered(gate, released, era, newest)
        BY <2>2 DEF Covered
      <4>. QED
        BY <4>1, <3>1, <1>3, <1>5, <1>7 DEF NewestCovered, GateLed
    <3>. QED
      BY <3>1, <3>2, <2>1, <1>2, <1>8, CoveredHere
  <2>3. CASE \E i \in 1..Len(toWorker) : /\ toWorker[i] # Reset /\ toWorker[i].era = era
                                         /\ toWorker[i].sequence >= newest
    BY <2>1, <2>3, <1>2 DEF NewestUnderway
  <2>4. CASE /\ released # Nothing /\ released.era = era
             /\ released.sequence >= newest
    <3>1. gate.pending.era = era
      BY <2>4, <1>3, <1>5 DEF ReleaseFirst
    <3>2. released.sequence \in Nat
      BY <2>4, <1>3, BoundsArePositive DEF Release
    <3>3. gate.pending.sequence >= newest
      BY <2>4, <3>1, <3>2, <1>2, <1>3, <1>4, <1>5 DEF InSequence
    <3>. QED
      BY <3>1, <3>3, <2>1, <1>2, <1>6 DEF NewestUnderway
  <2>. QED
    BY <2>2, <2>3, <2>4 DEF NewestCovered, NewestUnderway
<1>. QED
  BY <1>9, <1>10 DEF NewestCovered

\* The gate takes a frame of this era, with room for it and no reset under way.
LEMMA CoversTaking ==
    ASSUME GateIInv, NEW m \in Frame, NEW graceOver, gate' = QueueFrame(gate, m, graceOver),
           GateLed, NoReset, ~overflowed, ~Overflows(gate, m), m.era = era,
           m.sequence = 0 => /\ gate.expected = 0 /\ gate.queue = {}
                             /\ gate.pending # Nothing => gate.pending.sequence = 0
    PROVE  /\ Led(gate', released, era)
           /\ \A n \in Nat : n <= m.sequence \/ Covered(gate, released, era, n)
                                => Covered(gate', released, era, n)
           /\ \A f \in InGate(gate') : f.era = era
<1>1. GateOK(gate) /\ released \in Release \cup {Nothing}
  BY DEF GateIInv, GateInv, GateTyped
<1>2. \A f \in InGate(gate) : f.era = era
  BY CurrentFacts
<1>3. \A f \in InGate(gate') : f.era = era
  BY <1>1, <1>2, TakeFrames
<1>4. Led(gate, released, era)
  BY DEF GateLed
<1>5. LET q == QueueFrame(gate, m, graceOver)
      IN  /\ Led(q, released, era)
          /\ \A n \in Nat : n <= m.sequence \/ Covered(gate, released, era, n)
                               => Covered(q, released, era, n)
  BY <1>1, <1>4, TakeCovers
<1>. QED
  BY <1>3, <1>5

LEMMA CoversReceive ==
    ASSUME GateIInv, NewestCovered, WorkerReceives
    PROVE  NewestCovered'
<1>. DEFINE m == Head(toWorker)
<1>1. /\ toWorker # <<>> /\ toWorker' = Tail(toWorker)
      /\ UNCHANGED <<configKey, worker, era, newest, released>>
  BY DEF WorkerReceives
<1>2. /\ toWorker \in Seq(Messages) /\ (newest # Nothing => newest \in Nat)
      /\ released \in Release \cup {Nothing}
  BY NextFacts DEF GateIInv, GateTyped
<1>3. /\ Len(toWorker) \in Nat /\ m = toWorker[1] /\ Len(toWorker) >= 1
      /\ Len(toWorker') = Len(toWorker) - 1 /\ m \in Messages
      /\ \A i \in 1..Len(toWorker') : toWorker'[i] = toWorker[i + 1]
  BY <1>1, <1>2
<1>. HIDE DEF m
<1>4. ASSUME NEW i \in 1..Len(toWorker), i # 1
      PROVE  i - 1 \in 1..Len(toWorker') /\ toWorker'[i - 1] = toWorker[i]
  <2>1. i - 1 \in 1..Len(toWorker') /\ (i - 1) + 1 = i
    BY <1>3, <1>4
  <2>. QED
    BY <2>1, <1>3
<1>5. m # Reset /\ NoReset' => NoReset
  BY <1>3, <1>4 DEF NoReset
\* A frame behind the first message, and the release, cover as before.
<1>6. ASSUME configKey # Nothing,
             \/ \E i \in 1..Len(toWorker) : /\ i # 1 /\ toWorker[i] # Reset /\ toWorker[i].era = era
                                            /\ toWorker[i].sequence >= newest
             \/ /\ released # Nothing /\ released.era = era
                /\ released.sequence >= newest
      PROVE  NewestUnderway'
  <2>1. CASE \E i \in 1..Len(toWorker) : /\ i # 1 /\ toWorker[i] # Reset /\ toWorker[i].era = era
                                         /\ toWorker[i].sequence >= newest
    <3>1. PICK i \in 1..Len(toWorker) : /\ i # 1 /\ toWorker[i] # Reset /\ toWorker[i].era = era
                                        /\ toWorker[i].sequence >= newest
      BY <2>1
    <3>2. i - 1 \in 1..Len(toWorker') /\ toWorker'[i - 1] = toWorker[i]
      BY <3>1, <1>4
    <3>. DEFINE j == i - 1
    <3>3. j \in 1..Len(toWorker') /\ toWorker'[j] # Reset /\ toWorker'[j].era = era'
          /\ toWorker'[j].sequence >= newest'
      BY <3>1, <3>2, <1>1
    <3>. HIDE DEF j
    <3>. QED
      BY <3>3, <1>1, <1>6 DEF NewestUnderway
  <2>2. CASE /\ released # Nothing /\ released.era = era
             /\ released.sequence >= newest
    BY <2>2, <1>1, <1>6 DEF NewestUnderway
  <2>. QED
    BY <2>1, <2>2, <1>6
<1>7. CASE m = Reset
  <2>1. gate' = EmptyGate /\ overflowed' = overflowed
    BY <1>7 DEF WorkerReceives, m
  <2>2. GateLed'
    BY <2>1, EmptyGateFacts DEF GateLed, Led
  <2>3. ASSUME newest # Nothing, ~overflowed PROVE NewestUnderway'
    <3>1. configKey # Nothing
      BY <2>3 DEF NewestCovered, NewestUnderway
    <3>2. ~NoReset
      <4>1. 1 \in 1..Len(toWorker)
        BY <1>3
      <4>. QED
        BY <4>1, <1>3, <1>7 DEF NoReset
    <3>3. ~(\E f \in InGate(gate) : f.era = era)
      BY <3>1, <3>2, CurrentFacts
    <3>. QED
      BY <3>1, <3>3, <2>3, <1>3, <1>6, <1>7 DEF NewestCovered, NewestUnderway
  <2>4. NewestUnderway'
    BY <2>1, <2>3, <1>1 DEF NewestUnderway
  <2>. QED
    BY <2>2, <2>4 DEF NewestCovered
<1>8. CASE m # Reset
  <2>1. PICK graceOver \in BOOLEAN : gate' = QueueFrame(gate, m, graceOver)
    BY <1>8 DEF WorkerReceives, m
  <2>2. m \in Frame
    BY <1>3, <1>8 DEF Messages
  <2>3. ~overflowed' => ~overflowed /\ (m.era = era => ~Overflows(gate, m))
    BY <1>8 DEF WorkerReceives, m
  <2>4. m.sequence = 0 => /\ gate.expected = 0 /\ gate.queue = {}
                          /\ gate.pending # Nothing => gate.pending.sequence = 0
    BY <1>1, <1>8, HeadExpected DEF m
  <2>5. m.era = era /\ configKey # Nothing => NoReset
    BY <1>1, <1>8, CurrentFacts DEF m
  <2>6. NoReset => m.era = era
    <3>1. 1 \in 1..Len(toWorker)
      BY <1>3
    <3>. QED
      BY <3>1, <1>3, CurrentFacts
  <2>7. ASSUME NoReset, ~overflowed'
        PROVE  /\ Led(gate', released, era)
               /\ \A n \in Nat : n <= m.sequence \/ Covered(gate, released, era, n)
                                    => Covered(gate', released, era, n)
               /\ \A f \in InGate(gate') : f.era = era
    BY <2>1, <2>2, <2>3, <2>4, <2>6, <2>7, CoversTaking DEF NewestCovered
  <2>8. GateLed'
    BY <2>7, <1>1, <1>5, <1>8 DEF GateLed
  <2>9. ASSUME newest # Nothing, ~overflowed' PROVE NewestUnderway'
    <3>1. configKey # Nothing
      BY <2>3, <2>9 DEF NewestCovered, NewestUnderway
    <3>2. ASSUME NoReset, newest <= m.sequence
                             \/ Covered(gate, released, era, newest)
          PROVE  NewestUnderway'
      <4>1. /\ Covered(gate', released', era', newest')
            /\ \A f \in InGate(gate') : f.era = era'
        BY <3>2, <2>7, <2>9, <1>1, <1>2
      <4>2. configKey' # Nothing
        BY <3>1, <1>1, <1>2
      <4>. QED
        BY <4>1, <4>2, CoveredHere
    <3>3. CASE \E f \in InGate(gate) : f.era = era /\ f.sequence >= newest
      BY <3>1, <3>2, <3>3, CurrentFacts DEF Covered
    <3>4. CASE m.era = era /\ m.sequence >= newest
      BY <3>1, <3>2, <3>4, <2>5, <1>2
    <3>5. \/ \E i \in 1..Len(toWorker) : /\ toWorker[i] # Reset /\ toWorker[i].era = era
                                         /\ toWorker[i].sequence >= newest
          \/ \E f \in InGate(gate) : f.era = era /\ f.sequence >= newest
          \/ /\ released # Nothing /\ released.era = era
             /\ released.sequence >= newest
      BY <2>3, <2>9 DEF NewestCovered, NewestUnderway
    <3>. QED
      BY <3>1, <3>3, <3>4, <3>5, <1>3, <1>6
  <2>10. NewestUnderway'
    BY <2>9, <1>1 DEF NewestUnderway
  <2>. QED
    BY <2>8, <2>10 DEF NewestCovered
<1>. QED
  BY <1>7, <1>8

LEMMA CoversQueue ==
    ASSUME GateIInv, NewestCovered, NEW sequence \in 0..MaxSequence, QueueRenderFrame(sequence),
           sequence = 0 => lastDepthSequence = 0
    PROVE  NewestCovered'
<1>. DEFINE m == NewFrame(configKey, sequence, TRUE)
<1>1. /\ configKey # Nothing /\ turn < MaxTurn /\ newest' = sequence
      /\ IF worker
         THEN toWorker' = Append(toWorker, m) /\ UNCHANGED <<gate, overflowed>>
         ELSE /\ \E graceOver \in BOOLEAN : gate' = QueueFrame(gate, m, graceOver)
              /\ overflowed' = (overflowed \/ Overflows(gate, m))
              /\ UNCHANGED toWorker
      /\ UNCHANGED <<configKey, era, released>>
  BY DEF QueueRenderFrame
<1>2. GateTyped /\ configKey \in Key
  BY <1>1 DEF GateIInv, GateTyped
<1>3. m \in Frame /\ m.sequence = sequence /\ m.era = era /\ sequence \in Nat
  <2>1. sequence \in Nat
    BY BoundsArePositive
  <2>2. m \in Frame /\ m.sequence = sequence /\ m.era = era
    BY <1>1, <1>2, NewFrameFacts
  <2>. QED
    BY <2>1, <2>2
<1>. HIDE DEF m
<1>4. CASE worker
  <2>1. toWorker \in Seq(Messages) /\ m \in Messages /\ m # Reset
    BY <1>2, <1>3, FrameFacts DEF GateTyped, Messages
  <2>2. /\ Len(toWorker) \in Nat /\ Len(toWorker') = Len(toWorker) + 1
        /\ toWorker'[Len(toWorker) + 1] = m
        /\ \A i \in 1..Len(toWorker) : toWorker'[i] = toWorker[i]
    BY <2>1, <1>1, <1>4
  <2>3. NoReset' => NoReset
    <3>1. \A i \in 1..Len(toWorker) : i \in 1..Len(toWorker')
      BY <2>2
    <3>. QED
      BY <3>1, <2>2 DEF NoReset
  <2>4. GateLed'
    BY <2>3, <1>1, <1>4 DEF NewestCovered, GateLed
  <2>5. NewestUnderway'
    <3>. DEFINE j == Len(toWorker) + 1
    <3>1. j \in 1..Len(toWorker') /\ toWorker'[j] = m
      BY <2>2
    <3>. HIDE DEF j
    <3>2. m.era = era' /\ m.sequence >= newest'
      BY <1>1, <1>3
    <3>. QED
      BY <3>1, <3>2, <2>1, <1>1 DEF NewestUnderway
  <2>. QED
    BY <2>4, <2>5 DEF NewestCovered
<1>5. CASE ~worker
  <2>1. PICK graceOver \in BOOLEAN : gate' = QueueFrame(gate, m, graceOver)
    BY <1>1, <1>5
  <2>2. toWorker = <<>> /\ NoReset
    <3>1. toWorker = <<>>
      BY <1>2, <1>5 DEF GateTyped
    <3>. QED
      BY <3>1 DEF NoReset
  <2>3. ~overflowed' => ~overflowed /\ ~Overflows(gate, m)
    BY <1>1, <1>5
  <2>4. m.sequence = 0 => /\ gate.expected = 0 /\ gate.queue = {}
                          /\ gate.pending # Nothing => gate.pending.sequence = 0
    BY <1>3, <1>5, MadeExpected
  <2>5. ASSUME ~overflowed'
        PROVE  /\ Led(gate', released, era)
               /\ \A n \in Nat : n <= m.sequence \/ Covered(gate, released, era, n)
                                    => Covered(gate', released, era, n)
               /\ \A f \in InGate(gate') : f.era = era
    BY <2>1, <2>2, <2>3, <2>4, <2>5, <1>3, CoversTaking DEF NewestCovered
  <2>6. GateLed'
    BY <2>5, <1>1 DEF GateLed
  <2>7. ASSUME ~overflowed' PROVE NewestUnderway'
    <3>1. sequence <= m.sequence
      BY <1>3
    <3>2. /\ Covered(gate', released', era', newest')
          /\ \A f \in InGate(gate') : f.era = era'
      BY <3>1, <2>5, <2>7, <1>1, <1>3
    <3>3. configKey' # Nothing
      BY <1>1
    <3>. QED
      BY <3>2, <3>3, CoveredHere
  <2>8. NewestUnderway'
    BY <2>7 DEF NewestUnderway
  <2>. QED
    BY <2>6, <2>8 DEF NewestCovered
<1>. QED
  BY <1>4, <1>5

LEMMA CoversNext == GateIInv /\ NewestCovered /\ [GateNext]_gateVars => NewestCovered'
<1>. SUFFICES ASSUME GateIInv, NewestCovered, [GateNext]_gateVars PROVE NewestCovered'
  OBVIOUS
<1>1. ASSUME NEW k \in Key, ConnectFeed(k) PROVE NewestCovered'
  BY <1>1, CoversCleared DEF ConnectFeed
<1>2. CASE DisconnectFeed
  BY <1>2, CoversCleared DEF DisconnectFeed
<1>3. CASE WorkerFails
  BY <1>3, CoversCleared
<1>4. ASSUME NEW k \in Key, ConnectTimeframe(k) PROVE NewestCovered'
  <2>1. configKey # Nothing /\ configKey' = k
    BY <1>4 DEF ConnectTimeframe
  <2>2. UNCHANGED <<gate, toWorker, era, released, overflowed, newest>>
    BY <1>4 DEF ConnectTimeframe, PublishNow, PublishNothing
  <2>. QED
    BY <2>1, <2>2, CoversAside, NothingIsNoKey
<1>5. CASE RefreshAnswers
  BY <1>5, CoversAside DEF RefreshAnswers, PublishNow
<1>6. CASE DepthFrame
  <2>1. \A sequence \in 1..MaxSequence : sequence \in 0..MaxSequence /\ sequence # 0
    BY BoundsArePositive
  <2>. QED
    BY <2>1, <1>6, CoversQueue DEF DepthFrame
<1>7. CASE DrainTradeRings
  <2>1. lastDepthSequence \in 0..MaxSequence
    BY DEF GateIInv, GateTyped
  <2>. QED
    BY <2>1, <1>7, CoversQueue DEF DrainTradeRings
<1>8. CASE PageReceives
  BY <1>8, CoversAside DEF PageReceives
<1>9. CASE UNCHANGED gateVars
  BY <1>9, CoversAside DEF gateVars
<1>10. CASE RefreshFallsBack \/ DepthWithoutFrame
  BY <1>10, CoversAside DEF RefreshFallsBack, PublishNothing, DepthWithoutFrame
<1>11. ASSUME NEW k \in Key, FallbackAnswers(k) PROVE NewestCovered'
  <2>1. configKey' = configKey /\ (PublishNow(k) \/ PublishNothing)
    BY <1>11 DEF FallbackAnswers
  <2>. QED
    BY <2>1, CoversAside DEF PublishNow, PublishNothing
<1>. QED
  BY <1>1, <1>2, <1>3, <1>4, <1>5, <1>6, <1>7, <1>8, <1>9, <1>10, <1>11, CoversWake, CoversRelease,
     CoversReceive DEF GateNext

LEMMA NewestInvariant == GateSpec => []NewestCovered
<1>1. GateInit => NewestCovered
  BY EmptyGateFacts DEF GateInit, NewestCovered, GateLed, Led, NewestUnderway
<1>2. GateIInv /\ NewestCovered /\ [GateNext]_gateVars => NewestCovered'
  BY CoversNext
<1>. QED
  BY <1>1, <1>2, GateInductive, PTL DEF GateSpec

\* Once nothing waits any more, a frame with the sequence of the last one made in this
\* era, or a higher one, has gone through the gate, unless the queue ran over.
THEOREM QuietIsDrawn == GateSpec => []QuietMeansDrawn
<1>1. ASSUME NewestCovered PROVE QuietMeansDrawn
  <2>. SUFFICES ASSUME Quiet, newest # Nothing, ~overflowed
                PROVE  /\ released # Nothing /\ released.era = era
                       /\ released.sequence >= newest
    BY DEF QuietMeansDrawn
  <2>1. Len(toWorker) = 0 /\ InGate(gate) = {}
    BY DEF Quiet, InGate
  <2>. QED
    BY <2>1, <1>1 DEF NewestCovered, NewestUnderway
<1>. QED
  BY <1>1, NewestInvariant, PTL
=============================================================================
