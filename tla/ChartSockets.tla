----------------------------- MODULE ChartSockets -----------------------------
(***************************************************************************)
(* The live streams of the chart's data bus: for trades, and likewise for  *)
(* depth, one main web socket for the venue of the configuration and one   *)
(* auxiliary socket for every other public venue.  The main socket opens   *)
(* the auxiliary ones, each socket reconnects on a timer of its own, and   *)
(* repeated failures put the stream on a cooldown.  Depth comes through    *)
(* these sockets and with the refreshes of the chart, which may have to    *)
(* wait for the fallback routes and are not checked again after that.      *)
(* (ui/mission-control/lib/marketDataBus.ts)                               *)
(*                                                                         *)
(* The two streams share connect and disconnect only; a behaviour follows  *)
(* one of them.  A socket that was closed by the bus before it was open    *)
(* has no handlers left, and is not modelled.                              *)
(***************************************************************************)
EXTENDS Naturals, FiniteSets

CONSTANTS
    Instrument,
    Venue,
    PublicVenue,    \* FUSION_PUBLIC_VENUES
    Feed,           \* what the chart can be connected to
    None,
    MaxTimers,      \* bound: reconnect timers pending for an auxiliary venue
    MaxRefreshes    \* bound: refreshes that wait for the fallback routes

ASSUME PublicVenuesAreVenues == PublicVenue \subseteq Venue

ASSUME FeedsAreFeeds == Feed \subseteq [inst : Instrument, venue : Venue]

ASSUME TimersArePossible == MaxTimers \in Nat \ {0} /\ MaxRefreshes \in Nat

STREAM_FAILURE_THRESHOLD == 3

SocketState == {"connecting", "open", "closing"}

MainSocket == [inst : Instrument, venue : Venue, state : SocketState]

AuxSocket == [inst : Instrument, state : SocketState]

ASSUME NoneIsNothing ==
    /\ None \notin Instrument /\ None \notin Feed
    /\ None \notin MainSocket /\ None \notin AuxSocket

VARIABLES
    kind,           \* which of the two streams is followed
    config,         \* instrument and venue of the bus, or None
    main,           \* ohlcvSocket or depthSocket while it has not closed, or None
    mainTimers,     \* pending timeouts that connect the main socket
    aux,            \* auxTradeSockets or auxDepthSockets
    auxTimers,      \* pending timeouts that connect the socket of a venue
    orphans,        \* sockets with handlers that neither "main" nor "aux" holds
    failures,       \* streamFailureCount, up to the threshold
    cooling,        \* before streamCooldownUntil
    depthOf,        \* the instrument of a venue's entry in depthSnapshotsByVenue
    refreshes       \* feeds whose refresh waits for the fallback routes

socketVars == <<kind, config, main, mainTimers, aux, auxTimers, orphans, failures,
                cooling>>

vars == <<socketVars, depthOf, refreshes>>

TypeOK ==
    /\ kind \in {"trade", "depth"}
    /\ config \in Feed \cup {None}
    /\ main \in MainSocket \cup {None}
    /\ mainTimers \in 0..2
    /\ aux \in [Venue -> AuxSocket \cup {None}]
    /\ auxTimers \in [Venue -> 0..MaxTimers]
    /\ orphans \subseteq [inst : Instrument, venue : Venue, aux : BOOLEAN]
    /\ failures \in 0..STREAM_FAILURE_THRESHOLD
    /\ cooling \in BOOLEAN
    /\ depthOf \in [Venue -> Instrument \cup {None}]
    /\ refreshes \subseteq Feed
    /\ config = None => main = None /\ mainTimers = 0 /\ \A v \in Venue : aux[v] = None

Init ==
    /\ kind \in {"trade", "depth"}
    /\ config = None
    /\ main = None
    /\ mainTimers = 0
    /\ aux = [v \in Venue |-> None]
    /\ auxTimers = [v \in Venue |-> 0]
    /\ orphans = {}
    /\ failures = 0
    /\ cooling = FALSE
    /\ depthOf = [v \in Venue |-> None]
    /\ refreshes = {}

-----------------------------------------------------------------------------
(* Failures of the main socket.                                            *)

RegisterStreamFailures(n) ==
    LET count == failures + n IN
    /\ failures' = IF count > STREAM_FAILURE_THRESHOLD THEN STREAM_FAILURE_THRESHOLD ELSE count
    /\ cooling' = (cooling \/ count >= STREAM_FAILURE_THRESHOLD)

CooldownEnds ==
    /\ cooling
    /\ cooling' = FALSE
    /\ UNCHANGED <<kind, config, main, mainTimers, aux, auxTimers, orphans,
                   failures, depthOf, refreshes>>

-----------------------------------------------------------------------------
(* Connecting.                                                             *)

\* The venues besides its own that a feed is fused with.
AuxVenues(feed) ==
    IF feed.venue \in PublicVenue THEN PublicVenue \ {feed.venue} ELSE {}

\* Sockets that the bus drops without closing: their handlers stay.
OrphanOfMain ==
    IF main = None THEN {} ELSE {[inst |-> main.inst, venue |-> main.venue, aux |-> FALSE]}

OrphanOfAux(v) ==
    IF aux[v] = None THEN {} ELSE {[inst |-> aux[v].inst, venue |-> v, aux |-> TRUE]}

\* The main socket and the auxiliary ones that the map "kept" does not hold.
OpenSockets(feed, kept) ==
    /\ main' = [inst |-> feed.inst, venue |-> feed.venue, state |-> "connecting"]
    /\ aux' = [v \in Venue |->
                  IF v \notin AuxVenues(feed) THEN None
                  ELSE IF kept[v] # None THEN kept[v]
                  ELSE [inst |-> feed.inst, state |-> "connecting"]]

NoSockets == [v \in Venue |-> None]

\* The timeouts whose handles are known are cancelled.  A map holds one handle
\* of a venue, the newest, which is the last of that venue's to fire.
TimersCancelled == [v \in Venue |-> IF auxTimers[v] = 0 THEN 0 ELSE auxTimers[v] - 1]

MainTimersCancelled_None == mainTimers

MainTimersCancelled == IF mainTimers = 0 THEN 0 ELSE mainTimers - 1

\* disconnectSockets, then connectOhlcvSocket or connectDepthSocket.  The
\* cooldown of an earlier feed still holds.
Connect(feed) ==
    /\ config # feed
    /\ config' = feed
    /\ auxTimers' = TimersCancelled
    /\ depthOf' = [v \in Venue |-> None]
    /\ IF cooling
       THEN /\ main' = None
            /\ aux' = NoSockets
            /\ mainTimers' = MainTimersCancelled + 1
       ELSE /\ OpenSockets(feed, NoSockets)
            /\ mainTimers' = MainTimersCancelled
    /\ UNCHANGED <<kind, orphans, failures, cooling, refreshes>>

Disconnect_KeepsTimer ==
    /\ config # None
    /\ config' = None
    /\ main' = None
    /\ aux' = NoSockets
    /\ auxTimers' = TimersCancelled
    /\ depthOf' = [v \in Venue |-> None]
    /\ UNCHANGED <<kind, mainTimers, orphans, failures, cooling, refreshes>>

Disconnect ==
    /\ config # None
    /\ config' = None
    /\ main' = None
    /\ mainTimers' = MainTimersCancelled
    /\ aux' = NoSockets
    /\ auxTimers' = TimersCancelled
    /\ depthOf' = [v \in Venue |-> None]
    /\ UNCHANGED <<kind, orphans, failures, cooling, refreshes>>

-----------------------------------------------------------------------------
(* The main socket.                                                        *)

MainTimerFires_GivesUp ==
    /\ mainTimers > 0
    /\ mainTimers' = mainTimers - 1
    /\ IF config = None \/ cooling
       THEN UNCHANGED <<main, aux, orphans>>
       ELSE /\ OpenSockets(config, aux)
            /\ orphans' = orphans \cup OrphanOfMain
    /\ UNCHANGED <<kind, config, auxTimers, failures, cooling, depthOf, refreshes>>

MainTimerFires_AllAnew ==
    /\ mainTimers > 0
    /\ config # None /\ ~cooling
    /\ mainTimers' = mainTimers - 1
    /\ OpenSockets(config, NoSockets)
    /\ orphans' = orphans \cup OrphanOfMain \cup UNION {OrphanOfAux(v) : v \in Venue}
    /\ UNCHANGED <<kind, config, auxTimers, failures, cooling, depthOf, refreshes>>

MainTimerFires ==
    /\ mainTimers > 0
    /\ IF config = None
       THEN mainTimers' = mainTimers - 1 /\ UNCHANGED <<main, aux, orphans>>
       ELSE IF cooling
       THEN UNCHANGED <<mainTimers, main, aux, orphans>>
       ELSE /\ mainTimers' = mainTimers - 1
            /\ OpenSockets(config, aux)
            /\ orphans' = orphans \cup OrphanOfMain
    /\ depthOf' = [v \in Venue |->
                      IF aux[v] # None /\ main' # main /\ v \notin AuxVenues(config)
                      THEN None ELSE depthOf[v]]
    /\ UNCHANGED <<kind, config, auxTimers, failures, cooling, refreshes>>

MainOpens ==
    /\ main # None /\ main.state = "connecting"
    /\ main' = [main EXCEPT !.state = "open"]
    /\ failures' = 0
    /\ cooling' = FALSE
    /\ UNCHANGED <<kind, config, mainTimers, aux, auxTimers, orphans, depthOf, refreshes>>

\* No message for 15 s (trades) or 10 s (depth).
WatchdogFires ==
    /\ main # None /\ main.state = "open"
    /\ main' = [main EXCEPT !.state = "closing"]
    /\ RegisterStreamFailures(1)
    /\ UNCHANGED <<kind, config, mainTimers, aux, auxTimers, orphans, depthOf, refreshes>>

\* A socket that never opened has an error event too: the handlers of the trade
\* stream count the error and the close, those of depth count one of them.
MainCloses ==
    /\ main # None
    /\ IF main.state = "connecting"
       THEN RegisterStreamFailures(IF kind = "trade" THEN 2 ELSE 1)
       ELSE UNCHANGED <<failures, cooling>>
    /\ main' = None
    /\ mainTimers' = mainTimers + 1
    /\ depthOf' = [depthOf EXCEPT ![main.venue] = None]
    /\ UNCHANGED <<kind, config, aux, auxTimers, orphans, refreshes>>

-----------------------------------------------------------------------------
(* The auxiliary sockets.                                                  *)

\* The map entry of the venue is overwritten, whatever it holds.
AuxTimerFires(v) ==
    /\ auxTimers[v] > 0
    /\ auxTimers' = [auxTimers EXCEPT ![v] = @ - 1]
    /\ IF config = None
       THEN UNCHANGED <<aux, orphans>>
       ELSE /\ aux' = [aux EXCEPT ![v] = [inst |-> config.inst, state |-> "connecting"]]
            /\ orphans' = orphans \cup OrphanOfAux(v)
    /\ UNCHANGED <<kind, config, main, mainTimers, failures, cooling, depthOf, refreshes>>

AuxOpens(v) ==
    /\ aux[v] # None /\ aux[v].state = "connecting"
    /\ aux' = [aux EXCEPT ![v].state = "open"]
    /\ UNCHANGED <<kind, config, main, mainTimers, auxTimers, orphans, failures,
                   cooling, depthOf, refreshes>>

AuxCloses(v) ==
    /\ aux[v] # None
    /\ auxTimers[v] < MaxTimers
    /\ aux' = [aux EXCEPT ![v] = None]
    /\ auxTimers' = [auxTimers EXCEPT ![v] = @ + 1]
    /\ depthOf' = [depthOf EXCEPT ![v] = None]
    /\ UNCHANGED <<kind, config, main, mainTimers, orphans, failures, cooling,
                   refreshes>>

\* A socket that its map does not hold any more closes without a word.
OrphanCloses ==
    /\ \E o \in orphans : orphans' = orphans \ {o}
    /\ UNCHANGED <<kind, config, main, mainTimers, aux, auxTimers, failures,
                   cooling, depthOf, refreshes>>

-----------------------------------------------------------------------------
(* Depth messages: every open socket writes the entry of its venue.        *)

DepthMessage(inst, v) ==
    /\ kind = "depth" /\ config # None
    /\ depthOf' = [depthOf EXCEPT ![v] = inst]
    /\ UNCHANGED <<socketVars, refreshes>>

MainMessage == main # None /\ main.state = "open" /\ DepthMessage(main.inst, main.venue)

AuxMessage(v) == aux[v] # None /\ aux[v].state = "open" /\ DepthMessage(aux[v].inst, v)

OrphanMessage == \E o \in orphans : DepthMessage(o.inst, o.venue)

-----------------------------------------------------------------------------
(* Refreshes of the chart, which write the entry of the venue they were    *)
(* started for (refreshNow).                                               *)

\* The snapshot came without depth or bars: the fallback routes are asked.
\* Whether the feed is still the connected one was checked before that.
DepthFallsBack ==
    /\ kind = "depth" /\ config # None
    /\ Cardinality(refreshes) < MaxRefreshes
    /\ refreshes' = refreshes \cup {config}
    /\ UNCHANGED <<socketVars, depthOf>>

\* The fallback routes answered, perhaps with depth.  The bus only looks
\* whether it is connected at all.  Another refresh of the feed may still wait.
FallbackDepth(feed) ==
    /\ feed \in refreshes
    /\ refreshes' \in {refreshes, refreshes \ {feed}}
    /\ \/ config # None /\ depthOf' = [depthOf EXCEPT ![feed.venue] = feed.inst]
       \/ UNCHANGED depthOf
    /\ UNCHANGED socketVars

\* A snapshot with bars and depth is applied at once.
SnapshotDepth == config # None /\ DepthMessage(config.inst, config.venue)

-----------------------------------------------------------------------------

Next ==
    \/ \E feed \in Feed : Connect(feed)
    \/ Disconnect
    \/ MainTimerFires
    \/ MainOpens
    \/ WatchdogFires
    \/ MainCloses
    \/ \E v \in Venue : AuxTimerFires(v) \/ AuxOpens(v) \/ AuxCloses(v) \/ AuxMessage(v)
    \/ OrphanCloses
    \/ MainMessage
    \/ OrphanMessage
    \/ DepthFallsBack
    \/ \E feed \in Feed : FallbackDepth(feed)
    \/ SnapshotDepth
    \/ CooldownEnds

Spec == Init /\ [][Next]_vars

\* Timeouts fire and cooldowns pass.  Nothing is assumed of the network.
Fairness == WF_vars(MainTimerFires) /\ WF_vars(CooldownEnds)

FairSpec == Spec /\ Fairness

-----------------------------------------------------------------------------
(* Properties.                                                             *)

\* There is one main socket or one timeout that will connect it, never two that
\* would count every trade twice, and never neither: then the stream is lost
\* until the user connects something else.
OneMainOrTimer ==
    /\ config # None => (mainTimers = 1 <=> main = None)
    /\ mainTimers <= 1
    /\ \A o \in orphans : o.aux

\* A stream that was lost is tried again, whatever failed before and however
\* often the user connects something else.
LostStreamIsRetried == (config # None /\ main = None) ~> (main # None \/ config = None)

\* One socket for every venue, each held by the bus.
OneSocketPerVenue ==
    /\ orphans = {}
    /\ config # None => aux[config.venue] = None

\* A timeout connects the socket of a venue although that venue has one already:
\* connecting the main socket, or connecting another feed while an older timeout
\* was pending whose handle had been overwritten, has opened it in the meantime.
OvertakenTimer ==
    \E v \in Venue : /\ auxTimers'[v] < auxTimers[v]
                     /\ config' = config
                     /\ aux[v] # None \/ v = config.venue

\* A venue's trades are counted twice, and sockets outlive the feed they are
\* for, in one way only: by an auxiliary timeout that was overtaken.  Depth of
\* another instrument gets into the book in two ways only: from such a socket,
\* or with a refresh overtaken while it waited for the fallback routes.
StraySocketsAreTraced ==
    [][/\ OneSocketPerVenue /\ ~OneSocketPerVenue' => OvertakenTimer
       /\ config # None => \A v \in Venue :
             depthOf'[v] \notin {depthOf[v], None, config.inst} =>
                \E w \in orphans \cup refreshes : w.inst = depthOf'[v] /\ w.venue = v]_vars
=============================================================================
