----------------------------- MODULE ChartRefresh -----------------------------
(***************************************************************************)
(* The chart's data bus in the browser: which configuration the terminal   *)
(* is connected to, the loop that refreshes it over HTTP, and where the    *)
(* candles of the shared chart feed come from.                             *)
(* (ui/mission-control/lib/marketDataBus.ts and chartFrameFeed.ts)         *)
(*                                                                         *)
(* A refresh awaits twice: the snapshot, and, when bars or depth are       *)
(* missing in it, the fallback routes.  The user may connect another       *)
(* configuration at either point.  Of candles the model keeps whether they *)
(* belong to the key they are held for: "foreign" candles are those of     *)
(* another feed, or of another timeframe than they are taken for.          *)
(***************************************************************************)
EXTENDS Naturals, FiniteSets

CONSTANTS
    Config,         \* configurations: a feed (instrument and venue) and a timeframe
    None,
    MaxRequests     \* bound: refreshes in flight, aborted ones included

\* A timeframe is the length of its bars, in minutes.
ASSUME ConfigsHaveLengths == \A c \in Config : DOMAIN c = {"feed", "tf"} /\ c.tf \in Nat

Ids == 1..MaxRequests

Candles == {"empty", "own", "foreign"}

\* The bars of the last bootstrap, the timeframe they were taken for, and the
\* candles built from live trades.
Engine == [bars : Candles, taken : {c.tf : c \in Config}, live : Candles]

\* ok and bars: what the snapshot route answered, known from the second stage on.
Request ==
    [of : Config, stage : {"snapshot", "fallback"}, aborted : BOOLEAN,
     ok : BOOLEAN, bars : BOOLEAN]

ASSUME NoneIsNothing == None \notin Config /\ None \notin Engine /\ None \notin Request

ASSUME SomeRequests == MaxRequests \in Nat

VARIABLES
    config,         \* configuration of the bus, or None (and snapshot.configKey)
    engine,         \* the candle engine, or None
    shown,          \* snapshot.ohlcvBars
    latestFrames,   \* the last frame of every key of the chart feed
    requests,       \* refreshes that await an answer
    controller,     \* the request of sideFetchController, or 0
    timer,          \* sideRefreshTimer is set
    cooldown,       \* before snapshotFailureCooldownUntil
    synced          \* auxiliary: a refresh was applied since the last connect

vars == <<config, engine, shown, latestFrames, requests, controller, timer,
          cooldown, synced>>

TypeOK ==
    /\ config \in Config \cup {None}
    /\ engine \in Engine \cup {None}
    /\ engine = None <=> config = None
    /\ shown \in Candles
    /\ latestFrames \in [Config -> Candles]
    /\ timer \in BOOLEAN /\ cooldown \in BOOLEAN /\ synced \in BOOLEAN
    /\ requests \in [Ids -> Request \cup {None}]
    /\ controller \in Ids \cup {0}
    /\ controller # 0 => requests[controller] # None /\ ~requests[controller].aborted

Init ==
    /\ config = None
    /\ engine = None
    /\ shown = "empty"
    /\ latestFrames = [k \in Config |-> "empty"]
    /\ requests = [i \in Ids |-> None]
    /\ controller = 0
    /\ timer = FALSE
    /\ cooldown = FALSE
    /\ synced = FALSE

-----------------------------------------------------------------------------
(* The candle engine.                                                      *)

Mix(a, b) ==
    IF "foreign" \in {a, b} THEN "foreign" ELSE IF a = "empty" THEN b ELSE a

NewEngine(c) == [bars |-> "empty", taken |-> c.tf, live |-> "empty"]

\* A coarser timeframe is aggregated from the bars, a finer one has only what
\* the live trades built.
SeriesOf(e, tf) == Mix(IF tf >= e.taken THEN e.bars ELSE "empty", e.live)

\* The engine of configuration "now" forgets everything and takes the answer to
\* a request of configuration c for data of its own feed and timeframe.
Bootstrapped(now, c, gotBars, gotTrades) ==
    [bars  |-> IF ~gotBars THEN "empty" ELSE IF c = now THEN "own" ELSE "foreign",
     taken |-> now.tf,
     live  |-> IF ~gotTrades THEN "empty" ELSE IF c.feed = now.feed THEN "own" ELSE "foreign"]

\* The same answer as candles of the key it was requested for.
AsRequested(taken, c, gotBars, gotTrades) ==
    Mix(IF ~gotBars \/ taken > c.tf THEN "empty" ELSE IF taken = c.tf THEN "own" ELSE "foreign",
        IF gotTrades THEN "own" ELSE "empty")

-----------------------------------------------------------------------------
(* The chart feed.                                                         *)

Publish(frames, key, candles) ==
    IF candles = "empty" THEN frames ELSE [frames EXCEPT ![key] = candles]

Cleared(key) ==
    IF key = None THEN latestFrames ELSE [latestFrames EXCEPT ![key] = "empty"]

\* When the render gate publishes a frame, if ever, is RenderGate's subject; a
\* frame goes under the key it was made for.
PublishGated(candles) ==
    latestFrames' \in {latestFrames, Publish(latestFrames, config, candles)}

-----------------------------------------------------------------------------
(* The refresh loop.                                                       *)

Free(rs) == {i \in Ids : rs[i] = None}

Abort(rs, i) == IF i = 0 THEN rs ELSE [rs EXCEPT ![i].aborted = TRUE]

NewRequest(c) ==
    [of |-> c, stage |-> "snapshot", aborted |-> FALSE, ok |-> FALSE, bars |-> FALSE]

RefreshNow_CooldownStops(c, rs, ctl, t) ==
    \/ /\ cooldown \/ (ctl # 0 /\ rs[ctl].of = c)
       /\ requests' = rs /\ controller' = ctl /\ timer' = t
    \/ /\ ~(ctl # 0 /\ rs[ctl].of = c)
       /\ ~cooldown
       /\ \E i \in Free(rs) :
             /\ requests' = [Abort(rs, ctl) EXCEPT ![i] = NewRequest(c)]
             /\ controller' = i
       /\ timer' = t

RefreshNow_OneAtATime(c, rs, ctl, t) ==
    \/ /\ ctl # 0
       /\ requests' = rs /\ controller' = ctl /\ timer' = t
    \/ /\ ctl = 0 /\ cooldown
       /\ requests' = rs /\ controller' = ctl /\ timer' = TRUE
    \/ /\ ctl = 0 /\ ~cooldown
       /\ \E i \in Free(rs) : requests' = [rs EXCEPT ![i] = NewRequest(c)] /\ controller' = i
       /\ timer' = t

\* refreshNow for configuration c, from the requests rs, the controller ctl and
\* the timer t that its caller left: nothing to do while the same key is being
\* fetched, a later attempt during the cooldown, otherwise a new fetch.
RefreshNow(c, rs, ctl, t) ==
    \/ /\ ctl # 0 /\ rs[ctl].of = c
       /\ requests' = rs /\ controller' = ctl /\ timer' = t
    \/ /\ ~(ctl # 0 /\ rs[ctl].of = c)
       /\ cooldown
       /\ requests' = rs /\ controller' = ctl /\ timer' = TRUE
    \/ /\ ~(ctl # 0 /\ rs[ctl].of = c)
       /\ ~cooldown
       /\ \E i \in Free(rs) :
             /\ \A j \in Free(rs) : i <= j
             /\ requests' = [Abort(rs, ctl) EXCEPT ![i] = NewRequest(c)]
             /\ controller' = i
       /\ timer' = t

\* Called by the user interface, a watchdog, a stream that cools down, and by
\* connect when this key is connected already but nothing was ever shown.
RefreshByHand ==
    /\ config # None
    /\ RefreshNow(config, requests, controller, timer)
    /\ UNCHANGED <<config, engine, shown, latestFrames, cooldown, synced>>

TimerFires ==
    /\ timer
    /\ IF config = None
       THEN timer' = FALSE /\ UNCHANGED <<requests, controller>>
       ELSE RefreshNow(config, requests, controller, FALSE)
    /\ UNCHANGED <<config, engine, shown, latestFrames, cooldown, synced>>

CooldownEnds ==
    /\ cooldown
    /\ cooldown' = FALSE
    /\ UNCHANGED <<config, engine, shown, latestFrames, requests, controller,
                   timer, synced>>

Released(i) == IF controller = i THEN 0 ELSE controller

\* What follows the last await: the engine of the moment is bootstrapped with
\* the answer, the series is published under the key of the request, and the
\* next refresh is scheduled.
Apply(i, gotBars, gotTrades) ==
    LET c == requests[i].of
        e == IF engine = None THEN None ELSE Bootstrapped(config, c, gotBars, gotTrades)
        taken == IF engine = None THEN c.tf ELSE config.tf
        series == AsRequested(taken, c, gotBars, gotTrades /\ engine # None)
    IN  /\ engine' = e
        /\ latestFrames' = Publish(latestFrames, c, series)
        /\ shown' = IF series = "empty" THEN shown
                    ELSE IF c = config THEN series ELSE "foreign"
        /\ requests' = [requests EXCEPT ![i] = None]
        /\ controller' = Released(i)
        /\ timer' = TRUE
        /\ synced' = (synced \/ c = config)
        /\ UNCHANGED config

Overtaken(r) == r.aborted \/ r.of # config

SnapshotAnswers_Unchecked(i) ==
    /\ requests[i] # None
    /\ requests[i].stage = "snapshot"
    /\ \E gotTrades \in BOOLEAN : Apply(i, TRUE, gotTrades)
    /\ cooldown' = FALSE

\* The snapshot and the quotes have answered or failed.
SnapshotAnswers(i) ==
    /\ requests[i] # None
    /\ requests[i].stage = "snapshot"
    /\ \/ /\ Overtaken(requests[i])
          /\ requests' = [requests EXCEPT ![i] = None]
          /\ controller' = Released(i)
          /\ UNCHANGED <<config, engine, shown, latestFrames, timer, cooldown,
                         synced>>
       \/ /\ ~Overtaken(requests[i])
          /\ \E gotTrades \in BOOLEAN : Apply(i, TRUE, gotTrades)
          /\ cooldown' = FALSE
       \/ /\ ~Overtaken(requests[i])
          /\ \E ok, bars \in BOOLEAN :
                /\ bars => ok
                /\ requests' = [requests EXCEPT ![i].stage = "fallback",
                                                ![i].ok = ok, ![i].bars = bars]
          /\ UNCHANGED <<config, engine, shown, latestFrames, controller,
                         timer, cooldown, synced>>

\* The fallback routes have answered, failed or were aborted; neither the
\* signal nor the configuration is looked at again.
FallbackAnswers(i) ==
    /\ requests[i] # None
    /\ requests[i].stage = "fallback"
    /\ cooldown' = ~requests[i].ok
    /\ \E gotBars, gotTrades \in BOOLEAN :
          /\ requests[i].bars => gotBars
          /\ gotTrades => requests[i].ok
          /\ Apply(i, gotBars, gotTrades)

-----------------------------------------------------------------------------
(* Connecting.                                                             *)

\* Another timeframe of the same feed: the engine, the sockets, the render gate
\* and, during a cooldown, the request in flight stay as they are.
ConnectTimeframe(c) ==
    LET series == SeriesOf(engine, c.tf) IN
    /\ config # None
    /\ c.feed = config.feed /\ c.tf # config.tf
    /\ config' = c
    /\ shown' = series
    /\ latestFrames' = Publish(Cleared(config), c, series)
    /\ synced' = FALSE
    /\ RefreshNow(c, requests, controller, timer)
    /\ UNCHANGED <<engine, cooldown>>

ConnectFeed(c) ==
    /\ config # None => config.feed # c.feed
    /\ config' = c
    /\ engine' = NewEngine(c)
    /\ shown' = "empty"
    /\ latestFrames' = Cleared(config)
    /\ synced' = FALSE
    /\ RefreshNow(c, Abort(requests, controller), 0, FALSE)
    /\ UNCHANGED cooldown

Disconnect_KeepsController ==
    /\ config # None
    /\ config' = None
    /\ engine' = None
    /\ shown' = "empty"
    /\ latestFrames' = Cleared(config)
    /\ requests' = Abort(requests, controller)
    /\ timer' = FALSE
    /\ synced' = FALSE
    /\ UNCHANGED <<controller, cooldown>>

Disconnect ==
    /\ config # None
    /\ config' = None
    /\ engine' = None
    /\ shown' = "empty"
    /\ latestFrames' = Cleared(config)
    /\ requests' = Abort(requests, controller)
    /\ controller' = 0
    /\ timer' = FALSE
    /\ synced' = FALSE
    /\ UNCHANGED cooldown

-----------------------------------------------------------------------------
(* Live data of the sockets of the current feed (ChartSockets).            *)

\* drainTradeRings; the bars go to React at most every 750 ms.
DrainTradeRings ==
    /\ config # None
    /\ LET e == [engine EXCEPT !.live = Mix(@, "own")]
           series == SeriesOf(e, config.tf)
       IN  /\ engine' = e
           /\ PublishGated(series)
           /\ \/ shown' = series
              \/ shown # "empty" /\ UNCHANGED shown
    /\ UNCHANGED <<config, requests, controller, timer, cooldown, synced>>

\* A depth message sends the bars of the snapshot through the gate again.
DepthMessage ==
    /\ config # None
    /\ shown # "empty"
    /\ PublishGated(shown)
    /\ UNCHANGED <<config, engine, shown, requests, controller, timer,
                   cooldown, synced>>

Next ==
    \/ \E c \in Config : ConnectTimeframe(c) \/ ConnectFeed(c)
    \/ Disconnect
    \/ RefreshByHand
    \/ TimerFires
    \/ CooldownEnds
    \/ \E i \in Ids : SnapshotAnswers(i) \/ FallbackAnswers(i)
    \/ DrainTradeRings
    \/ DepthMessage

Spec == Init /\ [][Next]_vars

\* Every fetch is answered, fails or is aborted, and time passes.  Nothing is
\* assumed of the user or of the routes' success.
Fairness ==
    /\ \A i \in Ids : WF_vars(SnapshotAnswers(i)) /\ WF_vars(FallbackAnswers(i))
    /\ WF_vars(TimerFires)
    /\ WF_vars(CooldownEnds)

FairSpec == Spec /\ Fairness

-----------------------------------------------------------------------------
(* Properties.                                                             *)

\* As long as something is connected the refresh loop goes on, on every early
\* return: an answer for this key is awaited, or the timer is set.
RefreshLoopAlive ==
    config # None =>
        timer \/ (controller # 0 /\ requests[controller].of = config)

\* What the bus holds, shows and has published belongs to its key.
AllOwn ==
    /\ engine # None => "foreign" \notin {engine.bars, engine.live}
    /\ shown # "foreign" /\ (config = None => shown = "empty")
    /\ \A k \in Config : latestFrames[k] # "foreign"

\* A fallback answer of a request that was overtaken is applied in this step.
OvertakenFallback ==
    \E i \in Ids : /\ requests[i] # None /\ requests'[i] = None
                   /\ requests[i].stage = "fallback"
                   /\ Overtaken(requests[i])

\* Candles of another instrument or timeframe get under a key in one way only:
\* by a refresh that was overtaken while it awaited the fallback routes.
ForeignDataIsTraced == [][AllOwn /\ ~AllOwn' => OvertakenFallback]_vars

\* Every configuration that stays connected is refreshed, whatever was in
\* flight and however long an earlier failure blocks the route.
ConnectedIsRefreshed ==
    \A c \in Config : config = c ~> (synced \/ config # c)
=============================================================================
