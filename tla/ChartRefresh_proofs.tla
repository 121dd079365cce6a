------------------------ MODULE ChartRefresh_proofs ------------------------
(***************************************************************************)
(* The refresh loop, for every set of configurations and any number of     *)
(* refreshes in flight: it never stops while something is connected, and   *)
(* there is one way for data of another configuration to get in.           *)
(***************************************************************************)
EXTENDS ChartRefresh, TLAPS

IInv == TypeOK /\ RefreshLoopAlive

-----------------------------------------------------------------------------
(* The operators of the loop.                                              *)

LEMMA AbortKeeps ==
    ASSUME NEW rs \in [Ids -> Request \cup {None}], NEW ctl \in Ids \cup {0},
           ctl # 0 => rs[ctl] # None
    PROVE  /\ Abort(rs, ctl) \in [Ids -> Request \cup {None}]
           /\ \A i \in Ids : i # ctl => Abort(rs, ctl)[i] = rs[i]
<1>1. CASE ctl = 0
  BY <1>1 DEF Abort
<1>2. CASE ctl # 0
  <2>1. rs[ctl] \in Request
    BY <1>2
  <2>2. [rs[ctl] EXCEPT !.aborted = TRUE] \in Request
    BY <2>1 DEF Request
  <2>3. Abort(rs, ctl) = [rs EXCEPT ![ctl] = [rs[ctl] EXCEPT !.aborted = TRUE]]
    BY <1>2 DEF Abort
  <2>. QED
    BY <2>2, <2>3
<1>. QED
  BY <1>1, <1>2

LEMMA NewRequestType ==
    ASSUME NEW c \in Config
    PROVE  /\ NewRequest(c) \in Request /\ NewRequest(c) # None
           /\ NewRequest(c).of = c /\ ~NewRequest(c).aborted
<1>1. NewRequest(c) \in Request
  BY DEF NewRequest, Request
<1>. QED
  BY <1>1, NoneIsNothing DEF NewRequest

\* Every way out of refreshNow leaves the timer or a fetch of this key behind.
LEMMA RefreshNowYields ==
    ASSUME NEW c \in Config,
           NEW rs \in [Ids -> Request \cup {None}],
           NEW ctl \in Ids \cup {0},
           ctl # 0 => rs[ctl] # None /\ ~rs[ctl].aborted,
           NEW t \in BOOLEAN,
           RefreshNow(c, rs, ctl, t)
    PROVE  /\ requests' \in [Ids -> Request \cup {None}]
           /\ controller' \in Ids \cup {0}
           /\ controller' # 0 =>
                 requests'[controller'] # None /\ ~requests'[controller'].aborted
           /\ timer' \in BOOLEAN
           /\ timer' \/ (controller' # 0 /\ requests'[controller'].of = c)
<1>1. CASE /\ ctl # 0 /\ rs[ctl].of = c
           /\ requests' = rs /\ controller' = ctl /\ timer' = t
  BY <1>1
<1>2. CASE requests' = rs /\ controller' = ctl /\ timer' = TRUE
  <2>1. timer' \in BOOLEAN /\ timer'
    BY <1>2, Zenon
  <2>2. requests' = rs /\ controller' = ctl
    BY <1>2
  <2>. QED
    BY <2>1, <2>2
<1>3. CASE \E i \in Free(rs) :
              /\ requests' = [Abort(rs, ctl) EXCEPT ![i] = NewRequest(c)]
              /\ controller' = i
              /\ timer' = t
  <2>1. PICK i \in Free(rs) :
              /\ requests' = [Abort(rs, ctl) EXCEPT ![i] = NewRequest(c)]
              /\ controller' = i
              /\ timer' = t
    BY <1>3
  <2>2. i \in Ids /\ i # 0
    BY DEF Free, Ids
  <2>3. requests' \in [Ids -> Request \cup {None}] /\ requests'[i] = NewRequest(c)
    BY <2>1, <2>2, AbortKeeps, NewRequestType
  <2>. QED
    BY <2>1, <2>2, <2>3, NewRequestType
<1>4. \/ /\ ctl # 0 /\ rs[ctl].of = c
         /\ requests' = rs /\ controller' = ctl /\ timer' = t
      \/ requests' = rs /\ controller' = ctl /\ timer' = TRUE
      \/ \E i \in Free(rs) :
              /\ requests' = [Abort(rs, ctl) EXCEPT ![i] = NewRequest(c)]
              /\ controller' = i
              /\ timer' = t
  BY Zenon DEF RefreshNow
<1>. QED
  BY <1>1, <1>2, <1>3, <1>4, Zenon

-----------------------------------------------------------------------------
(* The operators on candles.                                               *)

LEMMA MixType ==
    ASSUME NEW a \in Candles, NEW b \in Candles
    PROVE  /\ Mix(a, b) \in Candles
           /\ a # "foreign" /\ b # "foreign" => Mix(a, b) # "foreign"
BY DEF Mix, Candles

LEMMA SeriesType ==
    ASSUME NEW e \in Engine, NEW tf
    PROVE  /\ SeriesOf(e, tf) \in Candles
           /\ "foreign" \notin {e.bars, e.live} => SeriesOf(e, tf) # "foreign"
<1>1. e.bars \in Candles /\ e.live \in Candles /\ "empty" \in Candles
  BY DEF Engine, Candles
<1>2. CASE tf >= e.taken
  <2>1. SeriesOf(e, tf) = Mix(e.bars, e.live)
    BY <1>2 DEF SeriesOf
  <2>. QED
    BY <1>1, <2>1, MixType
<1>3. CASE ~(tf >= e.taken)
  <2>1. SeriesOf(e, tf) = Mix("empty", e.live)
    BY <1>3 DEF SeriesOf
  <2>. QED
    BY <1>1, <2>1, MixType
<1>. QED
  BY <1>2, <1>3

LEMMA PublishType ==
    ASSUME NEW frames \in [Config -> Candles], NEW key \in Config, NEW candles \in Candles
    PROVE  /\ Publish(frames, key, candles) \in [Config -> Candles]
           /\ candles # "foreign" /\ (\A k \in Config : frames[k] # "foreign")
                => \A k \in Config : Publish(frames, key, candles)[k] # "foreign"
BY DEF Publish

LEMMA ClearedType ==
    ASSUME TypeOK
    PROVE  /\ Cleared(config) \in [Config -> Candles]
           /\ (\A k \in Config : latestFrames[k] # "foreign")
                => \A k \in Config : Cleared(config)[k] # "foreign"
BY DEF TypeOK, Cleared, Candles

LEMMA NewEngineType ==
    ASSUME NEW c \in Config
    PROVE  NewEngine(c) \in Engine /\ NewEngine(c) # None
<1>1. NewEngine(c) \in Engine
  BY DEF NewEngine, Engine, Candles
<1>. QED
  BY <1>1, NoneIsNothing

\* An answer for the configuration that is connected brings nothing foreign.
LEMMA BootstrappedType ==
    ASSUME NEW now \in Config, NEW c \in Config,
           NEW gotBars \in BOOLEAN, NEW gotTrades \in BOOLEAN
    PROVE  /\ Bootstrapped(now, c, gotBars, gotTrades) \in Engine
           /\ c = now => /\ Bootstrapped(now, c, gotBars, gotTrades).bars # "foreign"
                         /\ Bootstrapped(now, c, gotBars, gotTrades).live # "foreign"
BY DEF Bootstrapped, Engine, Candles

LEMMA AsRequestedType ==
    ASSUME NEW taken \in Nat, NEW c \in Config,
           NEW gotBars \in BOOLEAN, NEW gotTrades \in BOOLEAN
    PROVE  /\ AsRequested(taken, c, gotBars, gotTrades) \in Candles
           /\ taken = c.tf => AsRequested(taken, c, gotBars, gotTrades) # "foreign"
<1>. DEFINE a == IF ~gotBars \/ taken > c.tf THEN "empty" ELSE IF taken = c.tf THEN "own" ELSE "foreign"
            b == IF gotTrades THEN "own" ELSE "empty"
<1>1. a \in Candles /\ b \in Candles /\ b # "foreign" /\ (taken = c.tf => a # "foreign")
  BY DEF Candles
<1>2. AsRequested(taken, c, gotBars, gotTrades) = Mix(a, b)
  BY DEF AsRequested
<1>. QED
  BY <1>1, <1>2, MixType

LEMMA TimeframeType ==
    ASSUME NEW c \in Config
    PROVE  c.tf \in Nat
BY ConfigsHaveLengths

\* What an answer leaves, and that nothing foreign comes from one that was not
\* overtaken.
LEMMA ApplyYields ==
    ASSUME TypeOK, NEW i \in Ids, requests[i] # None,
           NEW gotBars \in BOOLEAN, NEW gotTrades \in BOOLEAN,
           Apply(i, gotBars, gotTrades), cooldown' \in BOOLEAN
    PROVE  /\ TypeOK' /\ timer'
           /\ AllOwn /\ requests[i].of = config => AllOwn'
<1>. DEFINE c == requests[i].of
            got == gotTrades /\ engine # None
            taken == IF engine = None THEN c.tf ELSE config.tf
            series == AsRequested(taken, c, gotBars, got)
<1>1. c \in Config /\ got \in BOOLEAN /\ taken \in Nat
  BY TimeframeType DEF TypeOK, Request
<1>2. series \in Candles /\ (taken = c.tf => series # "foreign")
  BY <1>1, AsRequestedType
<1>3. /\ timer' \in BOOLEAN /\ timer'
      /\ config' = config
      /\ controller' = Released(i)
      /\ requests' = [requests EXCEPT ![i] = None]
      /\ latestFrames' = Publish(latestFrames, c, series)
      /\ engine' = IF engine = None THEN None ELSE Bootstrapped(config, c, gotBars, gotTrades)
      /\ shown' = IF series = "empty" THEN shown
                  ELSE IF c = config THEN series ELSE "foreign"
  BY Zenon DEF Apply
<1>4. synced' \in BOOLEAN
  BY Zenon DEF Apply, TypeOK
<1>5. /\ engine' \in Engine \cup {None}
      /\ engine' = None <=> config' = None
      /\ AllOwn /\ c = config /\ engine' # None => "foreign" \notin {engine'.bars, engine'.live}
  BY <1>1, <1>3, BootstrappedType, NoneIsNothing DEF TypeOK
<1>6. latestFrames' \in [Config -> Candles] /\ shown' \in Candles
  BY <1>1, <1>2, <1>3, PublishType DEF TypeOK, Candles
<1>7. /\ requests' \in [Ids -> Request \cup {None}]
      /\ controller' \in Ids \cup {0}
      /\ controller' # 0 => requests'[controller'] # None /\ ~requests'[controller'].aborted
  BY <1>3 DEF TypeOK, Released
<1>8. ASSUME AllOwn, c = config PROVE AllOwn'
  <2>1. series # "foreign" /\ config # None
    BY <1>1, <1>2, <1>8, NoneIsNothing DEF TypeOK
  <2>2. \A k \in Config : latestFrames'[k] # "foreign"
    BY <1>1, <1>2, <1>3, <1>8, <2>1, PublishType DEF AllOwn, TypeOK
  <2>3. shown' # "foreign"
    BY <1>3, <1>8, <2>1 DEF AllOwn
  <2>. QED
    BY <1>3, <1>5, <1>8, <2>1, <2>2, <2>3 DEF AllOwn
<1>. QED
  BY <1>3, <1>4, <1>5, <1>6, <1>7, <1>8 DEF TypeOK

-----------------------------------------------------------------------------
(* The steps.  OwnStep: what was not foreign stays so.                     *)

OwnStep == AllOwn => AllOwn' \/ OvertakenFallback

LEMMA InitHolds == Init => IInv
<1>. SUFFICES ASSUME Init PROVE IInv
  OBVIOUS
<1>1. /\ config = None /\ engine = None /\ shown = "empty" /\ controller = 0
      /\ latestFrames = [k \in Config |-> "empty"]
      /\ requests = [i \in Ids |-> None]
  BY DEF Init
<1>2. timer \in BOOLEAN /\ cooldown \in BOOLEAN /\ synced \in BOOLEAN
  BY Zenon DEF Init
<1>. QED
  BY <1>1, <1>2 DEF IInv, TypeOK, RefreshLoopAlive, Candles

LEMMA RefreshByHandStep ==
    ASSUME IInv, RefreshByHand
    PROVE  IInv' /\ OwnStep
<1>1. /\ config \in Config /\ RefreshNow(config, requests, controller, timer)
      /\ UNCHANGED <<config, engine, shown, latestFrames, cooldown, synced>>
  BY DEF IInv, TypeOK, RefreshByHand
<1>. QED
  BY <1>1, RefreshNowYields DEF IInv, TypeOK, RefreshLoopAlive, OwnStep, AllOwn

LEMMA TimerFiresStep ==
    ASSUME IInv, TimerFires
    PROVE  IInv' /\ OwnStep
<1>1. UNCHANGED <<config, engine, shown, latestFrames, cooldown, synced>>
  BY DEF TimerFires
<1>2. CASE config = None
  <2>1. UNCHANGED <<requests, controller>> /\ timer' \in BOOLEAN
    BY <1>2, Zenon DEF TimerFires
  <2>. QED
    BY <1>1, <1>2, <2>1 DEF IInv, TypeOK, RefreshLoopAlive, OwnStep, AllOwn
<1>3. CASE config # None
  <2>1. config \in Config /\ RefreshNow(config, requests, controller, FALSE)
    BY <1>3 DEF IInv, TypeOK, TimerFires
  <2>. QED
    BY <1>1, <2>1, RefreshNowYields DEF IInv, TypeOK, RefreshLoopAlive, OwnStep, AllOwn
<1>. QED
  BY <1>2, <1>3

LEMMA SnapshotAnswersStep ==
    ASSUME IInv, NEW i \in Ids, SnapshotAnswers(i)
    PROVE  IInv' /\ OwnStep
<1>1. requests[i] # None /\ requests[i] \in Request /\ TypeOK
  BY DEF IInv, TypeOK, SnapshotAnswers
\* The controller is neither aborted nor of another configuration.
<1>2. CASE /\ Overtaken(requests[i])
           /\ requests' = [requests EXCEPT ![i] = None]
           /\ controller' = Released(i)
           /\ UNCHANGED <<config, engine, shown, latestFrames, timer, cooldown, synced>>
  <2>1. TypeOK'
    BY <1>2 DEF IInv, TypeOK, Released
  <2>2. RefreshLoopAlive'
    BY <1>2 DEF IInv, TypeOK, RefreshLoopAlive, Released, Overtaken
  <2>. QED
    BY <1>2, <2>1, <2>2 DEF IInv, OwnStep, AllOwn
<1>3. ASSUME ~Overtaken(requests[i]), NEW gotTrades \in BOOLEAN,
             Apply(i, TRUE, gotTrades), cooldown' = FALSE
      PROVE  IInv' /\ OwnStep
  <2>1. cooldown' \in BOOLEAN
    BY <1>3, Zenon
  <2>. QED
    BY <1>1, <1>3, <2>1, ApplyYields DEF IInv, RefreshLoopAlive, OwnStep, Overtaken
<1>4. ASSUME NEW ok \in BOOLEAN, NEW bars \in BOOLEAN,
             requests' = [requests EXCEPT ![i].stage = "fallback",
                                          ![i].ok = ok, ![i].bars = bars],
             UNCHANGED <<config, engine, shown, latestFrames, controller, timer,
                         cooldown, synced>>
      PROVE  IInv' /\ OwnStep
  <2>. DEFINE r == [requests[i] EXCEPT !.stage = "fallback", !.ok = ok, !.bars = bars]
  <2>1. r \in Request /\ r.of = requests[i].of /\ r.aborted = requests[i].aborted
    BY <1>1 DEF Request
  <2>2. requests' = [requests EXCEPT ![i] = r]
    BY <1>1, <1>4 DEF TypeOK
  <2>3. r # None
    BY <2>1, NoneIsNothing
  <2>. HIDE DEF r
  <2>4. /\ requests' \in [Ids -> Request \cup {None}]
        /\ controller # 0 => /\ requests'[controller] # None
                             /\ ~requests'[controller].aborted
                             /\ requests'[controller].of = requests[controller].of
    BY <1>1, <2>1, <2>2, <2>3 DEF TypeOK
  <2>. QED
    BY <1>4, <2>4 DEF IInv, TypeOK, RefreshLoopAlive, OwnStep, AllOwn
<1>. QED
  BY <1>2, <1>3, <1>4 DEF SnapshotAnswers

LEMMA FallbackAnswersStep ==
    ASSUME IInv, NEW i \in Ids, FallbackAnswers(i)
    PROVE  IInv' /\ OwnStep
<1>1. TypeOK /\ requests[i] # None /\ requests[i] \in Request /\ requests[i].stage = "fallback"
  BY DEF IInv, TypeOK, FallbackAnswers
<1>2. cooldown' \in BOOLEAN
  BY Zenon DEF FallbackAnswers
<1>3. PICK gotBars \in BOOLEAN, gotTrades \in BOOLEAN : Apply(i, gotBars, gotTrades)
  BY DEF FallbackAnswers
<1>4. TypeOK' /\ timer' /\ (AllOwn /\ requests[i].of = config => AllOwn')
  BY <1>1, <1>2, <1>3, ApplyYields
<1>5. requests'[i] = None
  BY <1>1, <1>3 DEF Apply, TypeOK
<1>6. OwnStep
  BY <1>1, <1>4, <1>5 DEF OwnStep, OvertakenFallback, Overtaken
<1>. QED
  BY <1>4, <1>6 DEF IInv, RefreshLoopAlive

LEMMA ConnectTimeframeStep ==
    ASSUME IInv, NEW c \in Config, ConnectTimeframe(c)
    PROVE  IInv' /\ OwnStep
<1>. DEFINE series == SeriesOf(engine, c.tf)
<1>1. TypeOK /\ config \in Config /\ engine \in Engine /\ engine # None /\ c # None
  BY NoneIsNothing DEF IInv, TypeOK, ConnectTimeframe
<1>2. series \in Candles /\ ("foreign" \notin {engine.bars, engine.live} => series # "foreign")
  BY <1>1, SeriesType
<1>3. /\ config' = c /\ shown' = series /\ engine' = engine /\ cooldown' = cooldown
      /\ latestFrames' = Publish(Cleared(config), c, series)
      /\ RefreshNow(c, requests, controller, timer)
  BY DEF ConnectTimeframe
<1>4. synced' \in BOOLEAN
  BY Zenon DEF ConnectTimeframe
<1>5. /\ latestFrames' \in [Config -> Candles]
      /\ AllOwn => \A k \in Config : latestFrames'[k] # "foreign"
  <2>. HIDE DEF series
  <2>. QED
    BY <1>1, <1>2, <1>3, ClearedType, PublishType DEF AllOwn
<1>6. /\ requests' \in [Ids -> Request \cup {None}]
      /\ controller' \in Ids \cup {0}
      /\ controller' # 0 => requests'[controller'] # None /\ ~requests'[controller'].aborted
      /\ timer' \in BOOLEAN
      /\ timer' \/ (controller' # 0 /\ requests'[controller'].of = c)
  BY <1>1, <1>3, RefreshNowYields DEF TypeOK
<1>. HIDE DEF series
<1>7. TypeOK' /\ RefreshLoopAlive'
  BY <1>1, <1>2, <1>3, <1>4, <1>5, <1>6 DEF TypeOK, RefreshLoopAlive
<1>8. AllOwn => AllOwn'
  BY <1>1, <1>2, <1>3, <1>5 DEF AllOwn
<1>. QED
  BY <1>7, <1>8 DEF IInv, OwnStep

LEMMA ConnectFeedStep ==
    ASSUME IInv, NEW c \in Config, ConnectFeed(c)
    PROVE  IInv' /\ OwnStep
<1>1. TypeOK /\ c # None /\ NewEngine(c) \in Engine /\ NewEngine(c) # None
  BY NewEngineType, NoneIsNothing DEF IInv
<1>2. /\ config' = c /\ engine' = NewEngine(c) /\ shown' = "empty" /\ cooldown' = cooldown
      /\ latestFrames' = Cleared(config)
      /\ RefreshNow(c, Abort(requests, controller), 0, FALSE)
  BY DEF ConnectFeed
<1>3. synced' \in BOOLEAN
  BY Zenon DEF ConnectFeed
<1>4. Abort(requests, controller) \in [Ids -> Request \cup {None}]
  BY <1>1, AbortKeeps DEF TypeOK
<1>5. /\ requests' \in [Ids -> Request \cup {None}]
      /\ controller' \in Ids \cup {0}
      /\ controller' # 0 => requests'[controller'] # None /\ ~requests'[controller'].aborted
      /\ timer' \in BOOLEAN
      /\ timer' \/ (controller' # 0 /\ requests'[controller'].of = c)
  BY <1>2, <1>4, RefreshNowYields
<1>6. TypeOK' /\ RefreshLoopAlive'
  BY <1>1, <1>2, <1>3, <1>5, ClearedType DEF TypeOK, RefreshLoopAlive, Candles
<1>7. "foreign" \notin {NewEngine(c).bars, NewEngine(c).live}
  BY DEF NewEngine
<1>8. AllOwn => AllOwn'
  BY <1>1, <1>2, <1>7, ClearedType DEF AllOwn
<1>. QED
  BY <1>6, <1>8 DEF IInv, OwnStep

LEMMA DisconnectStep ==
    ASSUME IInv, Disconnect
    PROVE  IInv' /\ OwnStep
<1>1. TypeOK
  BY DEF IInv
<1>2. timer' \in BOOLEAN /\ synced' \in BOOLEAN
  BY Zenon DEF Disconnect
<1>3. /\ config' = None /\ engine' = None /\ shown' = "empty" /\ cooldown' = cooldown
      /\ latestFrames' = Cleared(config) /\ controller' = 0
      /\ requests' = Abort(requests, controller)
  BY DEF Disconnect
<1>4. requests' \in [Ids -> Request \cup {None}]
  BY <1>1, <1>3, AbortKeeps DEF TypeOK
<1>5. TypeOK' /\ RefreshLoopAlive'
  BY <1>1, <1>2, <1>3, <1>4, ClearedType DEF TypeOK, RefreshLoopAlive, Candles
<1>. QED
  BY <1>1, <1>3, <1>5, ClearedType DEF IInv, OwnStep, AllOwn

LEMMA PublishGatedType ==
    ASSUME TypeOK, config # None, NEW candles \in Candles, PublishGated(candles)
    PROVE  /\ latestFrames' \in [Config -> Candles]
           /\ candles # "foreign" /\ (\A k \in Config : latestFrames[k] # "foreign")
                => \A k \in Config : latestFrames'[k] # "foreign"
<1>1. latestFrames \in [Config -> Candles] /\ config \in Config
  BY DEF TypeOK
<1>2. latestFrames' = latestFrames \/ latestFrames' = Publish(latestFrames, config, candles)
  BY DEF PublishGated
<1>. QED
  BY <1>1, <1>2, PublishType

LEMMA DrainTradeRingsStep ==
    ASSUME IInv, DrainTradeRings
    PROVE  IInv' /\ OwnStep
<1>. DEFINE e == [engine EXCEPT !.live = Mix(engine.live, "own")]
            series == SeriesOf(e, config.tf)
<1>1. TypeOK /\ config # None /\ engine \in Engine /\ engine # None
  BY DEF IInv, TypeOK, DrainTradeRings
<1>2. engine.live \in Candles /\ "own" \in Candles
  BY <1>1 DEF Engine, Candles
<1>3. /\ Mix(engine.live, "own") \in Candles
      /\ engine.live # "foreign" => Mix(engine.live, "own") # "foreign"
  BY <1>2, MixType
<1>4. /\ e \in Engine
      /\ e.bars = engine.bars /\ e.live = Mix(engine.live, "own")
  BY <1>1, <1>3 DEF Engine
<1>5. e # None
  BY <1>4, NoneIsNothing
<1>6. /\ engine' = e /\ PublishGated(series)
      /\ shown' \in {series, shown}
      /\ UNCHANGED <<config, requests, controller, timer, cooldown, synced>>
  BY DEF DrainTradeRings
<1>. HIDE DEF e
<1>7. series \in Candles /\ ("foreign" \notin {e.bars, e.live} => series # "foreign")
  BY <1>4, SeriesType
<1>. HIDE DEF series
<1>8. /\ latestFrames' \in [Config -> Candles]
      /\ AllOwn => \A k \in Config : latestFrames'[k] # "foreign"
  BY <1>1, <1>3, <1>4, <1>6, <1>7, PublishGatedType DEF AllOwn
<1>9. TypeOK' /\ RefreshLoopAlive'
  BY <1>1, <1>4, <1>5, <1>6, <1>7, <1>8 DEF IInv, TypeOK, RefreshLoopAlive
<1>10. AllOwn => AllOwn'
  BY <1>1, <1>3, <1>4, <1>6, <1>7, <1>8 DEF AllOwn
<1>. QED
  BY <1>9, <1>10 DEF IInv, OwnStep

LEMMA DepthMessageStep ==
    ASSUME IInv, DepthMessage
    PROVE  IInv' /\ OwnStep
<1>1. /\ TypeOK /\ config # None /\ shown \in Candles /\ PublishGated(shown)
      /\ UNCHANGED <<config, engine, shown, requests, controller, timer, cooldown, synced>>
  BY DEF IInv, TypeOK, DepthMessage
<1>2. latestFrames' \in [Config -> Candles] /\ (AllOwn => AllOwn')
  BY <1>1, PublishGatedType DEF AllOwn
<1>. QED
  BY <1>1, <1>2 DEF IInv, TypeOK, RefreshLoopAlive, OwnStep

LEMMA CooldownEndsStep ==
    ASSUME IInv, CooldownEnds
    PROVE  IInv' /\ OwnStep
<1>1. cooldown' \in BOOLEAN
  BY Zenon DEF CooldownEnds
<1>2. UNCHANGED <<config, engine, shown, latestFrames, requests, controller, timer, synced>>
  BY DEF CooldownEnds
<1>. QED
  BY <1>1, <1>2 DEF IInv, TypeOK, RefreshLoopAlive, OwnStep, AllOwn

LEMMA NextStep ==
    ASSUME IInv, [Next]_vars
    PROVE  IInv' /\ OwnStep
<1>1. CASE UNCHANGED vars
  BY <1>1 DEF vars, IInv, TypeOK, RefreshLoopAlive, OwnStep, AllOwn
<1>. QED
  BY <1>1, RefreshByHandStep, TimerFiresStep, SnapshotAnswersStep, FallbackAnswersStep,
     ConnectTimeframeStep, ConnectFeedStep, DisconnectStep, DrainTradeRingsStep,
     DepthMessageStep, CooldownEndsStep DEF Next

LEMMA Inductive == Spec => []IInv
<1>1. IInv /\ [Next]_vars => IInv'
  BY NextStep
<1>. QED
  BY InitHolds, <1>1, PTL DEF Spec

\* Type correctness of the bus, whatever is in flight.
THEOREM TypeCorrect == Spec => []TypeOK
<1>1. IInv => TypeOK
  BY DEF IInv
<1>. QED
  BY Inductive, <1>1, PTL

\* No early return of refreshNow ends the loop.
THEOREM LoopAlive == Spec => []RefreshLoopAlive
<1>1. IInv => RefreshLoopAlive
  BY DEF IInv
<1>. QED
  BY Inductive, <1>1, PTL

\* Only a refresh that was overtaken at its second await brings in data of another
\* configuration.
THEOREM ForeignTraced == Spec => ForeignDataIsTraced
<1>1. IInv /\ [Next]_vars => [AllOwn /\ ~AllOwn' => OvertakenFallback]_vars
  BY NextStep DEF OwnStep
<1>. QED
  BY Inductive, <1>1, PTL DEF Spec, ForeignDataIsTraced
=============================================================================
