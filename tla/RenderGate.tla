------------------------------ MODULE RenderGate ------------------------------
(***************************************************************************)
(* The gate between the chart's data bus and the frames that are drawn.    *)
(* Frames are sorted by the depth sequence they belong to, gaps get a      *)
(* grace window, and one pending frame at a time waits for the render      *)
(* timer.  The gate runs in a web worker, or in the page when there is no  *)
(* worker or it failed.                                                    *)
(* (ui/mission-control: lib/goldenFrameSequenceGuard.ts, marketDataBus.ts, *)
(*  lib/goldenFrameWorkerAdapter.ts, public/workers/goldenFrameWorker.js)  *)
(*                                                                         *)
(* Of a frame the model keeps its key, its sequence (0 for none), its turn *)
(* (the order in which frames are made) and the era of the gate it was     *)
(* made for.  Whether the grace window has passed is a free choice.  Of    *)
(* the bars the model keeps whether there are any; of the refreshes, those *)
(* that wait for the fallback routes, which nothing stops after that.      *)
(***************************************************************************)
EXTENDS Naturals, FiniteSets, Sequences

CONSTANTS
    Key,            \* keys of the chart feed: a feed and a timeframe
    Nothing,
    Reset,          \* the message that resets the worker
    MaxQueueDepth,
    MaxSequence,    \* bound: depth sequences
    MaxTurn,        \* bound: frames
    MaxEra,         \* bound: connects and failures of the worker
    MaxFallbacks    \* bound: keys whose refresh waits for the fallback routes

ASSUME KeysHaveFeeds == \A k \in Key : "feed" \in DOMAIN k

ASSUME NothingIsNoKey == Nothing \notin Key /\ Nothing # Reset

ASSUME BoundsArePositive ==
    /\ MaxQueueDepth \in Nat \ {0}
    /\ MaxSequence \in Nat \ {0}
    /\ MaxTurn \in Nat \ {0}
    /\ MaxEra \in Nat \ {0}
    /\ MaxFallbacks \in Nat

VARIABLES
    configKey,          \* snapshot.configKey, or Nothing
    bars,               \* snapshot.ohlcvBars is not empty
    refreshing,         \* keys whose refresh waits for the fallback routes
    lastDepthSequence,  \* 0 before the first
    worker,             \* goldenFrameWorker.isAvailable()
    gate,               \* the state of the gate that is in use
    toWorker,           \* messages posted to the worker: frames and Reset
    fromWorker,         \* frames the worker has posted
    turn,
    era,
    newest,             \* auxiliary: sequence of the last frame queued in this era, or Nothing
    released,           \* auxiliary: sequence and era of the last frame through the gate, or Nothing
    shown,              \* the last frame that was published, or Nothing
    jumbled,            \* auxiliary: depth of this era came behind a higher sequence
    overflowed          \* auxiliary: the queue of this era ran over

chartVars == <<bars, refreshing>>

gateVars == <<configKey, chartVars, lastDepthSequence, worker, gate, toWorker,
              fromWorker, turn, era, newest, released, shown, jumbled, overflowed>>

Frame == [key : Key, sequence : 0..MaxSequence, turn : 1..MaxTurn, era : 1..MaxEra,
          gated : BOOLEAN]

\* What the guard remembers of a frame that went through it.
Release == [sequence : 0..MaxSequence, era : 1..MaxEra]

ASSUME NothingIsNoFrame ==
    Nothing \notin Frame /\ Nothing \notin Release /\ Reset \notin Frame

GateTypeOK ==
    /\ configKey \in Key \cup {Nothing}
    /\ bars \in BOOLEAN /\ refreshing \subseteq Key
    /\ lastDepthSequence \in 0..MaxSequence
    /\ newest \in 0..MaxSequence \cup {Nothing}
    /\ worker \in BOOLEAN
    /\ gate.queue \subseteq Frame
    /\ Cardinality(gate.queue) <= MaxQueueDepth
    /\ \A f, g \in gate.queue : f.sequence = g.sequence => f = g
    /\ gate.expected \in 0..(MaxSequence + MaxTurn + 1)
    /\ gate.pending \in Frame \cup {Nothing}
    /\ {gate.gap, gate.renderTimer, gate.sequenceTimer, jumbled, overflowed} \subseteq BOOLEAN
    /\ gate.renderTimer = (gate.pending # Nothing)
    /\ toWorker \in Seq(Frame \cup {Reset}) /\ fromWorker \in Seq(Frame)
    /\ ~worker => toWorker = <<>> /\ fromWorker = <<>>
    /\ turn \in 0..MaxTurn /\ era \in 1..MaxEra
    /\ released \in Release \cup {Nothing}
    /\ shown \in Frame \cup {Nothing}

EmptyGate ==
    [queue |-> {}, expected |-> 0, gap |-> FALSE, pending |-> Nothing,
     renderTimer |-> FALSE, sequenceTimer |-> FALSE]

GateInit ==
    /\ configKey = Nothing
    /\ bars = FALSE /\ refreshing = {}
    /\ lastDepthSequence = 0
    /\ worker \in BOOLEAN
    /\ gate = EmptyGate
    /\ toWorker = <<>> /\ fromWorker = <<>>
    /\ turn = 0
    /\ era = 1
    /\ released = Nothing /\ shown = Nothing
    /\ newest = Nothing
    /\ jumbled = FALSE /\ overflowed = FALSE

-----------------------------------------------------------------------------
(* The sequence guard.                                                     *)

Lowest(fs) == CHOOSE f \in fs : \A g \in fs : f.sequence <= g.sequence

Highest(fs) == CHOOSE f \in fs : \A g \in fs : f.sequence >= g.sequence

Enqueue_Appends(g, frame) ==
    LET queue == g.queue \cup {frame}
        expected == IF g.expected = 0 THEN frame.sequence ELSE g.expected
    IN  IF Cardinality(queue) > MaxQueueDepth
        THEN [g EXCEPT !.queue = queue \ {Lowest(queue)}, !.expected = expected + 1]
        ELSE [g EXCEPT !.queue = queue, !.expected = expected]

\* A frame replaces the one of the same sequence.  A queue that runs over loses
\* its lowest frame and counts its sequence as passed.
Enqueue(g, frame) ==
    LET queue == {f \in g.queue : f.sequence # frame.sequence} \cup {frame}
        expected == IF g.expected = 0 THEN frame.sequence ELSE g.expected
    IN  IF Cardinality(queue) > MaxQueueDepth
        THEN [g EXCEPT !.queue = queue \ {Lowest(queue)}, !.expected = expected + 1]
        ELSE [g EXCEPT !.queue = queue, !.expected = expected]

Passed_DropsHead(g, graceOver) ==
    LET queue == {f \in g.queue : f.sequence >= g.expected} IN
    IF queue # {} /\ Lowest(queue).sequence > g.expected
    THEN [g EXCEPT !.gap = TRUE,
                   !.queue = IF g.gap /\ graceOver THEN queue \ {Lowest(queue)} ELSE queue]
    ELSE [g EXCEPT !.queue = queue]

\* Frames behind the expected sequence are dropped.  A gap is waited for once,
\* and after the grace window one sequence of it is given up.
Passed(g, graceOver) ==
    LET queue == {f \in g.queue : f.sequence >= g.expected} IN
    IF queue # {} /\ Lowest(queue).sequence > g.expected
    THEN [g EXCEPT !.queue = queue, !.gap = TRUE,
                   !.expected = IF g.gap /\ graceOver THEN @ + 1 ELSE @]
    ELSE [g EXCEPT !.queue = queue]

Advance_Stays(g, graceOver) ==
    LET p == Passed(g, graceOver) IN
    IF g.pending # Nothing THEN g
    ELSE IF p.queue = {} THEN p
    ELSE IF Lowest(p.queue).sequence = p.expected
    THEN [p EXCEPT !.queue = @ \ {Lowest(p.queue)}, !.gap = FALSE,
                   !.pending = Lowest(p.queue), !.renderTimer = TRUE]
    ELSE [p EXCEPT !.sequenceTimer = TRUE]

Advance_HighestFirst(g, graceOver) ==
    IF g.pending # Nothing \/ g.queue = {} THEN g
    ELSE [g EXCEPT !.queue = @ \ {Highest(g.queue)}, !.gap = FALSE,
                   !.pending = Highest(g.queue), !.renderTimer = TRUE]

Advance_NoWake(g, graceOver) ==
    LET p == Passed(g, graceOver) IN
    IF g.pending # Nothing \/ p.queue = {} \/ Lowest(p.queue).sequence # p.expected
    THEN IF g.pending # Nothing THEN g ELSE p
    ELSE [p EXCEPT !.queue = @ \ {Lowest(p.queue)}, !.expected = @ + 1, !.gap = FALSE,
                   !.pending = Lowest(p.queue), !.renderTimer = TRUE]

\* advanceSequencedFrames: nothing while a frame is pending; otherwise the next
\* frame becomes pending, or a wake-up is set if frames remain.
Advance(g, graceOver) ==
    LET p == Passed(g, graceOver) IN
    IF g.pending # Nothing THEN g
    ELSE IF p.queue = {} THEN p
    ELSE IF Lowest(p.queue).sequence = p.expected
    THEN [p EXCEPT !.queue = @ \ {Lowest(p.queue)}, !.expected = @ + 1, !.gap = FALSE,
                   !.pending = Lowest(p.queue), !.renderTimer = TRUE]
    ELSE [p EXCEPT !.sequenceTimer = TRUE]

\* A frame without a sequence goes past the guard: it becomes pending, or
\* replaces the content of the pending frame of its key.
QueueUnsequenced(g, frame) ==
    [g EXCEPT !.pending =
                 IF @ # Nothing /\ @.key = frame.key THEN [@ EXCEPT !.turn = frame.turn] ELSE frame,
              !.renderTimer = TRUE]

QueueFrame(g, frame, graceOver) ==
    IF frame.sequence = 0 THEN QueueUnsequenced(g, frame)
    ELSE Advance(Enqueue(g, frame), graceOver)

Overflows(g, frame) ==
    /\ frame.sequence # 0
    /\ Cardinality({f.sequence : f \in g.queue} \cup {frame.sequence}) > MaxQueueDepth

Flushed(g, graceOver) ==
    Advance([g EXCEPT !.pending = Nothing, !.renderTimer = FALSE], graceOver)

-----------------------------------------------------------------------------
(* The bus.                                                                *)

\* What configuration changes leave of the bars and of the gate: in the page the
\* gate is cleared at once, the worker is told to.
GateCleared ==
    /\ bars' = FALSE /\ UNCHANGED refreshing
    /\ lastDepthSequence' = 0
    /\ newest' = Nothing
    /\ jumbled' = FALSE /\ overflowed' = FALSE
    /\ IF worker
       THEN toWorker' = Append(toWorker, Reset) /\ UNCHANGED gate
       ELSE gate' = EmptyGate /\ UNCHANGED toWorker

ConnectFeed(k) ==
    /\ configKey # Nothing => configKey.feed # k.feed
    /\ configKey' = k
    /\ era < MaxEra
    /\ era' = era + 1
    /\ GateCleared
    /\ UNCHANGED <<worker, fromWorker, turn, released, shown>>

DisconnectFeed ==
    /\ configKey # Nothing
    /\ configKey' = Nothing
    /\ GateCleared
    /\ UNCHANGED <<worker, fromWorker, turn, era, released, shown>>

NewFrame(k, sequence, gated) ==
    [key |-> k, sequence |-> sequence, turn |-> turn + 1, era |-> era, gated |-> gated]

\* publishEngineFrame without the gate, for bars that are not empty.  No guard
\* will sort the frame, whose sequence is left out.
PublishNow(k) ==
    /\ turn < MaxTurn
    /\ turn' = turn + 1
    /\ shown' = NewFrame(k, 0, FALSE)
    /\ UNCHANGED <<lastDepthSequence, worker, gate, toWorker, fromWorker, era,
                   newest, released, jumbled, overflowed>>

PublishNothing ==
    UNCHANGED <<lastDepthSequence, worker, gate, toWorker, fromWorker, turn, era,
                newest, released, shown, jumbled, overflowed>>

\* A snapshot that came complete, or a price tick that changed the current bar.
RefreshAnswers ==
    /\ configKey # Nothing
    /\ PublishNow(configKey)
    /\ bars' = TRUE
    /\ UNCHANGED <<configKey, refreshing>>

\* The snapshot of the connected key came without bars or depth.
RefreshFallsBack ==
    /\ configKey # Nothing
    /\ Cardinality(refreshing) < MaxFallbacks
    /\ refreshing' = refreshing \cup {configKey}
    /\ PublishNothing
    /\ UNCHANGED <<configKey, bars>>

\* The fallback routes answered.  The bars go under the key of the request,
\* whatever is connected now; a later refresh of that key may still wait.
FallbackAnswers(k) ==
    /\ k \in refreshing
    /\ refreshing' \in {refreshing, refreshing \ {k}}
    /\ \/ PublishNow(k) /\ bars' = TRUE
       \/ PublishNothing /\ UNCHANGED bars
    /\ UNCHANGED configKey

\* The gate keeps the frames of the other timeframe.  The series of the new one
\* may be empty, and is not published then.
ConnectTimeframe(k) ==
    /\ configKey # Nothing
    /\ configKey.feed = k.feed /\ configKey # k
    /\ configKey' = k
    /\ \/ PublishNow(k) /\ bars' = TRUE
       \/ PublishNothing /\ bars' = FALSE
    /\ UNCHANGED refreshing

QueueRenderFrame(sequence) ==
    /\ configKey # Nothing
    /\ turn < MaxTurn
    /\ turn' = turn + 1
    /\ lastDepthSequence' = sequence
    /\ newest' = sequence
    /\ LET frame == NewFrame(configKey, sequence, TRUE)
       IN  /\ jumbled' = (jumbled \/ sequence < lastDepthSequence)
           /\ IF worker
              THEN toWorker' = Append(toWorker, frame) /\ UNCHANGED <<gate, overflowed>>
              ELSE /\ \E graceOver \in BOOLEAN : gate' = QueueFrame(gate, frame, graceOver)
                   /\ overflowed' = (overflowed \/ Overflows(gate, frame))
                   /\ UNCHANGED toWorker
    /\ UNCHANGED <<configKey, refreshing, worker, fromWorker, era, released, shown>>

\* Depth of any fused venue brings a sequence of that venue, and is drawn with
\* the bars of the snapshot.
DepthFrame == bars /\ \E sequence \in 1..MaxSequence : QueueRenderFrame(sequence) /\ UNCHANGED bars

\* Without bars, or on a stray socket after a disconnect, only the sequence is
\* kept.  The message takes a turn all the same: that bounds such messages.
DepthWithoutFrame ==
    /\ ~bars \/ configKey = Nothing
    /\ turn < MaxTurn
    /\ turn' = turn + 1
    /\ \E sequence \in 1..MaxSequence :
          /\ lastDepthSequence' = sequence
          /\ jumbled' = (jumbled \/ sequence < lastDepthSequence)
    /\ UNCHANGED <<configKey, chartVars, worker, gate, toWorker, fromWorker, era,
                   newest, released, shown, overflowed>>

\* The trades give the engine bars, which go to the snapshot if it has none.
DrainTradeRings == QueueRenderFrame(lastDepthSequence) /\ bars' = TRUE

-----------------------------------------------------------------------------
(* The gate's timers, in the page or in the worker.                        *)

\* A pending frame whose trades and depth are too far apart waits at most 150 ms.
RenderTimerFires ==
    /\ gate.pending # Nothing
    /\ \E graceOver \in BOOLEAN : gate' = Flushed(gate, graceOver)
    /\ released' = [sequence |-> gate.pending.sequence, era |-> gate.pending.era]
    /\ IF worker
       THEN fromWorker' = Append(fromWorker, gate.pending) /\ UNCHANGED shown
       ELSE shown' = gate.pending /\ UNCHANGED fromWorker
    /\ UNCHANGED <<configKey, chartVars, lastDepthSequence, worker, toWorker, turn, era,
                   newest, jumbled, overflowed>>

\* The grace window may have grown since the timer was set.
SequenceTimerFires ==
    /\ gate.sequenceTimer
    /\ \E graceOver \in BOOLEAN :
          gate' = Advance([gate EXCEPT !.sequenceTimer = FALSE], graceOver)
    /\ UNCHANGED <<configKey, chartVars, lastDepthSequence, worker, toWorker, fromWorker,
                   turn, era, newest, released, shown, jumbled, overflowed>>

-----------------------------------------------------------------------------
(* The worker.                                                             *)

WorkerReceives ==
    /\ toWorker # <<>>
    /\ toWorker' = Tail(toWorker)
    /\ IF Head(toWorker) = Reset
       THEN gate' = EmptyGate /\ UNCHANGED overflowed
       ELSE /\ \E graceOver \in BOOLEAN : gate' = QueueFrame(gate, Head(toWorker), graceOver)
            /\ overflowed' = (overflowed \/ (/\ Head(toWorker).era = era
                                             /\ Overflows(gate, Head(toWorker))))
    /\ UNCHANGED <<configKey, chartVars, lastDepthSequence, worker, fromWorker, turn, era,
                   newest, released, shown, jumbled>>

PageReceives_Unfiltered ==
    /\ fromWorker # <<>>
    /\ fromWorker' = Tail(fromWorker)
    /\ shown' = Head(fromWorker)
    /\ UNCHANGED <<configKey, chartVars, lastDepthSequence, worker, gate, toWorker, turn,
                   era, newest, released, jumbled, overflowed>>

\* handleGoldenFrameWorkerEvent publishes a frame of the connected key only.
PageReceives ==
    /\ fromWorker # <<>>
    /\ fromWorker' = Tail(fromWorker)
    /\ shown' = IF Head(fromWorker).key = configKey THEN Head(fromWorker) ELSE shown
    /\ UNCHANGED <<configKey, chartVars, lastDepthSequence, worker, gate, toWorker, turn,
                   era, newest, released, jumbled, overflowed>>

\* An error event of the worker: it is terminated, the page goes on with a gate
\* of its own.
WorkerFails ==
    /\ worker
    /\ era < MaxEra
    /\ era' = era + 1
    /\ worker' = FALSE
    /\ gate' = EmptyGate
    /\ toWorker' = <<>> /\ fromWorker' = <<>>
    /\ newest' = Nothing
    /\ jumbled' = FALSE /\ overflowed' = FALSE
    /\ UNCHANGED <<configKey, chartVars, lastDepthSequence, turn, released, shown>>

-----------------------------------------------------------------------------

GateNext ==
    \/ \E k \in Key : ConnectFeed(k) \/ ConnectTimeframe(k)
    \/ DisconnectFeed
    \/ RefreshAnswers
    \/ RefreshFallsBack
    \/ \E k \in Key : FallbackAnswers(k)
    \/ DepthFrame
    \/ DepthWithoutFrame
    \/ DrainTradeRings
    \/ RenderTimerFires
    \/ SequenceTimerFires
    \/ WorkerReceives
    \/ PageReceives
    \/ WorkerFails

GateSpec == GateInit /\ [][GateNext]_gateVars

-----------------------------------------------------------------------------
(* Properties.                                                             *)

Quiet ==
    /\ toWorker = <<>> /\ fromWorker = <<>>
    /\ gate.queue = {} /\ gate.pending = Nothing

\* Within one era the sequences that go through the gate increase strictly, in
\* whatever order the venues' messages arrive.
ReleasedInOrder ==
    gate.pending # Nothing /\ released # Nothing /\ gate.pending.era = released.era =>
        \/ gate.pending.sequence > released.sequence
        \/ gate.pending.sequence = 0 /\ released.sequence = 0

\* When nothing waits any more, the newest frame has gone through the gate,
\* unless its sequence was not higher than an earlier one's: what only trades
\* have changed since that depth update is never drawn.  (Depth that came while
\* the chart had no bars made no frame.)
QuietMeansDrawn ==
    Quiet /\ newest # Nothing /\ ~overflowed =>
        /\ released # Nothing /\ released.era = era
        /\ released.sequence >= newest

\* The chart goes back to an older frame in two ways only: sequences arrived out
\* of order, or a frame that did not go through the gate overtook the others.
GoingBackIsTraced ==
    [][shown # Nothing /\ shown'.turn < shown.turn /\ shown'.era = era
          => jumbled \/ ~shown.gated]_gateVars

\* A frame of an earlier connection is drawn in three ways only: without a worker,
\* one of the feed's other timeframe; with it, one that was under way while its
\* key was disconnected and connected again; and, past the gate, one of a refresh
\* that was overtaken while it waited for the fallback routes.
StrayFramesAreTraced ==
    [][shown' # shown /\ (shown'.key # configKey' \/ shown'.era # era)
          => \/ ~worker /\ configKey # Nothing /\ shown'.key.feed = configKey.feed
                /\ shown'.era = era
             \/ worker /\ shown'.key = configKey
             \/ ~shown'.gated /\ shown'.key \in refreshing]_gateVars

\* No waiting frame is forgotten: the render timer of the pending frame or the
\* wake-up of the guard is set, whichever way the last poll ended.
NoFrameForgotten ==
    gate.queue # {} => gate.pending # Nothing \/ gate.sequenceTimer
=============================================================================
