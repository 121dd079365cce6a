----------------------------- MODULE MarketData -----------------------------
(***************************************************************************)
(* The market-data pipeline: trades to one-minute bars (BarBuilder.ts),    *)
(* one-minute bars to derived timeframes (TimeframeEngine.ts), closed      *)
(* derived bars to the bus (DataBus.ts), wired by DataPipeline.ts for one  *)
(* symbol.                                                                 *)
(*                                                                         *)
(* Every listener is called synchronously, so one trade, with everything   *)
(* it closes and publishes, is one step.  What is hard is the feed: trades *)
(* come late, after gaps, and in any spacing.                              *)
(*                                                                         *)
(* A trade is known by its seq.  A bar keeps the seqs it was built from,   *)
(* in order, instead of prices and sizes: open and close are the first and *)
(* the last of them, volume and tradeCount count them, repetitions too.    *)
(***************************************************************************)
EXTENDS Integers, SequencesExt

CONSTANTS MinuteLength,   \* time units of a minute: 60000 ms in the code
          GapThreshold,   \* silence after which a bar is reset: 1000 ms
          Derived,        \* config.derivedTimeframes, a sequence
          Wired,          \* timeframes DataPipeline subscribes to the engine
          Multiplier,     \* minutes of a timeframe
          NoBar,          \* null
          MaxTime,        \* bound on the time of a trade
          MaxLate,        \* bound on how late a trade may arrive
          MaxTrades       \* bound on the number of trades

Timeframes == Range(Derived)
Minutes    == 0..(MaxTime \div MinuteLength)

VARIABLES feed,         \* times of the trades so far; a trade's seq is its index
          currentBar,   \* BarBuilder.currentBar
          lastBarTime,  \* BarBuilder.lastBarTime, 0 before the first trade
          baseBars,     \* barBuffer and baseBarBuffer: the closed bar of a minute
          derivedBars,  \* TimeframeEngine.derivedBars
          eventBuffer,  \* DataBus.eventBuffer, with the bars that were published
          hotCache      \* DataBus.hotCache

vars == <<feed, currentBar, lastBarTime, baseBars, derivedBars, eventBuffer, hotCache>>

Seqs == 1..MaxTrades

\* A bar: its first minute, the trades it is made of, and whether it is complete.
Bars   == [start : Minutes, trades : Seq(Seqs), isComplete : BOOLEAN]
Events == [timeframe : Wired, bar : Bars]

ASSUME MarketDataAssumption ==
    /\ MinuteLength \in Nat \ {0} /\ GapThreshold \in Nat /\ MaxTime \in Nat
    /\ MaxLate \in Nat /\ MaxTrades \in Nat
    /\ Multiplier \in [Timeframes -> Nat \ {0}]
    /\ Derived \in Seq(Timeframes) /\ IsInjective(Derived)   \* no timeframe is listed twice
    /\ NoBar \notin Bars

-----------------------------------------------------------------------------
(* TimeframeEngine.                                                        *)

\* Mutant: the window starts at the minute itself, as getBars computes it.
Window_Unaligned(tf, minute) == minute

Window(tf, minute) == (minute \div Multiplier[tf]) * Multiplier[tf]

\* The base bars of the window that starts at a minute; no bar is <<>>.
InWindow(tf, start, base) ==
    [i \in 1..Multiplier[tf] |->
        IF start + i - 1 \in Minutes THEN base[start + i - 1] ELSE <<>>]

\* _computeAggregatedBar; a window holds at least the bar that was just stored.
ComputeAggregatedBar(tf, start, base) ==
    LET bars == InWindow(tf, start, base)
    IN  [start |-> start, trades |-> FlattenSeq(bars),
         isComplete |-> \A i \in DOMAIN bars : bars[i] # <<>>]

\* Mutant: a window also closes once all of its minutes are there.
Crosses_OrFull(tf, minute) ==
    /\ derivedBars[tf] # NoBar
    /\ derivedBars[tf].start # Window(tf, minute) \/ derivedBars[tf].isComplete

\* A base bar of another window closes the derived bar.
Crosses(tf, minute) ==
    derivedBars[tf] # NoBar /\ derivedBars[tf].start # Window(tf, minute)

\* Mutant: the window in progress is extended instead of computed again.
NextDerivedBar_Extends(tf, bar, base) ==
    IF derivedBars[tf] = NoBar \/ Crosses(tf, bar.start)
    THEN ComputeAggregatedBar(tf, Window(tf, bar.start), base)
    ELSE [derivedBars[tf] EXCEPT !.trades = @ \o bar.trades]

NextDerivedBar(tf, bar, base) == ComputeAggregatedBar(tf, Window(tf, bar.start), base)

\* Mutant: isComplete is left as it was computed, and only complete bars are
\* published.
Closed_AsComputed(tf, bar) ==
    IF Crosses(tf, bar.start) /\ derivedBars[tf].isComplete THEN <<derivedBars[tf]>> ELSE <<>>

\* The derived bar that is closed is marked complete whatever its minutes are.
Closed(tf, bar) ==
    IF Crosses(tf, bar.start) THEN <<[derivedBars[tf] EXCEPT !.isComplete = TRUE]>> ELSE <<>>

-----------------------------------------------------------------------------
(* DataBus.                                                                *)

\* What a base bar makes the pipeline publish, in the order of the timeframes.
Published(bar) ==
    FlattenSeq([i \in DOMAIN Derived |->
        IF Derived[i] \in Wired
        THEN [j \in DOMAIN Closed(Derived[i], bar) |->
                 [timeframe |-> Derived[i], bar |-> Closed(Derived[i], bar)[j]]]
        ELSE <<>>])

\* publishBar for each event; an event out of order is only logged.  The
\* callbacks of the subscribers, called next, change nothing of the pipeline.
PublishBars(events) ==
    /\ eventBuffer' = eventBuffer \o events
    /\ hotCache'    = [tf \in Wired |->
                          LET mine == {i \in DOMAIN events : events[i].timeframe = tf}
                          IN  IF mine = {} THEN hotCache[tf] ELSE events[Max(mine)].bar]

\* onBase1mBar, and what its listeners do.
OnBase1mBar(bar) ==
    LET base == [baseBars EXCEPT ![bar.start] = bar.trades]
    IN  /\ baseBars'    = base
        /\ derivedBars' = [tf \in Timeframes |-> NextDerivedBar(tf, bar, base)]
        /\ PublishBars(Published(bar))

-----------------------------------------------------------------------------
(* BarBuilder.                                                             *)

Minute(time) == time \div MinuteLength

Gap(time) == lastBarTime # 0 /\ time - lastBarTime > GapThreshold

\* A trade closes the bar in progress after a gap and in another minute.
Finalizes(time) ==
    currentBar # NoBar /\ (Gap(time) \/ currentBar.start # Minute(time))

\* The trade that opens a bar is in its initial values and is then added to
\* them like any other.
NextBar(seq, time) ==
    [start  |-> Minute(time), isComplete |-> FALSE,
     trades |-> IF currentBar = NoBar \/ Finalizes(time)
                THEN <<seq, seq>>
                ELSE Append(currentBar.trades, seq)]

\* onTrade.
OnTrade(seq, time) ==
    /\ IF Finalizes(time)
       THEN OnBase1mBar(currentBar)
       ELSE UNCHANGED <<baseBars, derivedBars, eventBuffer, hotCache>>
    /\ currentBar'  = NextBar(seq, time)
    /\ lastBarTime' = time

-----------------------------------------------------------------------------

Latest == IF feed = <<>> THEN 0 ELSE CHOOSE t \in Range(feed) : \A u \in Range(feed) : u <= t

\* The exchange delivers a trade; onExchangeTrade numbers it on arrival.
OnExchangeTrade(time) ==
    /\ Len(feed) < MaxTrades /\ time + MaxLate >= Latest
    /\ feed' = Append(feed, time)
    /\ OnTrade(Len(feed) + 1, time)

Init ==
    /\ feed        = <<>>
    /\ currentBar  = NoBar
    /\ lastBarTime = 0
    /\ baseBars    = [m \in Minutes |-> <<>>]
    /\ derivedBars = [tf \in Timeframes |-> NoBar]
    /\ eventBuffer = <<>>
    /\ hotCache    = [tf \in Wired |-> NoBar]

Next == \E time \in 1..MaxTime : OnExchangeTrade(time)

Spec == Init /\ [][Next]_vars

-----------------------------------------------------------------------------
(* What holds for every feed, late trades included.                        *)

\* The types, and derived bars start where the windows of their timeframe do
\* (the alignment by Math.floor in _aggregateToTimeframe).
TypeOK ==
    /\ feed        \in Seq(1..MaxTime)
    /\ currentBar  \in Bars \cup {NoBar}
    /\ lastBarTime \in 0..MaxTime
    /\ baseBars    \in [Minutes -> Seq(Seqs)]
    /\ derivedBars \in [Timeframes -> Bars \cup {NoBar}]
    /\ eventBuffer \in Seq(Events)
    /\ hotCache    \in [Wired -> Bars \cup {NoBar}]
    /\ \A tf \in Timeframes :
          derivedBars[tf] # NoBar => derivedBars[tf].start % Multiplier[tf] = 0

\* The bar in progress of a timeframe is at every moment the aggregate of the
\* closed one-minute bars of its window, although late trades and gaps replace
\* base bars and move the window back and forth.
DerivedFollowsBase ==
    \A tf \in Timeframes :
        derivedBars[tf] # NoBar =>
            derivedBars[tf] = ComputeAggregatedBar(tf, derivedBars[tf].start, baseBars)

-----------------------------------------------------------------------------
(* What holds as long as trades arrive in the order of their times.  After *)
(* a late trade a published bar may be replaced, repeated or left out: it  *)
(* closes the bar in progress and opens an older minute again.             *)

InOrder == \A i \in 2..Len(feed) : feed[i - 1] <= feed[i]

\* No desync (ARCHITECTURE.md:255): a window is published at most once, a bar the
\* bus has published still is the aggregate of the one-minute bars of its window,
\* and the hot cache holds the newest bar of its timeframe that was published.
PublishedOnceAndTrue == InOrder =>
    \A i \in DOMAIN eventBuffer :
        LET e == eventBuffer[i] IN
        /\ e.bar.trades = ComputeAggregatedBar(e.timeframe, e.bar.start, baseBars).trades
        /\ \A j \in DOMAIN eventBuffer :
              eventBuffer[j].timeframe = e.timeframe /\ eventBuffer[j].bar.start = e.bar.start
                  => i = j
        /\ hotCache[e.timeframe].start >= e.bar.start

\* No window is left out: once the engine works on a later window,
\* every earlier one that has a one-minute bar was published, however many of
\* its minutes the feed left empty.
NothingSkipped == InOrder =>
    \A tf \in Timeframes \cap Wired, m \in Minutes :
        /\ derivedBars[tf] # NoBar /\ baseBars[m] # <<>>
        /\ Window(tf, m) < derivedBars[tf].start
        => \E i \in DOMAIN eventBuffer :
              eventBuffer[i].timeframe = tf /\ eventBuffer[i].bar.start = Window(tf, m)
=============================================================================
