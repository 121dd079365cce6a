--------------------------- MODULE MCChartRefresh ---------------------------
EXTENDS ChartRefresh

ThreeConfigs == {[feed |-> "btc", tf |-> 1], [feed |-> "btc", tf |-> 5],
                 [feed |-> "eth", tf |-> 1]}
=============================================================================
