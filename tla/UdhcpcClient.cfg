\* Both callers; four events fill the channel, the scanner and the pipe.  A client
\* that was released does nothing more: no deadlock check.
SPECIFICATION FairSpec
CONSTANT MaxLines = 4
INVARIANTS TypeOK OnceLeavesNothing ReapNeverSignals
PROPERTIES CallReturns ProcessEnds DeliversInOrder
CHECK_DEADLOCK FALSE
