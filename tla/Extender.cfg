CONSTANTS
  sized = sized
  whole = whole
  Total <- MCTotal
  Pods = {sized, whole}
  Memory <- MCMemory
  Calls <- MCCalls
SPECIFICATION Spec
INVARIANT LedgerCovers
INVARIANT BookedWhileBound
INVARIANT AdviceMatchesBind
PROPERTY ImplementsLedger
