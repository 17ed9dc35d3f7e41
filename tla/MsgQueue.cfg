SPECIFICATION FairSpec
CONSTANTS
  Threads = {main, recv}
  Queues = {QUEUE_IN}
  Msgs = {a, b}
  Nodes = {n1, n2, n3}
  NULL = NULL
INVARIANTS DebugAsserts ListsOwnTheirNodes
PROPERTIES ImplementsChannel CallsReturn
