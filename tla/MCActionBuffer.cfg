SPECIFICATION FairSpec
CONSTANTS
  Item = {x, y}
  Producer = {watcher, input}
  Consumer = {consumer}
  MAX_SIZE = 4
  nullopt = nullopt
INVARIANTS TypeOK NoLostWakeup
PROPERTIES ImplementsQueue ImplementsFairQueue
