SPECIFICATION FairSpec
CONSTANTS
  Objects = {"main", "a", "b", "c", "d"}
  Main = "main"
  Heaps <- HeapsTried
INVARIANTS NoDanglingReference ListsKept TriColour
PROPERTIES GarbageCollected FinalizersCalled
