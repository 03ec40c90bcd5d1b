SPECIFICATION Spec
CONSTANT MaxPasses = 2
INVARIANT WrittenMeansReady
