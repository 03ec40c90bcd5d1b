SPECIFICATION Spec
CONSTANT MaxAsks = 2
INVARIANT OriginsAreTrue
