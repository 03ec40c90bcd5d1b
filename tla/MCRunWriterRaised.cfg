CONSTANTS
  MaxRows = 1
  MaxFaults = 0
SPECIFICATION Spec
INVARIANT RaisedLeavesRunJson
