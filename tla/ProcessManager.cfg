SPECIFICATION Spec
CONSTANTS
  Scenarios <- MCScenarios
  Processors <- MCProcessors
  MaxRepeat = 2
  Places <- MCPlaces
INVARIANTS CountersExact BlocksWhole NothingLeft
PROPERTIES SimulationEnds
