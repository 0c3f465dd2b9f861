\* Two detectors, room for one accessory, three requests or scan results.
SPECIFICATION Spec
CONSTANTS
  Detectors <- TwoDetectors
  Panels = {complex, hiplex}
  DefaultPanel = complex
  MaxAccessories = 1
  MaxRequests = 3
INVARIANTS TypeOK SelectionSurvives SavedIsValid
PROPERTIES SavedMeansWritten RebootIsSafe ApplyFollowsSave
CHECK_DEADLOCK FALSE
