\* One detector is edited and committed after the start.
SPECIFICATION DetectorsOnly
CONSTANTS
  Detectors <- TwoDetectors
  Panels = {complex, hiplex}
  DefaultPanel = complex
  MaxAccessories = 1
  MaxRequests = 2
PROPERTY PanelIsKept
CHECK_DEADLOCK FALSE
