\* Two failing blob operations and two power failures anywhere.
SPECIFICATION Spec
CONSTANTS
  small = small
  middle = middle
  large = large
  none = none
  NoConfig = none
  Broken = Broken
  Configs <- ThreeConfigs
  ChunksOf <- Chunks
  MaxChunks = 2
  Rollbackable <- FitJson
  OldBlobs <- SomethingOld
  MaxErrors = 2
  MaxRestarts = 2
PROPERTIES KeepsPromise ReportedSurvives
