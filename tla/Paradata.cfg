SPECIFICATION ParadataSpec
CONSTANTS
  Types = {"xml", "json"}
  Limits = {"rounds"}
  Names = {"model", "engine"}
  Licences <- MCLicences
  Rank <- MCRank
  NonCommercial <- MCNonCommercial
  ShareAlike <- MCShareAlike
  Terms <- MCTerms
  Conservative = "CC BY-NC 4.0"
  NoFile = NoFile
  Torn = Torn
  NoRecord = NoRecord
  Stages = 2
  MaxCalls = 2
INVARIANTS
  CallsSurvive
  LabelCoversStages
CHECK_DEADLOCK FALSE
