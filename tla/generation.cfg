CONSTANTS
  Urls = {"home", "guide", "auth", "errors", "partner"}
  DocsUrl = "home"
  Host <- MCHost
  Rank <- MCRank
  Sites <- MCSites
  NoSite = NoSite
  DefaultPages = 3
  LinkLimit = 3
  Providers = {"twilio", "slack", "unknown_api"}
  Twilio = "twilio"
  Requirements <- MCRequirements
  Names = {"send", "Send"}
  Sanitize <- MCSanitize
  Fields <- MCFields
  FullName <- MCFullName
  ShortName <- MCShortName
  InternalFields <- MCInternalFields
  PublicFields <- MCPublicFields
  Absent = Absent
  ProposedTools <- MCProposedTools
  UnknownAPI = "unknown_api"
  AuthKeys <- MCAuthKeys
  NoSpec = NoSpec
  NoTool = NoTool
SPECIFICATION Spec
INVARIANTS
  RequestsBounded
  RepeatsOnlyByRedirect
  BestLinksFirst
  GeneratedToolSound
CHECK_DEADLOCK FALSE
