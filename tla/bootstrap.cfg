CONSTANTS
  Replicas = {"r1", "r2"}
  Scripts = {"script"}
  User = "user"
  SeedTools = {"get_fusekit_guide", "get_capability_manifest"}
  Legacy = "send_sms"
  AppOrder <- MCAppOrder
  ScriptOrder <- MCScriptOrder
  Published = {"send_sms", "get_fusekit_guide"}
  Databases <- MCDatabases
  MaxRetries = 2
  MaxTogether = 2
  NoRow = NoRow
  NoKey = NoKey
SPECIFICATION Spec
INVARIANTS
  ServesSeeded
  OneSucceeds
PROPERTIES
  SeedingKeepsRows
  StartsEnd
CHECK_DEADLOCK FALSE
