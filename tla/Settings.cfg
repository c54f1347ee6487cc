SPECIFICATION CfgSpec
CONSTANTS
  Names <- SettingNames
  Types = {"cfg_cstr", "cfg_p", "cfg_u"}
  CfgValues = {0, 1}
  MaxMixed = 1
INVARIANT KeepsValue
