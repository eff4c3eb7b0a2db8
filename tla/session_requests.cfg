SPECIFICATION Spec
CONSTANTS
  Commands <- MCCommands
  Subsystems = {"sftp", "other"}
  Served = {"sftp"}
  Vars = {"A=1"}
  Ptys <- MCPtys
  X11s <- MCX11s
  Windows <- MCWindows
  Texts <- MCTexts
  MaxRequests = 3
  MaxWrites = 1
INVARIANTS CommandAsMeant GrantedAsAsked WrittenAsMeant
PROPERTIES FrozenAfterStart
CHECK_DEADLOCK FALSE
