SPECIFICATION Spec
CONSTANTS
  Letter = {"l", "i"}
  COM_BUF_LEN = 3
  ARG_SIZE = 3
  MAXINPUT = 3
  LuaName <- MCLua
  LuaiName <- MCLuai
  AHEAD = 1
  Hasty = FALSE
INVARIANTS
  TypeOK
  ScreenIsLine
  LineIsWords
  OneScript
  LuaTakesShown
