SPECIFICATION RegistersSpec
CONSTANTS
  Blocks <- MCBlocks
  Entry = "p"
  Succ <- MCSucc
  Loops = {"loop"}
  Body <- MCBody
  Preheader <- MCPreheader
  Programs <- MCPrograms
  Aliases <- MCAliases
  Register <- MCRegister
  Address <- MCAddress
  Size <- MCSize
  Flags = {"CF"}
  Width = 2
  Bytes = {0, 1, 2}
  Values = {0, 1}
  NoSlot = NoSlot
  NoAlias = NoAlias
  LiftedWords = 140
  NativeWords = 120
  MaxCalls = 6
PROPERTIES KeepsRegisters
INVARIANTS Transparent RunningIntact ValuesCarried
