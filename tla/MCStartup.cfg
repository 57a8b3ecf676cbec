SPECIFICATION ActivateSpec
CONSTANTS
  Survivable <- Stubborn
  ExitCodes <- Codes
  Texts <- Files
  Fragments <- Rests
  TailBound = 1
  EnvironmentShells <- Environments
  Executables <- Installed
  Enterable <- Homes
CHECK_DEADLOCK FALSE
INVARIANTS TypeOK NoChildLeft NoStraySignal StatusIsTheChilds DescriptorOwnedOnce LastValidLineWins RunsConfiguredShell
PROPERTIES ShutdownCompletes UserTextKept
