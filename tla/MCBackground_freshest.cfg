SPECIFICATION BackgroundSpec
CONSTANTS
  claude = claude
  codex = codex
  opencode = opencode
  hermes = hermes
  sonnet = sonnet
  sonnetDated = sonnetDated
  haiku = haiku
  aPrompt = yes
  Sessions = {claude, codex, opencode, hermes}
  ToolOf <- ToolOfId
  Models = {sonnet, sonnetDated, haiku}
  Label <- LabelOf
  Priced <- KnownPrices
  Prompts = {yes, fix, test}
  Noise = {yes}
  Names = {name}
  MaxTurns = 2
  MaxTokens = 1
  MaxDay = 2
  CodexSessions = {s1, s2}
  Quota = 2
  Window = 3
  Fresh = 1
  LogsSeconds = FALSE
  MaxUse = 1
  MaxClock = 5
  None = None
  Unread = Unread
  guard = guard
  here = here
  there = there
  UserCommands = {guard}
  OurCommands = {here, there}
  HookEvents = {"Notification", "Stop"}
  OtherEvents = {"PreToolUse"}
  Missing = Missing
  Blank = Blank
  Garbage = Garbage
  Scalar = Scalar
  Edits <- MCEdits
  MaxEdits = 2
  MaxRuns = 3
  MaxFaults = 2
INVARIANT FreshestComesFirst
CHECK_DEADLOCK FALSE
