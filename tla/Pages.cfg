SPECIFICATION Spec
CHECK_DEADLOCK FALSE
CONSTANTS
  Tabs = {"settings", "connection", "evaluation", "import", "text"}
  None = None
  Values = {"a", "b"}
  Apps = {"gpt"}
  SettingsSteps = 4
  Providers <- MCProviders
  Workspaced = "anthropic"
  KeyNeeded = {"anthropic"}
  Curated <- MCCurated
  Models = {"opus", "llama"}
  Keys = {"k2"}
  Workspaces = {"bad"}
  BadWorkspaces = {"bad"}
  FirstConnections <- MCFirstConnections
  ServerDefault = TRUE
  FormSteps = 3
  CASE_LIMIT = 3
  HISTORY_PAGE_SIZE = 2
  PromptTexts = {"a", "b"}
  Suggestions <- MCSuggestions
  FirstRuns = 3
  EvaluationSteps = 3
  Sources = {"folder", "note", "empty"}
  Parsed <- MCParsed
  Notes = {"folder", "note"}
  Titles = {"", "memo"}
  Library <- MCLibrary
  Bodies = {"theirs"}
  PromptNames = {"", "mail", "memo", "plan"}
  Wordings = {"old", "new", "theirs"}
  ImportSteps = 7
  MaxFaults = 1
  Tokens = {"x", "y"}
  MaxTokens = 3
  MAX_CELLS = 15
  MAX_SECTION = 3
  MaxChars = 7
  Kinds <- MCKinds
  MaxLines = 4
  Headings <- MCHeadings
  Cells <- MCCells
  Files <- MCFiles
INVARIANTS  TextKept
PROPERTIES ImportExact PagesSettle
