\* Registrations, calls, nested calls and deaths in every order.
SPECIFICATION FairSpec
CONSTANTS
  agent = agent
  tool = tool
  tool2 = tool2
  ui = ui
  Calls = {c1, c2}
  Boots = {agent, tool, tool2, ui}
  IdOf <- MCIdOf
  Caps = {"plan", "run", "ui.prompt"}
  Asks <- MCAsks
  Offers <- MCOffers
  Requires <- MCRequires
  Callers = {agent}
  UiCap = "ui.prompt"
  Host = Host
  None = None
  Modes = {"interactive", "fail"}
  WalFails = FALSE
INVARIANTS
  TypeOK
  ProviderStays
  
  AnswerIsObeyed
  NeverStuck

  
  
CHECK_DEADLOCK FALSE
