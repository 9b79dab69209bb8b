SPECIFICATION Spec
CONSTANTS
  IPFacts <- MCIPFacts
  Private <- MCPrivate
  Dns <- MCDns
  Webmail <- MCWebmail
  MailInfra <- MCMailInfra
  Whois <- MCWhois
  Messages = {}
  AgentKinds = {"browser"}
  MaxTime = 1
  Lag = 0
  MaxHits = 3
  MaxFailures = 1
  ListLimit = 500
  MaxEntities = 2
  MaxRequest = 2
  ScriptLimits = {500}
INVARIANTS HittersLookedUp
