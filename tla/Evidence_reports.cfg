SPECIFICATION Spec
CONSTANTS
  IPFacts <- MCIPFacts
  Private <- MCPrivate
  Dns <- MCDns
  Webmail <- MCWebmail
  MailInfra <- MCMailInfra
  Whois <- MCWhois
  Messages <- MCMessages
  AgentKinds = {"script", "browser"}
  MaxTime = 1
  Lag = 0
  MaxHits = 2
  MaxFailures = 1
  ListLimit = 500
  MaxEntities = 10
  MaxRequest = 10
  ScriptLimits = {500}
INVARIANTS
  TypeOK
  HighNeedsTwoCategories
  OutageNeverAdds
  OutageMovesScoreLittle
  CalmOnlyIfPatternWeak
