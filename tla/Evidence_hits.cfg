SPECIFICATION Spec
CONSTANTS
  IPFacts <- MCIPFacts
  Private <- MCPrivate
  Dns <- MCDns
  Webmail <- MCWebmail
  MailInfra <- MCMailInfra
  Whois <- MCWhois
  Messages = {}
  AgentKinds = {"script", "browser"}
  MaxTime = 2
  Lag = 1
  MaxHits = 3
  MaxFailures = 1
  ListLimit = 2
  MaxEntities = 2
  MaxRequest = 2
  ScriptLimits = {3}
INVARIANTS
  ProfilesPartition
PROPERTIES
  NothingEarlierOmitted
  MoreHitsNeverLowerBonus
