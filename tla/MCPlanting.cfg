SPECIFICATION FairSpec
CONSTANTS
  NoToken = NoToken
  Token = {t1}
  Phases = {"prepare", "walk"}
  Wishes = {"on", "off"}
INVARIANTS
  TypeOK
  RouteReady
PROPERTIES
  RewardOnce
  HandBack
