SPECIFICATION Spec
CONSTANTS
  NoToken = NoToken
  Token = {t1}
  Phases = {"prepare", "walk"}
  Wishes = {"on", "off"}
PROPERTIES
  OffStopsOwnOnly
