\* Two threads that call the registry, and a partner's call between their steps.
SPECIFICATION IngressSpec
CONSTANTS
  Caps = {c1}
  Vers = {v1, v2, v3}
  Workers = {w1, w2}
  MaxEntries = 3
  NoVer = NoVer
  NoKey = NoKey
  NoRegistry = NoRegistry
  Auds = {"partner", "internal"}
  Scopes = {"read"}
  Offer <- OneOffer
  Fields = {"name", "text"}
  Manifests <- Views
  Size <- Sizes
  HashSize = 2
  MaxUnsourced = 0
  MaxClaims = 1
  NoManifest = NoManifest
SYMMETRY Symmetry
CONSTRAINT OverlapBound
INVARIANTS
  TypeOK
  CardsAreKept
  RevokedIsDenied
  PublishedIsFound
  PartnerSeesPublished
  OnlyPermittedCalls
CHECK_DEADLOCK FALSE
