SPECIFICATION FairSpec
CONSTANTS
  r1 = r1
  r2 = r2
  NoRouter = NoRouter
  Routers = {r1, r2}
  Specs <- MCSpecs
  Catalog <- MCCatalog
  MaxFaults = 1
  MaxEdits = 1
  MaxMoves = 1
INVARIANTS TypeOK PanelIntegrationKept
PROPERTIES ServingRouterKept Converges Detaches KubeconfigPublished
