SPECIFICATION MCSpec
CONSTANTS
 cry = cry
 skull = skull
 unpriced = unpriced
 Assets = {cry, skull}
 Mid <- CatalogMid
 Short <- CatalogShort
 Over <- CatalogOver
 Policy <- MCPolicy
 Quantities = {1}
 Grant = 1000000
 MaxOrders = 1
 MaxBailouts = 0
 Requests = {r1, r2, r3}
 Environments <- MCEnvironments
 OrderBodies = {}
 NotANumber = NotANumber
 NoServer = NoServer
INVARIANT LedgerBalances
CHECK_DEADLOCK FALSE
SYMMETRY Symmetry
