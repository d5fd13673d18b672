SPECIFICATION MCSpec
CONSTANTS
 cry = cry
 skull = skull
 unpriced = unpriced
 Assets = {cry, skull}
 Mid <- MCMid
 Short <- MCShort
 Over <- MCOver
 Policy <- MCPolicy
 Quantities = {1, 3, 10}
 Grant = 10100
 MaxOrders = 1
 MaxBailouts = 0
 Requests = {r1, r2}
 Environments <- MCEnvironments
 OrderBodies <- MCBodies
 NotANumber = NotANumber
 NoServer = NoServer
INVARIANT SomePromiseKept
CHECK_DEADLOCK FALSE
