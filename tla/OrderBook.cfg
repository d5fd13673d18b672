SPECIFICATION Spec
CONSTANTS
 OrderIds = {o1,o2,o3}
 Agents = {a,b}
 NoTaker = NoTaker
 NoLocator = NoLocator
 BookStates = {"open","halted"}
 StpModes = {"cancel_newest","cancel_oldest","cancel_both"}
 MaxPrice = 2
 MaxQuantity = 2
 MaxSequence = 6
 Times = {0}
 TickSize = 1
 LotSize = 1
 MinimumOrderSize = 1
 CancelIsTerminal = TRUE
INVARIANTS NotCrossed LocatorsMatchBook TimePriority TapeMatchesBook ViewsAgree
PROPERTIES FillOrKill ImplementsExchange
CHECK_DEADLOCK FALSE
SYMMETRY Symmetry
