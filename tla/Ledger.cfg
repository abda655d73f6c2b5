SPECIFICATION FairSpec
CONSTANTS
  Leads = {"l1", "l2"}
  Batches = {"b1", "b2"}
  Tasks = {"t1", "t2"}
  Exclusive = {"t2"}
  Cap = 1
  MaxDeaths = 2
INVARIANT LedgerInv
PROPERTIES NoIdleSlot ImplementsSlots
CHECK_DEADLOCK FALSE
