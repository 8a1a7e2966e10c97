SPECIFICATION Spec
CONSTANTS
  Size = 4
  MaxBytes = 9
  SlotPrints = "between"
INVARIANTS PortInv
PROPERTIES SendsInOrder CallsReturn
CHECK_DEADLOCK FALSE
