SPECIFICATION Spec
CONSTANTS
  Size = 5
  Byte = {a, b}
  Zero = zero
  Absent = absent
  MaxPlanned = 2
INVARIANTS
  Separated
  ServesWhatIsResident
  CoalesceExact
PROPERTIES
  RefinesResidentBytes
CHECK_DEADLOCK FALSE
