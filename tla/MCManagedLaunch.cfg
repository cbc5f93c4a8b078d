SPECIFICATION ManagedSpec
CHECK_DEADLOCK FALSE
CONSTANTS
  Owner = owner
  Other = other
  MaxWrites = 1
PROPERTIES
  OrphansHaveNoOwner
