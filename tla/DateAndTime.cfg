SPECIFICATION Spec
CONSTANTS
    Years = {2019, 2020}
    Months = {1, 12}
    Days = {1, 31}
    Hours = {0, 11, 13}
    Minutes = {0, 59}
    MaxChanges = 2
INVARIANTS
    ChangesStayInOrder
CHECK_DEADLOCK FALSE
