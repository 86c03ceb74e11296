SPECIFICATION UndisturbedSpec
CONSTANTS
    Runs = {p1}
    NumDepts = 1
    Years = {y2022}
INVARIANT ServesOnHead
CHECK_DEADLOCK FALSE
