CONSTANTS
    Price = {6, 8, 10, 13}
    Strike = {8, 10}
    Quantity = {1, 2, 3}
    Multiplier = 2
    Threshold = 1
    Extrinsic = {0, 2}
    Dividend = {0, 3}
    Fee = {0, 1}
    Carry = {0}
    Settling = {"cash"}
    MaxCalls = 3
SPECIFICATION Spec
PROPERTIES ReconciledMeansPaid
CHECK_DEADLOCK FALSE
