SPECIFICATION Spec
CONSTANTS
    Batteries = {1, 2, 4}
    StrayIds = {411096324, 411095824, 411095552}
    Payloads <- EdgePayloads
INVARIANT
    TemperatureRead
CHECK_DEADLOCK FALSE
