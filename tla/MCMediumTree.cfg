SPECIFICATION TreeSpec
CONSTANT Units = 10
INVARIANTS TypeOK Tiled BitmapsAgree Coalesced MaxSizeIsFree FreeSizeExact UnitAssertsHold TreeIsFreeUnits
PROPERTIES HeapSpec ChunkSpec
CHECK_DEADLOCK FALSE
