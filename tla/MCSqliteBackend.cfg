CONSTANTS
    c1 = c1
    c2 = c2
    i1 = i1
    i2 = i2
    Calls <- MCCalls
    Ids <- MCIds
    BlankId = BlankId
    Types <- MCTypes
    NoType = ""
    Bodies <- MCBodies
    Times <- MCTimes
    Batches <- MCBatches
    NoEntity = NoEntity
    Readers = {r1}
    Nobody = Nobody
    Null = Null
    Schemas <- MCAllSchemas
    InitialStores <- MCStores
    Faults = TRUE
SPECIFICATION FairSpec
INVARIANT TypeOK
PROPERTIES KeepsPromise CreationTimeKept StatisticsBracketed CallsReturn
CHECK_DEADLOCK FALSE
