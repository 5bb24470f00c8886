CONSTANTS
    c1 = c1
    c2 = c2
    c3 = c3
    i1 = i1
    i2 = i2
    Calls <- MCCalls
    Ids <- MCIds
    BlankId = BlankId
    Types <- MCTypes
    NoType = ""
    Bodies <- MCBodies
    Times <- MCTimes
    Batches <- MCBatches
    NoEntity = NoEntity
    Readers = {r1}
    Queries <- MCQueries
    Nobody = Nobody
SPECIFICATION FairSpec
INVARIANT TypeOK
PROPERTIES KeepsPromise ReadsAreCommitted FirstWriterWins CallsReturn
CHECK_DEADLOCK FALSE
