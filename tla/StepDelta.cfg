SPECIFICATION ConnectionSpec
CONSTANTS
    mapWidth = 8
    mapHeight = 8
    Layers <- MCLayers
    SendBuffer = 40
    Conversations <- MCConversations
    Cuts = {1, 3}
    max_length = 16
    Account <- MCAccount
    Characters <- MCCharacters
    NoCharacter = NoCharacter
    NewIds = {70000}
    Neighbour <- MCNeighbour
    MaxUpdates = 1
PROPERTY
    StepsAreDeltas
CHECK_DEADLOCK FALSE
