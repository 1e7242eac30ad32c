\* A FUSE thread and the session thread with search results.
CONSTANTS
    w1 = w1
    w2 = w2
    Workers = {w1}
    FuseThread = w1
    Resources <- MCResources
    Class <- MCClass
    Uri <- MCUri
    Title <- MCTitle
    Parts <- MCParts
    Portraits <- MCPortraits
    Playlists <- MCPlaylists
    Contents <- MCContents
    Queries <- MCQueries
    Results <- MCResults
    Faulty = {}
    NumberedName <- MCNumberedName
    ResultName <- MCResultName
    Sanitize <- MCSanitize
SPECIFICATION Spec
INVARIANTS
    LinksLead
