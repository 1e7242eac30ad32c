\* A FUSE thread and the session thread with search results; one playlist is
\* named like its directory, the track may have no link string.
CONSTANTS
    w1 = w1
    w2 = w2
    Workers = {w1}
    FuseThread = w1
    Resources <- MCResources
    Class <- MCClass
    Uri <- MCUri
    Title <- MCTitle
    Parts <- FewParts
    Portraits <- FewPortraits
    Playlists <- TwoPlaylists
    Contents <- FewContents
    Queries <- MCQueries
    Results <- MCResults
    Faulty = {"t1"}
    NumberedName <- MCNumberedName
    ResultName <- MCResultName
    Sanitize <- MCSanitize
SPECIFICATION Spec
INVARIANTS
    FoundByPath
    NeverMisleads
