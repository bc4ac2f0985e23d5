\* The API dies once between the tar's rename and the commit of the run's result.
SPECIFICATION ArtifactSpec
CONSTANTS
    Chunks = 3
    MaxLatePosts = 2
    MaxApiDeaths = 1
INVARIANT RefusedIsNotKept
CHECK_DEADLOCK FALSE
