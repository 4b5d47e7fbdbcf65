CONSTANTS
    Jobs = {j1, j2, j3}
    DataCapacity = 2
    ControlCapacity = 2
SPECIFICATION FairSpec
PROPERTIES
    DataNotStarved
    ExpirationResumes
