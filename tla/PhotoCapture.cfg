CONSTANTS
    TempFiles = 3
    Parts = 2
    MaxFd = 2
    PhotoFaults <- AllFaults
    MaxPhotos = 4
    MaxLeaks = 2
SPECIFICATION PhotoSpec
INVARIANTS PhotoTypeOK ReaderSeesOnePhoto PhotoStays
\* The bounded number of photos may be used up.
CHECK_DEADLOCK FALSE
