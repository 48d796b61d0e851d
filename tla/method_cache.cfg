\* Two threads call one operation whose methods stay as they are.
CONSTANTS
    Threads = {1, 2}
    SuperList <- Supers
    SearchOrder <- Orders
    MaxInstalls = 0
SPECIFICATION CacheSpec
INVARIANT RunsWhatSearchFinds
