SPECIFICATION Spec
CONSTANTS
    Files <- Configurations
    FactoryMaps <- Libraries
    PortsOf <- PortKinds
    Screens <- Sizes
    Blacklists <- Hidden
    MaxPortsShown = 2
    NamePlace <- Ids
    Watched <- Shown
INVARIANTS
    GraphIsWhatIsWritten
    DotShowsTheGraph
PROPERTIES
    ScreenIsTidy
\* A configuration that fails, and a graph that is not shown, is the end.
CHECK_DEADLOCK FALSE
