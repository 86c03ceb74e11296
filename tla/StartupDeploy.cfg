SPECIFICATION BootSpec
CONSTANTS
    Runs = {p1, p2}
    NumDepts = 2
    Years = {y2022, y2023}
INVARIANTS BootTypeOK CatalogueSound SeedComplete SchemaMatchesVersion
PROPERTIES EveryContainerServes SomeRunCompletes
CHECK_DEADLOCK FALSE
