SPECIFICATION DepSpec
CONSTANTS
    a = a
    b = b
    Jobs = {a, b}
    DependsOn <- AThenB
    RequireStatus = {"COMPLETED"}
    Apis = {"api"}
    Workers = {"worker"}
PROPERTIES
    DependentsRun
