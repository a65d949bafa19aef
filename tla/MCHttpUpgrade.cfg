SPECIFICATION Spec
CONSTANTS
    Chars = {"a", "i", "w", "%", "/", ".", " ", "0", "2", "5", "F"}
    Configs <- MCConfigs
    Requests <- MCRequests
    Stores = {"short", "value", "not found", "other error"}
INVARIANTS
    Upgrades
