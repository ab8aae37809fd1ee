CONSTANTS
    Calls = {c1, c2}
    Provider = Provider
    Models = {m1, m2}
    Combo = Combo
    Items = {i1, i2}
    Admin = Admin
    Free = Free
    MaxStarts = 2
    Workloads = {
        {"CreateProvider", "UpdateProvider", "DeleteProvider"},
        {"CreateProvider", "DeleteProvider", "CreateModel", "UpdateModel", "DeleteModel"},
        {"CreateCombo", "AddComboItem", "RemoveComboItem", "ReorderComboItems", "UpdateCombo", "DeleteCombo"},
        {"AutoGenerateCombo", "UpdateCombo", "DeleteCombo", "ListCombos", "ExecuteCombo"},
        {"CreateCombo", "ListCombos", "CreateProvider", "DeleteProvider"},
        {"BootstrapAdmin", "DeleteUser", "CreateCombo"}}
SPECIFICATION Spec
CHECK_DEADLOCK FALSE
SYMMETRY CatalogSymmetry
INVARIANTS
    TypeOK
    CreationsKept
    DeletionsKept
    OrphansExcused
    StraysOnlyOnSqlite
    OnlyScansBlock
    PanicNeedsDelete
