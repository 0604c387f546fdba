SPECIFICATION Spec
CONSTANTS
    Traces = {t1, t2}
    Forms <- SomeForms
    Envs <- SomeEnvs
    MaxBoots = 2
    MaxSaves = 1
    MaxJobs = 2
    MaxFaults = 1
    None = none
INVARIANTS
    SpansKept
    SettingsApply
PROPERTY MigrationRepairs
SYMMETRY Symmetry
CHECK_DEADLOCK FALSE
