SPECIFICATION MigrationSpec
CONSTANTS
    MIGRATIONS <- MCMigrations
    Steps = "wf_steps"
    StepColumns <- MCStepColumns
    Ensured <- MCEnsured
    Tracking = "schema_versions"
    MaxKills = 2
    MaxRollbacks = 2
INVARIANT StartsSucceed
CHECK_DEADLOCK FALSE
