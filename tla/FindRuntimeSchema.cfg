SPECIFICATION MigrationsSpec
CONSTANTS Releases = {5, 9, 16, 24, 27, 29, 34, 36}
INVARIANTS ProducesRuntimeSchema
CHECK_DEADLOCK FALSE
