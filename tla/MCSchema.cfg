SPECIFICATION Spec

INVARIANTS
    HeadServesModels
    VersionTellsSchema
    CommandsRun
