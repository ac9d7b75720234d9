SPECIFICATION Spec
CONSTANTS
    f = f g = g
    Field = {f, g}
    Schemas <- MCSchemas
    Bodies <- MCBodies
INVARIANT VerdictIsExact
PROPERTY CreateWritesWhatWasSaid
PROPERTY PatchTellsThreeStates
