CONSTANTS
    Inputs <- MCInputs
    Envs <- MCEnvs
SPECIFICATION Spec
INVARIANTS
    EffectsKept
    PureHasNoEffects
    ConstantsAgree
CHECK_DEADLOCK FALSE
