\* The defaults and the "Scale out of bounds" test configuration.
CONSTANTS
    Configs <- ScaleTestConfigs
SPECIFICATION Spec
INVARIANT ScaleSupportsMultiply
