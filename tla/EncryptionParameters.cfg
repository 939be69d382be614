\* Re-configuration with the tests' configurations, and the handshake.
CONSTANTS
    Configs <- TestConfigs
SPECIFICATION Spec
INVARIANT TypeOK
INVARIANT ClientMatchesSent
