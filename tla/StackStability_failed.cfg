SPECIFICATION HealthySpec
CONSTANTS
  Timeout = 6
  Settle = 3
  Gap = 1
PROPERTIES
  FailureIsMonitored
