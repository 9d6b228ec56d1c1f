\* A graceful restart between a relapse and the next healthy observation.
CONSTANTS
  Instrument = {eth}
  Fingerprint = {gap, outage}
  Healthy = Healthy
  RecoveryThreshold = 2
  MaxQueue = 2
SPECIFICATION Spec
INVARIANTS
  SingleFetchNeverClears
