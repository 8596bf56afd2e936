SPECIFICATION Spec
CONSTANT NumOutputs = 3
INVARIANTS TypeOK AckedOutputsHold AckSettlesEarlierFailures ShutdownRepairs EventMeansAllOn
