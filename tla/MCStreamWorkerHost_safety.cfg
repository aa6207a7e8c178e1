SPECIFICATION WedgedChildSpec
CONSTANTS
    TheWorker = w1
    pad = pad
    keys = keys
    Devices <- MCDevices
    MaxPolicies = 2
    MaxAsks = 2
INVARIANTS TypeOK LastPolicyInForce 
PROPERTIES ImplementsContract StoppedWorkerGoes EndedWorkerExits NoOrphan
CHECK_DEADLOCK FALSE
