CONSTANTS
    k1 = k1
    k2 = k2
    k3 = k3
    d1 = d1
    d2 = d2
    Fingerprint <- ThreeKeys
    Device <- TwoDevices
    NoDevice = NoDevice
    Missing = Missing
    Torn = Torn
    Foreign = Foreign
    MaxPreferred = 2
    MaxPending = 3
SPECIFICATION Spec
INVARIANTS
    PreferencesInv
PROPERTIES
    ImplementsMap
