SPECIFICATION Spec
CONSTANT MaxWaiterId = 8
INVARIANTS
    RegistryTypeOK
    ServedOnce
PROPERTY IsFifo
