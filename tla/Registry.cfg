CONSTANTS
    d1 = d1
    d2 = d2
    Absent = Absent
    Torn = Torn
    Device = {d1, d2}
    Vocabulary = {"status.read", "unheard.of"}
    Capability = {"status.read"}
SPECIFICATION Spec
INVARIANTS FileKeepsPromises MemoryKeepsPromises
PROPERTIES ImplementsAtomicRegistry
SYMMETRY DeviceSymmetry
