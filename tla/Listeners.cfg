SPECIFICATION Spec

CONSTANTS
    Names = {"a", "b", "k"}
    Places <- FewPlaces
    Uniqueness = {0}
    MaxAdds = 3
    MaxFrames = 3
    DestroyActs = FALSE
    Nowhere = Nowhere

CHECK_DEADLOCK FALSE

INVARIANTS
    LiveReachable
    IndicesAccounted
    TreeMinimal
    ReferencesCounted

PROPERTIES
    RegistrySpec
