\* Two objects of one entity, loaded twice.
SPECIFICATION Spec
CONSTANTS
    Names <- MCNames
    Objects <- MCObjects
    MaxObjects = 2
INVARIANTS NothingVanishes RerunConverges EvidenceAgrees
CHECK_DEADLOCK FALSE
