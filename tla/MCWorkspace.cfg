SPECIFICATION Spec
CONSTANTS
    Names <- MCNames
    Jobs <- MCJobs
    Script <- MCScript
    NameOf <- MCNameOf
INVARIANTS TypeOK RmSparesMounts StartsUnmounted SelfHealing ShippedNamesItself TarballPure
PROPERTIES CleanRestores EndsTidy
