\* Vault records, whole, cut at every length or with one word damaged.
CONSTANTS
  Records <- MCRecords
  Files <- MCFiles
  Targets <- MCTargets
  Noise <- MCNoise
  LowHalf = 16
SPECIFICATION Spec
INVARIANTS TypeOK IntactRecovered Disjoint CutLosesAtMostLast PanicOnlyNarrow
