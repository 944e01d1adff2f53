CONSTANTS
  PageBytes = 4
  Sizes = {3, 4, 5, 12}
  FreeAtBoot <- TwoRanges
  BootCount = 2
  Cap = 12
  Uses = {"any"}
SPECIFICATION Spec
INVARIANT UsedRangesAreHeld
