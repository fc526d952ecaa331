SPECIFICATION Spec
CONSTANTS Sizes <- MCSizes
          DefaultSize <- small
          small = small
          large = large
          huge = huge
INVARIANTS DrawsWithContext NoLeak
PROPERTY FramebufferFollows
