SPECIFICATION LiveSpec
CONSTANTS
  RecoveryWindow = 2
  AdminTaint <- AdminTaints
PROPERTIES OtherTaintsKept ReducesToNodeObject IsolatedUnlessSlotTaken
