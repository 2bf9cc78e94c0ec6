SPECIFICATION SkillSpec
CONSTANTS
  Half2 = 2
  Half4 = 4
  Half8 = 8
INVARIANT OnlyWhitelistedRuns
