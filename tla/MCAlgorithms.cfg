SPECIFICATION Spec
CONSTANTS
  Half2 = 2
  Half4 = 4
  Half8 = 8
INVARIANTS
  LayersAgree
  ValuesReadBack
  ParamsArrive
  ConversationCrosses
  RulesMeanWhatTheySay
