SPECIFICATION Spec
CONSTANTS
  Undefined = Undefined
  NoDirective = NoDirective
  Fields <- MCFields
  Items <- MCItems
  NonNull <- MCNonNull
  Composite <- MCComposite
  FieldDirective <- MCFieldDirective
  TypeDirectives <- MCTypeDirectives
  DynamicHints <- MCDynamicHints
  Presets <- MCPresets
  DefaultMaxAge = 0
  Tracers = {"none", "inline", "usage"}
  Dropped <- MCDropped
INVARIANTS HeaderCoversResponse TraceFollowsExecution
CHECK_DEADLOCK FALSE
