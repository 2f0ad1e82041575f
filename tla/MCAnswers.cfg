\* The answer has been given, and the fields have settled.
SPECIFICATION AnswersSpec
CONSTANTS
  Undefined = Undefined
  NoDirective = NoDirective
  Unset = Unset
  Fields <- MCFields
  Items = {}
  NonNull <- MCNonNull
  Composite <- MCComposite
  FieldDirective <- MCFieldDirective
  TypeDirectives <- MCTypeDirectives
  DynamicHints <- MCDynamicHints
  Presets <- MCPresets
  DefaultMaxAge = 0
  Tracers = {"none"}
  Dropped = {}
  Frameworks = {"express", "koa", "fastify", "hapi", "micro", "azure", "cloudflare", "lambda", "cloud_functions", "standalone"}
  Batches <- MCBatches
INVARIANTS AnswersAreWhole
CHECK_DEADLOCK FALSE
