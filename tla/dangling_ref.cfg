\* A method that returns a well-known type.
SPECIFICATION Spec
CONSTANTS
  f1 = f1
  f2 = f2
  In = In
  Part = Part
  Out = Out
  Void = Void
  Files = {f1, f2}
  Messages = {In, Part, Out, Void}
  WellKnown = {Void}
  Fields <- AllFields
  Scalar = Scalar
  SnakeCase <- Snake
  Binds <- Bindings
  Programs <- SmallPrograms
  NoFile = NoFile
  NoBody = NoBody
  MaxRuns = 1
  Literals = {"v1"}
  ParamNames = {"x", "y", "a.b", "part", "in", "out", "void"}
INVARIANTS WellKnownInline
