CONSTANT Inputs <- URLInputs
SPECIFICATION Spec
INVARIANT EmptyFirstPathSegmentRejected
