CONSTANT Inputs <- URLInputs
SPECIFICATION Spec
INVARIANT PathKeptAsWritten
