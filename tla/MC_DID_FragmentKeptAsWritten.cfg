CONSTANT Inputs <- URLInputs
SPECIFICATION Spec
INVARIANT FragmentKeptAsWritten
