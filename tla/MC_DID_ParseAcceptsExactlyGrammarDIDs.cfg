CONSTANT Inputs <- ParseInputs
SPECIFICATION Spec
INVARIANT ParseAcceptsExactlyGrammarDIDs
