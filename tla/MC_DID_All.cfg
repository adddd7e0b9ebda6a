CONSTANT Inputs <- AllInputs
SPECIFICATION Spec
INVARIANT TypeOK
INVARIANT ParseAcceptsRegexLanguage
INVARIANT ParseRoundTrip
