SPECIFICATION Spec
CONSTANTS
    Lines <- SomeLines
    Mentions <- OneMention
    Outcomes = {"failed", "implemented"}
    MaxLines = 3
    MaxFiles = 1
INVARIANTS
    UniqueIds
    
PROPERTIES
    EditsAreLocal
    DeclaredDependenciesFirst
