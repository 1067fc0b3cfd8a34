\* A capacity SequenceBuffer::new accepts that does not divide Modulus.
CONSTANTS
    Modulus = 8
    Capacity = 3
    Values = {1}
SPECIFICATION Spec
PROPERTY RemembersEverything
