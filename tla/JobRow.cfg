CONSTANT Lives <- MCLives
SPECIFICATION Spec
INVARIANTS TypeOK OrderTolerant
