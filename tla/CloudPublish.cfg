\* Any certificate found in the modem; power fails twice.
CONSTANT MaxRestarts = 2
SPECIFICATION Spec
INVARIANTS TypeOK NothingHeld RequestKept Provisioned
PROPERTY RequestServed
