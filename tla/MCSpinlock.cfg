CONSTANT Processors = {c1, c2, c3, c4}
SPECIFICATION LockSpec
INVARIANT MutualExclusion
PROPERTIES SomeWaiterEnters ImplementsLock
