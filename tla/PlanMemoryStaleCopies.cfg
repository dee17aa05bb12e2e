SPECIFICATION Spec
CONSTANT MaxNum = 3
CONSTANT Unlimited = 13
CONSTANT Jobs <- StaleJobs
INVARIANT AddressesApart
