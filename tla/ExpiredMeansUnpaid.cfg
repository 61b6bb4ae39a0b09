SPECIFICATION Spec
CONSTANT MaxAttempts = 2
INVARIANT ExpiredMeansUnpaid
