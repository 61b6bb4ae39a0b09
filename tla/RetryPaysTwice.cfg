SPECIFICATION Spec
CONSTANT MaxAttempts = 4
PROPERTY RetryIsNoSecondPayment
