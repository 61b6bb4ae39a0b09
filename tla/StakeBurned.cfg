SPECIFICATION Spec
CONSTANT MaxAttempts = 2
PROPERTY GoodPaymentKeepsIntent
