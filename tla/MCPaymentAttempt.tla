-------------------------- MODULE MCPaymentAttempt --------------------------
EXTENDS PaymentAttempt

CONSTANTS w1, w2
=============================================================================
