---------------------------- MODULE MCCourierSpray ----------------------------
EXTENDS CourierSpray

CONSTANTS p1, p2, c1, c2
=============================================================================
