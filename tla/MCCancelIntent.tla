---------------------------- MODULE MCCancelIntent ----------------------------
EXTENDS CancelIntent

\* A request of each side, and the delivery they race for.
CONSTANTS c1, s1, j1
===============================================================================
