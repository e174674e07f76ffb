-------------------------- MODULE MCBlockLifecycle --------------------------
EXTENDS BlockLifecycle

CONSTANTS b1, b2, t1, t2, t3   \* model values

=============================================================================
