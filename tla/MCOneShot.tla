------------------------------ MODULE MCOneShot ------------------------------
EXTENDS OneShot
=============================================================================
