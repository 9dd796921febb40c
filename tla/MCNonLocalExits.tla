-------------------------- MODULE MCNonLocalExits --------------------------
\* Instances of NonLocalExits; the .cfg files give the constants.
EXTENDS NonLocalExits
=============================================================================
