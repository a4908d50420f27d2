------------------------------- MODULE MCMesh -------------------------------
EXTENDS Mesh
=============================================================================
