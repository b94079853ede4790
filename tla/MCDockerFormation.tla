------------------------- MODULE MCDockerFormation -------------------------
EXTENDS DockerFormation
=============================================================================
