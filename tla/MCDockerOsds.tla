---------------------------- MODULE MCDockerOsds ----------------------------
EXTENDS DockerOsds
=============================================================================
