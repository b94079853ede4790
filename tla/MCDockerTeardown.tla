-------------------------- MODULE MCDockerTeardown --------------------------
EXTENDS DockerTeardown
=============================================================================
