--------------------------- MODULE MCRunLifecycle ---------------------------
EXTENDS RunLifecycle
CONSTANTS m1
=============================================================================
