-------------------------- MODULE MCFileReadSpeedTest --------------------------
EXTENDS FileReadSpeedTest

\* The value of Runners that ThreadsAssumption asks for.
MCRunners == Workers \cup {Main}
=============================================================================
