------------------------------ MODULE MCCommandLine ------------------------------
EXTENDS CommandLine

\* An unsigned long long of 3 bits and a size_t of 2: 2 fits both, 5 only the
\* wider, 9 neither, and -1 is the largest value of each.
MCNumeral == [w \in {"2", "5", "-1", "9"} |->
                CASE w = "2" -> 2 [] w = "5" -> 5 [] w = "-1" -> -1 [] w = "9" -> 9]
=============================================================================
