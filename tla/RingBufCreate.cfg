\* Each of the five allocations may fail in each of three calls.  The program may
\* stop (a junk pointer released, or no more calls): deadlock is not checked.
CONSTANTS
  MaxRings = 3
SPECIFICATION CSpec
INVARIANTS DamageIsStale OnlyBlocksLeak
CHECK_DEADLOCK FALSE
